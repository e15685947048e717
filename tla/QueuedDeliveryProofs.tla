------------------------- MODULE QueuedDeliveryProofs -------------------------
(***************************************************************************)
(* The queue of PendingSlots keeps its order and loses nothing, for any    *)
(* number of emitters, connections, emissions and arguments.               *)
(***************************************************************************)
EXTENDS QueuedDelivery, SequenceTheorems, WellFoundedInduction, TLAPS

\* Where a thread is in activate(), it has emitted and there is a connection.
AtShape ==
  \A e \in Emitters :
    /\ pc[e] # "idle" => emits[e] >= 1
    /\ pc[e] \in {"queueSlot", "blocked"} => at[e] <= Len(conns)
    /\ pc[e] = "queueSlot" => tempObj[e] \in Pending

DataShape == worker = "call" => data \in Pending

TypeInv == TypeOK /\ AtShape /\ DataShape

\* An override of queueSlot() puts the call in the queue.
Queueing(e) == Post(e) \/ PostAndWait(e)

\* The values of arguments are ordered as they are meant.
LEMMA Values == /\ Reused \in Nat /\ Moved \in Nat /\ Ref \in Nat
                /\ \A n \in 1 .. MaxEmits : n \in Reused .. Moved /\ n \in Reused .. Ref
                /\ Reused .. Moved \subseteq Reused .. Ref
                /\ Reused \in Reused .. Moved /\ Moved \in Reused .. Moved /\ Ref \in Reused .. Ref
BY TypeAssumption DEF Reused, Moved, Ref

\* A PendingSlot is not NULL.
LEMMA Constants == NULL \notin Emitters /\ MaxConns \in Nat /\ MaxEmits \in Nat
BY TypeAssumption

\* The signal is a sequence of types.
LEMMA SigTyped ==
  ASSUME TypeOK
  PROVE  Len(sig) \in Nat
BY TypeAssumption DEF TypeOK

\* Init has every variable in its domain.
LEMMA TypeInit == Init => TypeInv
<1> SUFFICES ASSUME Init PROVE TypeInv
  OBVIOUS
<1> USE Values, Constants
<1>1. PICK n \in 0 .. MaxConns : conns \in [1 .. n -> Kinds]
  BY DEF Init
<1>2. conns \in Seq(Kinds) /\ Len(conns) <= MaxConns
  BY <1>1
<1>3. /\ given \in [Emitters -> [1 .. Len(sig) -> Reused .. Moved]]
      /\ dataPack \in [Emitters -> Data]
  BY DEF Init, Data
<1>4. /\ at \in [Emitters -> 1 .. MaxConns + 1] /\ emits \in [Emitters -> 0 .. MaxEmits]
      /\ pc \in [Emitters -> {"idle", "loop", "queueSlot", "blocked"}]
  BY DEF Init
<1>5. TypeOK
  <2>1. tempObj \in [Emitters -> Pending \cup {NULL}] /\ data \in Pending \cup {NULL}
    BY DEF Init
  <2>2. array \in Seq(Pending) /\ posted \in Seq(Call) /\ ran \in Seq(Call)
    BY DEF Init
  <2> QED BY <1>2, <1>3, <1>4, <2>1, <2>2 DEF Init, TypeOK
<1>6. AtShape /\ DataShape
  BY DEF Init, AtShape, DataShape
<1> QED BY <1>5, <1>6 DEF TypeInv

\* A TeaCup holds values of its objects, or references to them.
LEMMA CupTyped ==
  ASSUME NEW b \in BOOLEAN, NEW objects \in [1 .. Len(sig) -> Reused .. Moved]
  PROVE  TeaCup(b, objects) \in Data
BY Values DEF TeaCup, Data

\* The variables that only emitters write, and the others.
EmittersTyped ==
  /\ pc \in [Emitters -> {"idle", "loop", "queueSlot", "blocked"}]
  /\ at \in [Emitters -> 1 .. MaxConns + 1]
  /\ emits \in [Emitters -> 0 .. MaxEmits]
  /\ given \in [Emitters -> [1 .. Len(sig) -> Reused .. Moved]]
  /\ dataPack \in [Emitters -> Data]
  /\ tempObj \in [Emitters -> Pending \cup {NULL}]

QueueTyped == array \in Seq(Pending) /\ posted \in Seq(Call) /\ ran \in Seq(Call)

ThreadTyped ==
  /\ mutex \in BOOLEAN /\ running \in BOOLEAN
  /\ worker \in {"lock", "locked", "toWait", "waiting", "call", "ended"}
  /\ data \in Pending \cup {NULL}
  /\ main \in {"emitting", "notify", "join", "joined"}

ConnectionTyped ==
  /\ sig \in Signals /\ override \in Overrides
  /\ conns \in Seq(Kinds) /\ Len(conns) <= MaxConns

\* Together they are TypeOK.
LEMMA TypeGroups == TypeOK <=> ConnectionTyped /\ EmittersTyped /\ QueueTyped /\ ThreadTyped
BY DEF TypeOK, ConnectionTyped, EmittersTyped, QueueTyped, ThreadTyped

\* The steps of activate() that lead out of queueSlot() or make a direct call.
LEMMA LoopTyped ==
  ASSUME TypeInv, NEW e \in Emitters, Direct(e) \/ RunNow(e) \/ Queueing(e) \/ Unblock(e) \/ Finish(e)
  PROVE  EmittersTyped' /\ AtShape'
<1>a. ConnectionTyped /\ EmittersTyped /\ AtShape
  BY TypeGroups DEF TypeInv
<1> USE Values, Constants
<1>b. Len(conns) \in Nat /\ UNCHANGED <<sig, conns>>
  BY <1>a DEF ConnectionTyped, Direct, RunNow, Queueing, Post, PostAndWait, PutInQueue, Unblock, Finish,
     connectionVars
<1>1. CASE Direct(e)
  BY <1>a, <1>b, <1>1 DEF Direct, AtKind, EmittersTyped, AtShape, ConnectionTyped, Data, Pending
<1>2. CASE RunNow(e)
  BY <1>a, <1>b, <1>2 DEF RunNow, EmittersTyped, AtShape, ConnectionTyped, Data, Pending
<1>3. CASE Queueing(e)
  <2>0. pc[e] = "queueSlot"
    BY <1>3 DEF Queueing, Post, PostAndWait
  <2>1. at[e] \in 1 .. MaxConns /\ at[e] <= Len(conns) /\ emits[e] >= 1
    BY <1>a, <1>b, <2>0 DEF EmittersTyped, AtShape, ConnectionTyped
  <2>2. \/ pc' = [pc EXCEPT ![e] = "loop"] /\ at' = [at EXCEPT ![e] = @ + 1]
        \/ pc' = [pc EXCEPT ![e] = "blocked"] /\ at' = at
    BY <1>3 DEF Queueing, Post, PostAndWait
  <2>3. tempObj' = [tempObj EXCEPT ![e] = NULL] /\ UNCHANGED <<emits, given, dataPack>>
    BY <1>3 DEF Queueing, Post, PostAndWait, PutInQueue
  <2>4. Data' = Data /\ Pending' = Pending
    BY <1>b DEF Data, Pending
  <2>5. CASE pc' = [pc EXCEPT ![e] = "loop"] /\ at' = [at EXCEPT ![e] = @ + 1]
    BY <1>a, <1>b, <2>1, <2>3, <2>4, <2>5 DEF EmittersTyped, AtShape
  <2>6. CASE pc' = [pc EXCEPT ![e] = "blocked"] /\ at' = at
    BY <1>a, <1>b, <2>1, <2>3, <2>4, <2>6 DEF EmittersTyped, AtShape
  <2> QED BY <2>2, <2>5, <2>6
<1>4. CASE Unblock(e)
  <2>1. at[e] \in 1 .. MaxConns /\ at[e] <= Len(conns) /\ emits[e] >= 1
    BY <1>a, <1>b, <1>4 DEF Unblock, EmittersTyped, AtShape, ConnectionTyped
  <2>2. /\ pc' = [pc EXCEPT ![e] = "loop"] /\ at' = [at EXCEPT ![e] = @ + 1]
        /\ UNCHANGED <<emits, given, dataPack, tempObj>>
    BY <1>4 DEF Unblock
  <2>3. Data' = Data /\ Pending' = Pending
    BY <1>b DEF Data, Pending
  <2> QED BY <1>a, <1>b, <2>1, <2>2, <2>3 DEF EmittersTyped, AtShape
<1>5. CASE Finish(e)
  <2>1. [k \in 1 .. Len(sig) |-> Reused] \in [1 .. Len(sig) -> Reused .. Moved]
    OBVIOUS
  <2>2. [k \in 1 .. Len(sig) |-> Reused] \in Data
    BY DEF Data
  <2>3. given' \in [Emitters -> [1 .. Len(sig) -> Reused .. Moved]] /\ dataPack' \in [Emitters -> Data]
    BY <1>a, <1>5, <2>1, <2>2 DEF Finish, EmittersTyped
  <2>4. pc' = [pc EXCEPT ![e] = "idle"] /\ UNCHANGED <<at, emits, tempObj>>
    BY <1>5 DEF Finish
  <2>5. Data' = Data /\ Pending' = Pending
    BY <1>b DEF Data, Pending
  <2> QED BY <1>a, <1>b, <2>3, <2>4, <2>5 DEF EmittersTyped, AtShape
<1> QED BY <1>1, <1>2, <1>3, <1>4, <1>5

\* The PendingSlot that activate() makes.
LEMMA MadeTyped ==
  ASSUME TypeInv, NEW e \in Emitters, NEW b \in BOOLEAN, pc[e] = "loop", at[e] <= Len(conns), MakePending(e, b)
  PROVE  EmittersTyped' /\ AtShape'
<1>a. ConnectionTyped /\ EmittersTyped /\ AtShape
  BY TypeGroups DEF TypeInv
<1> USE Values, Constants
<1>1. UNCHANGED <<sig, conns, at, emits, given, dataPack>>
  BY DEF MakePending, connectionVars
<1>2. [call |-> [from |-> e, n |-> emits[e], at |-> at[e]], data |-> TeaCup(b, given[e])] \in Pending
  <2>1. TeaCup(b, given[e]) \in Data
    BY <1>a, CupTyped DEF EmittersTyped
  <2>2. Len(conns) \in Nat /\ at[e] \in 1 .. MaxConns /\ emits[e] \in 1 .. MaxEmits
    BY <1>a DEF ConnectionTyped, EmittersTyped, AtShape
  <2> QED BY <2>1, <2>2 DEF Pending, Call
<1>3. tempObj' \in [Emitters -> Pending \cup {NULL}] /\ tempObj'[e] \in Pending
  BY <1>a, <1>2 DEF MakePending, EmittersTyped
<1>4. pc' = [pc EXCEPT ![e] = "queueSlot"] /\ \A f \in Emitters \ {e} : tempObj'[f] = tempObj[f]
  BY <1>a DEF MakePending, EmittersTyped
<1>5. Data' = Data /\ Pending' = Pending
  BY <1>1 DEF Data, Pending
<1> QED BY <1>a, <1>1, <1>3, <1>4, <1>5 DEF EmittersTyped, AtShape

\* activate() begins with an emission more.
LEMMA EmitTyped ==
  ASSUME TypeInv, NEW e \in Emitters, NEW b \in BOOLEAN, Emit(e, b)
  PROVE  EmittersTyped' /\ AtShape'
<1>a. EmittersTyped /\ AtShape
  BY TypeGroups DEF TypeInv
<1> USE Values, Constants
<1> DEFINE n == emits[e] + 1
<1>1. n \in 1 .. MaxEmits /\ UNCHANGED <<sig, conns, tempObj>>
  BY <1>a DEF Emit, EmittersTyped, connectionVars
<1>2. [k \in 1 .. Len(sig) |-> n] \in [1 .. Len(sig) -> Reused .. Moved]
  BY <1>1
<1>3. [k \in 1 .. Len(sig) |-> IF b /\ sig[k] \notin References THEN Moved ELSE n]
        \in [1 .. Len(sig) -> Reused .. Moved]
  BY <1>1
<1>4. TeaCup(FALSE, [k \in 1 .. Len(sig) |-> n]) \in Data
  BY <1>2, CupTyped
<1>5. given' \in [Emitters -> [1 .. Len(sig) -> Reused .. Moved]] /\ dataPack' \in [Emitters -> Data]
  BY <1>a, <1>3, <1>4 DEF Emit, EmittersTyped
<1>6. /\ pc' = [pc EXCEPT ![e] = "loop"] /\ at' = [at EXCEPT ![e] = 1]
      /\ emits' = [emits EXCEPT ![e] = n]
  BY DEF Emit
<1>7. Data' = Data /\ Pending' = Pending
  BY <1>1 DEF Data, Pending
<1> HIDE DEF n
<1> QED BY <1>a, <1>1, <1>5, <1>6, <1>7 DEF EmittersTyped, AtShape

\* The threads that run beside the emitters leave these alone.
LEMMA EmittersKept ==
  ASSUME TypeInv, UNCHANGED <<connectionVars, emitterVars>>
  PROVE  EmittersTyped' /\ AtShape'
BY TypeGroups DEF TypeInv, EmittersTyped, AtShape, connectionVars, emitterVars, Data, Pending

\* What is put into the queue, taken out of it and called is a PendingSlot.
LEMMA QueueStep ==
  ASSUME TypeInv, [Next]_vars
  PROVE  QueueTyped' /\ ThreadTyped' /\ DataShape'
<1>a. QueueTyped /\ ThreadTyped /\ DataShape /\ EmittersTyped /\ AtShape
  BY TypeGroups DEF TypeInv
<1>b. sig' = sig
  BY DEF Next, Emit, Activating, Direct, Queue, QueueBlocking, MakePending, RunNow, Queueing, Post,
     PostAndWait, PutInQueue, Unblock, Finish,
         CallBack, Lock, Pop, MakeCall, Break, GoOn, Wait, WakeSpuriously, Stop, Ending, StopNotify, Join,
         vars, connectionVars
<1>c. Pending' = Pending
  BY <1>b DEF Pending, Data
<1>1. CASE UNCHANGED threadVars
  BY <1>a, <1>c, <1>1 DEF threadVars, QueueTyped, ThreadTyped, DataShape
<1>2. ASSUME NEW e \in Emitters, Queueing(e) PROVE QueueTyped' /\ ThreadTyped' /\ DataShape'
  <2>1. tempObj[e] \in Pending /\ tempObj[e].call \in Call
    BY <1>a, <1>2 DEF Queueing, Post, PostAndWait, PutInQueue, AtShape, Pending
  <2>2. /\ array' = Append(array, tempObj[e]) /\ posted' = Append(posted, tempObj[e].call)
        /\ UNCHANGED <<mutex, running, data, main, ran>>
        /\ worker' = IF worker = "waiting" THEN "lock" ELSE worker
    BY <1>2 DEF Queueing, Post, PostAndWait, PutInQueue, Notify
  <2> QED BY <1>a, <1>c, <2>1, <2>2 DEF QueueTyped, ThreadTyped, DataShape
<1>3. CASE Pop
  <2>1. Head(array) \in Pending /\ Tail(array) \in Seq(Pending)
    BY <1>a, <1>3 DEF Pop, QueueTyped
  <2> QED BY <1>a, <1>c, <1>3, <2>1 DEF Pop, QueueTyped, ThreadTyped, DataShape
<1>4. CASE MakeCall
  <2>1. data.call \in Call
    BY <1>a, <1>4 DEF MakeCall, DataShape, Pending
  <2> QED BY <1>a, <1>c, <1>4, <2>1 DEF MakeCall, QueueTyped, ThreadTyped, DataShape
<1>5. CASE Lock \/ Break \/ GoOn \/ Wait \/ WakeSpuriously
  BY <1>a, <1>c, <1>5 DEF Lock, Break, GoOn, Wait, WakeSpuriously, QueueTyped, ThreadTyped, DataShape
<1>6. CASE Stop \/ StopNotify \/ Join
  BY <1>a, <1>c, <1>6 DEF Stop, StopNotify, Join, Notify, QueueTyped, ThreadTyped, DataShape
<1>7. ASSUME NEW e \in Emitters, Emit(e, FALSE) \/ Activating(e), ~Queueing(e) PROVE UNCHANGED threadVars
  BY <1>7 DEF Emit, Activating, Direct, Queue, QueueBlocking, MakePending, RunNow, Queueing, Unblock, Finish
<1> QED BY <1>1, <1>2, <1>3, <1>4, <1>5, <1>6, <1>7 DEF Next, CallBack, Ending, vars

\* Every step keeps every variable in its domain.
LEMMA TypeStep == TypeInv /\ [Next]_vars => TypeInv'
<1> SUFFICES ASSUME TypeInv, [Next]_vars PROVE TypeInv'
  OBVIOUS
<1>1. UNCHANGED connectionVars
  BY DEF Next, Emit, Activating, Direct, Queue, QueueBlocking, MakePending, RunNow, Queueing, Post,
     PostAndWait, PutInQueue, Unblock, Finish,
         CallBack, Lock, Pop, MakeCall, Break, GoOn, Wait, WakeSpuriously, Stop, Ending, StopNotify, Join, vars
<1>2. ConnectionTyped'
  BY <1>1, TypeGroups DEF TypeInv, ConnectionTyped, connectionVars
<1>3. EmittersTyped' /\ AtShape'
  <2>1. ASSUME NEW e \in Emitters, Emit(e, FALSE) PROVE EmittersTyped' /\ AtShape'
    BY <2>1, EmitTyped
  <2>2. ASSUME NEW e \in Emitters, Queue(e) \/ QueueBlocking(e) PROVE EmittersTyped' /\ AtShape'
    BY <2>2, MadeTyped DEF Queue, QueueBlocking, AtKind
  <2>3. ASSUME NEW e \in Emitters, Activating(e) PROVE EmittersTyped' /\ AtShape'
    BY <2>2, <2>3, LoopTyped DEF Activating, Queueing
  <2>4. CASE CallBack \/ WakeSpuriously \/ Stop \/ Ending \/ UNCHANGED vars
    BY <2>4, EmittersKept DEF CallBack, Lock, Pop, MakeCall, Break, GoOn, Wait, WakeSpuriously, Stop, Ending,
       StopNotify, Join, vars
  <2> QED BY <2>1, <2>3, <2>4 DEF Next
<1> QED BY <1>2, <1>3, QueueStep, TypeGroups DEF TypeInv, TypeOK, ConnectionTyped, EmittersTyped, QueueTyped,
        ThreadTyped, Data, Pending

-----------------------------------------------------------------------------
(* The order of the calls *)

\* A PendingSlot has one call.
LEMMA OneCall == \A p \in Pending : p.call \in Call
BY DEF Pending

\* So the calls in a queue are a sequence of the same length.
LEMMA CallsTyped ==
  ASSUME NEW queue \in Seq(Pending)
  PROVE  /\ CallsIn(queue) \in Seq(Call) /\ Len(CallsIn(queue)) = Len(queue)
         /\ \A k \in 1 .. Len(queue) : CallsIn(queue)[k] = queue[k].call /\ queue[k].call \in Call
<1>1. \A k \in 1 .. Len(queue) : queue[k] \in Pending
  BY ElementOfSeq
<1>2. \A k \in 1 .. Len(queue) : queue[k].call \in Call
  BY <1>1, OneCall
<1> QED BY <1>2 DEF CallsIn

\* Queueing a call appends it to the calls in the queue.
LEMMA CallsAppended ==
  ASSUME NEW queue \in Seq(Pending), NEW p \in Pending
  PROVE  CallsIn(Append(queue, p)) = CallsIn(queue) \o <<p.call>>
<1>1. p.call \in Call /\ Append(queue, p) \in Seq(Pending) /\ Len(Append(queue, p)) = Len(queue) + 1
  BY OneCall
<1>2. \A k \in 1 .. Len(queue) + 1 : Append(queue, p)[k] = IF k <= Len(queue) THEN queue[k] ELSE p
  OBVIOUS
<1>3. /\ CallsIn(queue) \o <<p.call>> \in Seq(Call) /\ Len(CallsIn(queue) \o <<p.call>>) = Len(queue) + 1
      /\ \A k \in 1 .. Len(queue) + 1 :
           (CallsIn(queue) \o <<p.call>>)[k] = IF k <= Len(queue) THEN queue[k].call ELSE p.call
  <2>1. <<p.call>> \in Seq(Call) /\ Len(<<p.call>>) = 1 /\ <<p.call>>[1] = p.call
    BY <1>1
  <2> QED BY <2>1, CallsTyped, ConcatProperties
<1>4. /\ CallsIn(Append(queue, p)) \in Seq(Call) /\ Len(CallsIn(Append(queue, p))) = Len(queue) + 1
      /\ \A k \in 1 .. Len(queue) + 1 : CallsIn(Append(queue, p))[k] = Append(queue, p)[k].call
  <2>1. /\ CallsIn(Append(queue, p)) \in Seq(Call) /\ Len(CallsIn(Append(queue, p))) = Len(Append(queue, p))
        /\ \A k \in 1 .. Len(Append(queue, p)) : CallsIn(Append(queue, p))[k] = Append(queue, p)[k].call
    BY <1>1, CallsTyped
  <2> QED BY <1>1, <2>1
<1>5. \A k \in 1 .. Len(queue) + 1 : CallsIn(Append(queue, p))[k] = (CallsIn(queue) \o <<p.call>>)[k]
  BY <1>2, <1>3, <1>4
<1> QED BY <1>3, <1>4, <1>5, SeqEqual

\* Taking the first one out leaves the others in their order.
LEMMA CallsTaken ==
  ASSUME NEW queue \in Seq(Pending), queue # <<>>
  PROVE  CallsIn(queue) = <<Head(queue).call>> \o CallsIn(Tail(queue))
<1>1. /\ Head(queue) \in Pending /\ Head(queue) = queue[1] /\ Len(queue) \in Nat \ {0}
      /\ Tail(queue) \in Seq(Pending) /\ Len(Tail(queue)) = Len(queue) - 1
      /\ \A k \in 1 .. Len(queue) - 1 : Tail(queue)[k] = queue[k + 1]
  BY HeadTailProperties, EmptySeq
<1>2. <<Head(queue).call>> \in Seq(Call) /\ Len(<<Head(queue).call>>) = 1
      /\ <<Head(queue).call>>[1] = queue[1].call
  BY <1>1, OneCall
<1> DEFINE s == <<Head(queue).call>> \o CallsIn(Tail(queue))
<1>3. /\ CallsIn(Tail(queue)) \in Seq(Call) /\ Len(CallsIn(Tail(queue))) = Len(queue) - 1
      /\ \A k \in 1 .. Len(queue) - 1 : CallsIn(Tail(queue))[k] = queue[k + 1].call
  <2>1. /\ CallsIn(Tail(queue)) \in Seq(Call) /\ Len(CallsIn(Tail(queue))) = Len(Tail(queue))
        /\ \A k \in 1 .. Len(Tail(queue)) : CallsIn(Tail(queue))[k] = Tail(queue)[k].call
    BY <1>1, CallsTyped
  <2> QED BY <1>1, <2>1
<1>4. /\ s \in Seq(Call) /\ Len(s) = 1 + (Len(queue) - 1)
      /\ \A k \in 1 .. 1 + (Len(queue) - 1) : s[k] = IF k <= 1 THEN queue[1].call ELSE CallsIn(Tail(queue))[k - 1]
  <2>1. /\ s \in Seq(Call) /\ Len(s) = 1 + (Len(queue) - 1)
        /\ \A k \in 1 .. 1 + (Len(queue) - 1) :
             s[k] = IF k <= 1 THEN <<Head(queue).call>>[k] ELSE CallsIn(Tail(queue))[k - 1]
    BY <1>2, <1>3, ConcatProperties
  <2>2. \A k \in 1 .. 1 + (Len(queue) - 1) : k <= 1 => k = 1
    BY <1>1
  <2> HIDE DEF s
  <2> QED BY <1>2, <2>1, <2>2
<1> HIDE DEF s
<1>5. /\ CallsIn(queue) \in Seq(Call) /\ Len(CallsIn(queue)) = Len(queue)
      /\ \A k \in 1 .. Len(queue) : CallsIn(queue)[k] = queue[k].call
  BY CallsTyped
<1>6. Len(s) = Len(queue) /\ \A k \in 1 .. Len(queue) : s[k] = CallsIn(queue)[k]
  BY <1>1, <1>3, <1>4, <1>5
<1>7. CallsIn(queue) = s
  BY <1>4, <1>5, <1>6, SeqEqual
<1> QED BY <1>7 DEF s

OrderInv == TypeInv /\ InOrder

\* Every step keeps the calls in the order of the queue.
LEMMA OrderStep == OrderInv /\ [Next]_vars => OrderInv'
<1> SUFFICES ASSUME OrderInv, [Next]_vars PROVE InOrder'
  BY TypeStep DEF OrderInv
<1>a. QueueTyped /\ DataShape /\ AtShape /\ InOrder
  BY TypeGroups DEF OrderInv, TypeInv
<1>b. CallsIn(array) \in Seq(Call) /\ InHand \in Seq(Call)
  <2>1. worker = "call" => data.call \in Call
    BY <1>a, OneCall DEF DataShape
  <2> QED BY <1>a, <2>1, CallsTyped DEF QueueTyped, InHand
<1>1. CASE UNCHANGED <<array, posted, ran, data>> /\ (worker = "call" <=> worker' = "call")
  BY <1>a, <1>1 DEF InOrder, InHand, CallsIn
<1>2. ASSUME NEW e \in Emitters, Queueing(e) PROVE InOrder'
  <2>1. tempObj[e] \in Pending /\ tempObj[e].call \in Call
    BY <1>a, <1>2 DEF Queueing, Post, PostAndWait, PutInQueue, AtShape, Pending
  <2>2. CallsIn(array') = CallsIn(array) \o <<tempObj[e].call>>
    BY <1>a, <1>2, <2>1, CallsAppended DEF Queueing, Post, PostAndWait, PutInQueue, QueueTyped
  <2>3. posted' = posted \o <<tempObj[e].call>>
    <3>1. posted' = Append(posted, tempObj[e].call)
      BY <1>2 DEF Queueing, Post, PostAndWait, PutInQueue
    <3> QED BY <1>a, <2>1, <3>1, AppendIsConcat DEF QueueTyped
  <2>4. ran' = ran /\ InHand' = InHand
    BY <1>2 DEF Queueing, Post, PostAndWait, PutInQueue, Notify, InHand
  <2>5. ran \o InHand \in Seq(Call) /\ <<tempObj[e].call>> \in Seq(Call)
    BY <1>a, <1>b, <2>1 DEF QueueTyped
  <2>6. ((ran \o InHand) \o CallsIn(array)) \o <<tempObj[e].call>>
          = (ran \o InHand) \o (CallsIn(array) \o <<tempObj[e].call>>)
    BY <1>b, <2>5, ConcatAssociative
  <2> QED BY <1>a, <2>2, <2>3, <2>4, <2>6 DEF InOrder, CallsIn
<1>3. CASE Pop
  <2>1. CallsIn(array) = <<Head(array).call>> \o CallsIn(array')
    BY <1>a, <1>3, CallsTaken DEF Pop, QueueTyped
  <2>2. InHand = <<>> /\ InHand' = <<Head(array).call>> /\ ran' = ran /\ posted' = posted
    BY <1>3 DEF Pop, InHand
  <2>3. Head(array).call \in Call /\ CallsIn(array') \in Seq(Call)
    <3>1. Head(array) \in Pending /\ array' \in Seq(Pending)
      BY <1>a, <1>3, HeadTailProperties DEF Pop, QueueTyped
    <3> QED BY <3>1, OneCall, CallsTyped
  <2>4. ran \o <<>> = ran
    BY <1>a, ConcatEmptySeq DEF QueueTyped
  <2>5. ran \o (<<Head(array).call>> \o CallsIn(array')) = (ran \o <<Head(array).call>>) \o CallsIn(array')
    BY <1>a, <2>3, ConcatAssociative DEF QueueTyped
  <2> QED BY <1>a, <2>1, <2>2, <2>4, <2>5 DEF InOrder, CallsIn
<1>4. CASE MakeCall
  <2>1. InHand = <<data.call>> /\ InHand' = <<>> /\ data.call \in Call
    BY <1>a, <1>4 DEF MakeCall, InHand, DataShape, Pending
  <2>2. ran' = ran \o <<data.call>> /\ ran' \in Seq(Call)
    BY <1>a, <1>4, <2>1, AppendIsConcat DEF MakeCall, QueueTyped
  <2>3. ran' \o <<>> = ran'
    BY <2>2, ConcatEmptySeq
  <2>4. UNCHANGED <<posted, array>>
    BY <1>4 DEF MakeCall
  <2> QED BY <1>a, <2>1, <2>2, <2>3, <2>4 DEF InOrder, CallsIn
<1>5. CASE Lock \/ Break \/ GoOn \/ Wait \/ WakeSpuriously \/ Stop \/ StopNotify \/ Join \/ UNCHANGED vars
  BY <1>1, <1>5 DEF Lock, Break, GoOn, Wait, WakeSpuriously, Stop, StopNotify, Join, Notify, emitterVars, vars,
     threadVars
<1>6. ASSUME NEW e \in Emitters, Emit(e, FALSE) \/ Activating(e), ~Queueing(e) PROVE UNCHANGED threadVars
  BY <1>6 DEF Emit, Activating, Direct, Queue, QueueBlocking, MakePending, RunNow, Queueing, Unblock, Finish
<1>7. CASE UNCHANGED threadVars
  BY <1>1, <1>7 DEF threadVars
<1> QED BY <1>2, <1>3, <1>4, <1>5, <1>6, <1>7 DEF Next, CallBack, Ending

-----------------------------------------------------------------------------
(* The end *)

\* The flag is cleared when the emitters are done; the thread of the receiver
\* leaves an empty queue and is waited for.
EndInv ==
  /\ main # "emitting" => \A e \in Emitters : pc[e] = "idle"
  /\ ~running => main # "emitting"
  /\ worker = "ended" => ~running /\ array = <<>>
  /\ main = "joined" => worker = "ended"

\* Nothing is queued after the thread has ended.
LEMMA EndStep == EndInv /\ TypeOK /\ [Next]_vars => EndInv'
<1> SUFFICES ASSUME EndInv, TypeOK, [Next]_vars PROVE EndInv'
  OBVIOUS
<1>a. pc \in [Emitters -> {"idle", "loop", "queueSlot", "blocked"}] /\ main \in {"emitting", "notify", "join", "joined"}
  BY DEF TypeOK
<1>1. ASSUME NEW e \in Emitters, Emit(e, FALSE) PROVE EndInv'
  BY <1>a, <1>1 DEF EndInv, Emit, threadVars
<1>2. ASSUME NEW e \in Emitters, Activating(e), ~Queueing(e) PROVE EndInv'
  <2>1. UNCHANGED threadVars /\ pc[e] # "idle"
    BY <1>2 DEF Activating, Direct, Queue, QueueBlocking, AtKind, MakePending, RunNow, Queueing, Unblock, Finish
  <2> QED BY <2>1 DEF EndInv, threadVars
<1>3. ASSUME NEW e \in Emitters, Queueing(e) PROVE EndInv'
  <2>1. main = "emitting" /\ running /\ worker # "ended"
    BY <1>3 DEF EndInv, Queueing, Post, PostAndWait, PutInQueue
  <2>2. main' = main /\ running' = running /\ worker' # "ended"
    BY <1>3, <2>1 DEF Queueing, Post, PostAndWait, PutInQueue, Notify
  <2> QED BY <2>1, <2>2 DEF EndInv
<1>4. CASE CallBack \/ WakeSpuriously
  BY <1>a, <1>4 DEF EndInv, CallBack, Lock, Pop, MakeCall, Break, GoOn, Wait, WakeSpuriously, emitterVars
<1>5. CASE Stop \/ StopNotify \/ Join
  BY <1>a, <1>5 DEF EndInv, Stop, StopNotify, Join, Notify, emitterVars
<1>6. CASE UNCHANGED vars
  BY <1>6 DEF EndInv, vars, emitterVars, threadVars
<1> QED BY <1>1, <1>2, <1>3, <1>4, <1>5, <1>6 DEF Next, Ending

\* With InOrder, an empty queue and a thread that has ended leave nothing uncalled.
LEMMA EndImplies == OrderInv /\ EndInv => AllMadeWhenJoined
<1> SUFFICES ASSUME OrderInv, EndInv, main = "joined" PROVE array = <<>> /\ ran = posted
  BY DEF AllMadeWhenJoined
<1>1. array = <<>> /\ InHand = <<>>
  BY DEF EndInv, InHand
<1>2. CallsIn(array) = <<>>
  BY <1>1 DEF CallsIn
<1>3. ran \in Seq(Call)
  BY DEF OrderInv, TypeInv, TypeOK
<1>4. (ran \o <<>>) \o <<>> = ran
  BY <1>3, ConcatEmptySeq
<1> QED BY <1>1, <1>2, <1>4 DEF OrderInv, InOrder

-----------------------------------------------------------------------------
(* What the templates compute *)

\* A set of numbers that is not empty has a least one.
LEMMA Least ==
  ASSUME NEW T \in SUBSET Nat, T # {}
  PROVE  \E n \in T : \A m \in T : n <= m
<1>1. PICK n \in T : \A m \in T : ~(m < n)
  <2>1. IsWellFoundedOn(OpToRel(<, Nat), Nat)
    BY NatLessThanWellFounded
  <2>2. PICK n \in T : \A m \in T : <<m, n>> \notin OpToRel(<, Nat)
    BY <2>1, WFMin
  <2> QED BY <2>2 DEF OpToRel
<1> QED BY <1>1

\* The first n elements.
First(s, n) == [k \in 1 .. n |-> s[k]]

\* cs_check_connect_args accepts a slot with the first types of the signal.
LEMMA AcceptsFirst ==
  ASSUME NEW T, NEW s \in Seq(T), NEW slot \in Seq(T)
  PROVE  Accepts(s, slot) <=> Len(slot) <= Len(s) /\ slot = First(s, Len(slot))
<1> DEFINE L == Len(slot)
           Same(k) == k <= Len(s) /\ s[k] = slot[k]
           Step(f) == [k \in 0 .. L |-> k = L \/ (k < Len(s) /\ s[k + 1] = slot[k + 1] /\ f[k + 1])]
           g == [k \in 0 .. L |-> \A j \in k + 1 .. L : Same(j)]
<1>0. L \in Nat /\ Len(s) \in Nat
  OBVIOUS
<1>1. \A k \in 0 .. L - 1 : g[k] <=> Same(k + 1) /\ g[k + 1]
  <2> SUFFICES ASSUME NEW k \in 0 .. L - 1 PROVE g[k] <=> Same(k + 1) /\ g[k + 1]
    OBVIOUS
  <2>1. k \in 0 .. L /\ k + 1 \in 0 .. L
    BY <1>0
  <2>2. (g[k] <=> \A j \in k + 1 .. L : Same(j)) /\ (g[k + 1] <=> \A j \in (k + 1) + 1 .. L : Same(j))
    BY <2>1
  <2>3. \A j : j \in k + 1 .. L <=> j = k + 1 \/ j \in (k + 1) + 1 .. L
    BY <1>0
  <2> HIDE DEF Same, g
  <2> QED BY <2>2, <2>3
<1>2. g = Step(g)
  <2>1. ASSUME NEW k \in 0 .. L
        PROVE  g[k] <=> (k = L \/ (k < Len(s) /\ s[k + 1] = slot[k + 1] /\ g[k + 1]))
    <3>1. CASE k = L
      <4>1. k + 1 .. L = {}
        BY <1>0, <3>1
      <4> QED BY <3>1, <4>1
    <3>2. CASE k # L
      <4>1. k \in 0 .. L - 1 /\ (Same(k + 1) <=> k < Len(s) /\ s[k + 1] = slot[k + 1])
        BY <1>0, <3>2
      <4> HIDE DEF g, Same
      <4> QED BY <1>1, <3>2, <4>1
    <3> QED BY <3>1, <3>2
  <2> QED BY <2>1, Zenon
<1>3. ASSUME NEW f, f = Step(f) PROVE f[0] <=> g[0]
  <2> DEFINE U == {i \in 0 .. L : ~(f[L - i] <=> g[L - i])}
  <2> SUFFICES ASSUME U # {} PROVE FALSE
    <3>1. 0 = L - L /\ L \in 0 .. L
      BY <1>0
    <3> QED BY <3>1
  <2>0. U \in SUBSET Nat
    OBVIOUS
  <2>1. PICK n \in U : \A m \in U : n <= m
    <3> HIDE DEF U
    <3> QED BY <2>0, Least
  <2>2. \A k \in 0 .. L : f[k] <=> (k = L \/ (k < Len(s) /\ s[k + 1] = slot[k + 1] /\ f[k + 1]))
    BY <1>3, Zenon
  <2>3. n \in 0 .. L /\ L - n \in 0 .. L /\ ~(f[L - n] <=> g[L - n])
    BY <1>0, <2>1
  <2>4. CASE n = 0
    <3>1. L - n = L /\ L + 1 .. L = {} /\ L \in 0 .. L
      BY <1>0, <2>4
    <3>2. f[L]
      BY <2>2, <3>1
    <3>3. g[L]
      BY <3>1
    <3> QED BY <2>3, <3>1, <3>2, <3>3
  <2>5. CASE n # 0
    <3>1. n - 1 \in 0 .. L /\ ~(n <= n - 1) /\ L - (n - 1) = (L - n) + 1 /\ L - n \in 0 .. L - 1 /\ L - n # L
      BY <1>0, <2>3, <2>5
    <3>2. n - 1 \notin U
      <4> HIDE DEF U
      <4> QED BY <2>1, <3>1
    <3>3. f[(L - n) + 1] <=> g[(L - n) + 1]
      BY <3>1, <3>2
    <3>4. f[L - n] <=> L - n < Len(s) /\ s[(L - n) + 1] = slot[(L - n) + 1] /\ f[(L - n) + 1]
      <4> HIDE DEF L
      <4> QED BY <2>2, <2>3, <3>1
    <3>5. g[L - n] <=> Same((L - n) + 1) /\ g[(L - n) + 1]
      BY <1>1, <3>1
    <3>6. Same((L - n) + 1) <=> L - n < Len(s) /\ s[(L - n) + 1] = slot[(L - n) + 1]
      BY <1>0, <3>1
    <3> HIDE DEF g, Same
    <3> QED BY <2>3, <3>3, <3>4, <3>5, <3>6
  <2> QED BY <2>4, <2>5
<1>4. Accepts(s, slot) <=> g[0]
  <2>1. Accepts(s, slot) <=> (CHOOSE f : f = Step(f))[0]
    BY DEF Accepts
  <2> HIDE DEF g, Step
  <2> QED BY <1>2, <1>3, <2>1
<1>5. g[0] <=> \A j \in 1 .. L : Same(j)
  BY <1>0
<1>6. (\A j \in 1 .. L : Same(j)) <=> L <= Len(s) /\ slot = First(s, L)
  <2>1. ASSUME \A j \in 1 .. L : Same(j) PROVE L <= Len(s) /\ slot = First(s, L)
    <3>1. L <= Len(s)
      BY <1>0, <2>1
    <3>2. slot = [j \in 1 .. L |-> slot[j]]
      OBVIOUS
    <3> QED BY <2>1, <3>1, <3>2 DEF First
  <2>2. ASSUME L <= Len(s), slot = First(s, L), NEW j \in 1 .. L PROVE Same(j)
    <3>1. First(s, L)[j] = s[j] /\ j <= Len(s)
      BY <1>0, <2>2 DEF First
    <3> QED BY <2>2, <3>1
  <2> QED BY <2>1, <2>2
<1> QED BY <1>4, <1>5, <1>6


\* removeLastType leaves all types but the last.
LEMMA LastRemoved ==
  ASSUME NEW s, NEW n \in Nat \ {0}, s = First(s, n)
  PROVE  RemoveLastType(s) = First(s, n - 1)
<1> DEFINE Step(f) == [k \in 1 .. n |-> IF k = n THEN <<>> ELSE <<s[k]>> \o f[k + 1]]
           g == [k \in 1 .. n |-> [j \in 1 .. n - k |-> s[k + (j - 1)]]]
<1>1. Len(s) = n
  BY DEF First
<1>2. \A k \in 1 .. n - 1 : g[k] = <<s[k]>> \o g[k + 1]
  <2> SUFFICES ASSUME NEW k \in 1 .. n - 1 PROVE g[k] = <<s[k]>> \o g[k + 1]
    OBVIOUS
  <2> DEFINE V == {s[j] : j \in 1 .. n}
             q == g[k + 1]
             p == <<s[k]>>
  <2>1. q = [j \in 1 .. n - (k + 1) |-> s[(k + 1) + (j - 1)]] /\ g[k] = [j \in 1 .. n - k |-> s[k + (j - 1)]]
    OBVIOUS
  <2>2. q \in Seq(V) /\ Len(q) = n - (k + 1)
    <3>1. \A j \in 1 .. n - (k + 1) : (k + 1) + (j - 1) \in 1 .. n
      OBVIOUS
    <3>2. \A j \in 1 .. n - (k + 1) : s[(k + 1) + (j - 1)] \in V
      BY <3>1
    <3>3. n - (k + 1) \in Nat
      OBVIOUS
    <3> HIDE DEF q, V
    <3> QED BY <2>1, <3>2, <3>3
  <2>3. g[k] \in Seq(V) /\ Len(g[k]) = n - k
    <3>1. \A j \in 1 .. n - k : k + (j - 1) \in 1 .. n
      OBVIOUS
    <3>2. \A j \in 1 .. n - k : s[k + (j - 1)] \in V
      BY <3>1
    <3>3. n - k \in Nat
      OBVIOUS
    <3> HIDE DEF g, V
    <3> QED BY <2>1, <3>2, <3>3
  <2>4. p \in Seq(V) /\ Len(p) = 1 /\ p[1] = s[k]
    <3>1. s[k] \in V
      OBVIOUS
    <3> HIDE DEF V
    <3> QED BY <3>1
  <2>5. /\ p \o q \in Seq(V) /\ Len(p \o q) = 1 + (n - (k + 1))
        /\ \A j \in 1 .. 1 + (n - (k + 1)) : (p \o q)[j] = IF j <= 1 THEN p[j] ELSE q[j - 1]
    <3> HIDE DEF V, p, q
    <3>1. /\ p \o q \in Seq(V) /\ Len(p \o q) = Len(p) + Len(q)
          /\ \A j \in 1 .. Len(p) + Len(q) : (p \o q)[j] = IF j <= Len(p) THEN p[j] ELSE q[j - Len(p)]
      BY <2>2, <2>4, ConcatProperties
    <3> QED BY <2>2, <2>4, <3>1
  <2>6. \A j \in 1 .. n - k : (p \o q)[j] = g[k][j]
    <3> SUFFICES ASSUME NEW j \in 1 .. n - k PROVE (p \o q)[j] = g[k][j]
      OBVIOUS
    <3>1. j \in 1 .. 1 + (n - (k + 1)) /\ g[k][j] = s[k + (j - 1)]
      BY <2>1
    <3>2. CASE j = 1
      <4>1. (p \o q)[j] = p[1] /\ k + (j - 1) = k
        <5> HIDE DEF p, q
        <5> QED BY <2>5, <3>1, <3>2
      <4> HIDE DEF p, q, g
      <4> QED BY <2>4, <3>1, <4>1
    <3>3. CASE j # 1
      <4>1. j - 1 \in 1 .. n - (k + 1) /\ ~(j <= 1) /\ (k + 1) + ((j - 1) - 1) = k + (j - 1)
        BY <3>3
      <4>2. q[j - 1] = s[(k + 1) + ((j - 1) - 1)]
        <5> HIDE DEF q
        <5> QED BY <2>1, <4>1
      <4> HIDE DEF p, q, g
      <4> QED BY <2>5, <3>1, <4>1, <4>2
    <3> QED BY <3>2, <3>3
  <2>7. Len(p \o q) = n - k
    <3> HIDE DEF p, q
    <3> QED BY <2>5
  <2> HIDE DEF p, q, g, V
  <2>8. g[k] = p \o q
    BY <2>3, <2>5, <2>6, <2>7, SeqEqual
  <2> QED BY <2>8 DEF p, q
<1>3. g[n] = <<>>
  OBVIOUS
<1>4. g = Step(g)
  <2> HIDE DEF g
  <2>1. \A k \in 1 .. n : k # n => k \in 1 .. n - 1
    OBVIOUS
  <2>2. \A k \in 1 .. n : Step(g)[k] = g[k]
    BY <1>2, <1>3, <2>1
  <2>3. g = [k \in 1 .. n |-> g[k]]
    BY DEF g
  <2> QED BY <2>2, <2>3
<1>5. ASSUME NEW f, f = Step(f) PROVE f[1] = g[1]
  <2> DEFINE U == {i \in 0 .. n - 1 : f[n - i] # g[n - i]}
  <2> SUFFICES ASSUME U # {} PROVE FALSE
    <3>1. 1 = n - (n - 1) /\ n - 1 \in 0 .. n - 1
      OBVIOUS
    <3> HIDE DEF g, Step
    <3> QED BY <3>1
  <2>0. U \in SUBSET Nat
    OBVIOUS
  <2>1. PICK i \in U : \A m \in U : i <= m
    <3> HIDE DEF U
    <3> QED BY <2>0, Least
  <2>2. \A k \in 1 .. n : f[k] = IF k = n THEN <<>> ELSE <<s[k]>> \o f[k + 1]
    BY <1>5, Zenon
  <2>3. i \in 0 .. n - 1 /\ n - i \in 1 .. n /\ f[n - i] # g[n - i]
    <3> HIDE DEF g
    <3>1. i \in 0 .. n - 1 /\ f[n - i] # g[n - i]
      BY <2>1, Zenon
    <3> QED BY <3>1
  <2>4. i # 0
    <3> SUFFICES ASSUME i = 0 PROVE FALSE
      OBVIOUS
    <3>1. n - i = n
      OBVIOUS
    <3> HIDE DEF g
    <3> QED BY <1>3, <2>2, <2>3, <3>1
  <2>5. i - 1 \in 0 .. n - 1 /\ ~(i <= i - 1) /\ n - (i - 1) = (n - i) + 1 /\ n - i \in 1 .. n - 1 /\ n - i # n
    BY <2>3, <2>4
  <2>6. i - 1 \notin U
    <3> HIDE DEF U
    <3> QED BY <2>1, <2>5
  <2>7. f[(n - i) + 1] = g[(n - i) + 1]
    BY <2>5, <2>6
  <2> HIDE DEF g
  <2> QED BY <1>2, <2>2, <2>3, <2>5, <2>7
<1>6. RemoveLastType(s) = (CHOOSE f : f = Step(f))[1]
  BY <1>1 DEF RemoveLastType
<1>7. RemoveLastType(s) = g[1]
  <2> HIDE DEF g, Step
  <2> QED BY <1>4, <1>5, <1>6
<1>8. g[1] = First(s, n - 1)
  <2>1. \A j \in 1 .. n - 1 : 1 + (j - 1) = j
    OBVIOUS
  <2>2. 1 \in 1 .. n
    OBVIOUS
  <2> QED BY <2>1, <2>2 DEF First
<1> QED BY <1>7, <1>8


\* funcRemoveData leaves all values but the last.
LEMMA DataRemoved ==
  ASSUME NEW s, NEW n \in Nat \ {0}, s = First(s, n)
  PROVE  RemoveData(s) = First(s, n - 1)
<1>1. Len(s) = n
  BY DEF First
<1> QED BY <1>1 DEF RemoveData, First

\* The first of the first.
LEMMA FirstOfFirst ==
  ASSUME NEW s, NEW n \in Nat, NEW m \in 0 .. n
  PROVE  First(First(s, n), m) = First(s, m)
<1>1. \A k \in 1 .. m : k \in 1 .. n
  OBVIOUS
<1> QED BY <1>1 DEF First

\* The base n up has the types without the last n.
LEMMA BaseIs ==
  ASSUME NEW s, Len(s) \in Nat, s = First(s, Len(s)), NEW n \in 0 .. Len(s)
  PROVE  Base(s, n) = First(s, Len(s) - n)
<1> DEFINE L == Len(s)
           Step(f) == [i \in 0 .. n |-> IF i = 0 THEN s ELSE RemoveLastType(f[i - 1])]
           g == [i \in 0 .. n |-> First(s, L - i)]
<1>1. \A i \in 1 .. n : RemoveLastType(First(s, L - (i - 1))) = First(s, L - i)
  <2> SUFFICES ASSUME NEW i \in 1 .. n PROVE RemoveLastType(First(s, L - (i - 1))) = First(s, L - i)
    OBVIOUS
  <2>1. L - (i - 1) \in Nat \ {0} /\ (L - (i - 1)) - 1 = L - i /\ L - i \in 0 .. L - (i - 1)
    OBVIOUS
  <2> DEFINE m == L - (i - 1)
  <2> HIDE DEF m
  <2>2. First(First(s, m), m) = First(s, m) /\ First(First(s, m), m - 1) = First(s, m - 1)
    BY <2>1, FirstOfFirst DEF m
  <2>3. RemoveLastType(First(s, m)) = First(First(s, m), m - 1)
    BY <2>1, <2>2, LastRemoved DEF m
  <2> QED BY <2>1, <2>2, <2>3 DEF m
<1>2. g = Step(g)
  <2>1. \A i \in 1 .. n : i - 1 \in 0 .. n /\ g[i - 1] = First(s, L - (i - 1))
    OBVIOUS
  <2>2. \A i \in 0 .. n : g[i] = Step(g)[i]
    <3> SUFFICES ASSUME NEW i \in 0 .. n PROVE g[i] = Step(g)[i]
      OBVIOUS
    <3>1. CASE i = 0
      BY <3>1
    <3>2. CASE i # 0
      <4>1. i \in 1 .. n
        BY <3>2
      <4>2. Step(g)[i] = RemoveLastType(g[i - 1])
        BY <3>2
      <4> QED BY <1>1, <2>1, <4>1, <4>2
    <3> QED BY <3>1, <3>2
  <2> QED BY <2>2
<1>3. ASSUME NEW f, f = Step(f) PROVE f[n] = g[n]
  <2> DEFINE U == {i \in 0 .. n : f[i] # g[i]}
  <2> SUFFICES ASSUME U # {} PROVE FALSE
    OBVIOUS
  <2>0. U \in SUBSET Nat
    OBVIOUS
  <2>1. PICK i \in U : \A m \in U : i <= m
    <3> HIDE DEF U
    <3> QED BY <2>0, Least
  <2>2. \A j \in 0 .. n : f[j] = IF j = 0 THEN s ELSE RemoveLastType(f[j - 1])
    BY <1>3, Zenon
  <2>3. i \in 0 .. n /\ f[i] # g[i]
    BY <2>1
  <2>4. i # 0
    BY <2>2, <2>3
  <2>5. i \in 1 .. n /\ i - 1 \in 0 .. n /\ ~(i <= i - 1)
    BY <2>3, <2>4
  <2>6. i - 1 \notin U
    <3> HIDE DEF U
    <3> QED BY <2>1, <2>5
  <2>7. f[i - 1] = First(s, L - (i - 1)) /\ g[i] = First(s, L - i)
    BY <2>5, <2>6
  <2> QED BY <1>1, <2>2, <2>3, <2>4, <2>5, <2>7
<1>4. Base(s, n) = (CHOOSE f : f = Step(f))[n]
  BY DEF Base
<1>5. Base(s, n) = g[n]
  <2> HIDE DEF g, Step
  <2> QED BY <1>2, <1>3, <1>4
<1> QED BY <1>5

\* And its data the values without the last n.
LEMMA BaseDataIs ==
  ASSUME NEW s, Len(s) \in Nat, s = First(s, Len(s)), NEW n \in 0 .. Len(s)
  PROVE  BaseData(s, n) = First(s, Len(s) - n)
<1> DEFINE L == Len(s)
           Step(f) == [i \in 0 .. n |-> IF i = 0 THEN s ELSE RemoveData(f[i - 1])]
           g == [i \in 0 .. n |-> First(s, L - i)]
<1>1. \A i \in 1 .. n : RemoveData(First(s, L - (i - 1))) = First(s, L - i)
  <2> SUFFICES ASSUME NEW i \in 1 .. n PROVE RemoveData(First(s, L - (i - 1))) = First(s, L - i)
    OBVIOUS
  <2>1. L - (i - 1) \in Nat \ {0} /\ (L - (i - 1)) - 1 = L - i /\ L - i \in 0 .. L - (i - 1)
    OBVIOUS
  <2> DEFINE m == L - (i - 1)
  <2> HIDE DEF m
  <2>2. First(First(s, m), m) = First(s, m) /\ First(First(s, m), m - 1) = First(s, m - 1)
    BY <2>1, FirstOfFirst DEF m
  <2>3. RemoveData(First(s, m)) = First(First(s, m), m - 1)
    BY <2>1, <2>2, DataRemoved DEF m
  <2> QED BY <2>1, <2>2, <2>3 DEF m
<1>2. g = Step(g)
  <2>1. \A i \in 1 .. n : i - 1 \in 0 .. n /\ g[i - 1] = First(s, L - (i - 1))
    OBVIOUS
  <2>2. \A i \in 0 .. n : g[i] = Step(g)[i]
    <3> SUFFICES ASSUME NEW i \in 0 .. n PROVE g[i] = Step(g)[i]
      OBVIOUS
    <3>1. CASE i = 0
      BY <3>1
    <3>2. CASE i # 0
      <4>1. i \in 1 .. n
        BY <3>2
      <4>2. Step(g)[i] = RemoveData(g[i - 1])
        BY <3>2
      <4> QED BY <1>1, <2>1, <4>1, <4>2
    <3> QED BY <3>1, <3>2
  <2> QED BY <2>2
<1>3. ASSUME NEW f, f = Step(f) PROVE f[n] = g[n]
  <2> DEFINE U == {i \in 0 .. n : f[i] # g[i]}
  <2> SUFFICES ASSUME U # {} PROVE FALSE
    OBVIOUS
  <2>0. U \in SUBSET Nat
    OBVIOUS
  <2>1. PICK i \in U : \A m \in U : i <= m
    <3> HIDE DEF U
    <3> QED BY <2>0, Least
  <2>2. \A j \in 0 .. n : f[j] = IF j = 0 THEN s ELSE RemoveData(f[j - 1])
    BY <1>3, Zenon
  <2>3. i \in 0 .. n /\ f[i] # g[i]
    BY <2>1
  <2>4. i # 0
    BY <2>2, <2>3
  <2>5. i \in 1 .. n /\ i - 1 \in 0 .. n /\ ~(i <= i - 1)
    BY <2>3, <2>4
  <2>6. i - 1 \notin U
    <3> HIDE DEF U
    <3> QED BY <2>1, <2>5
  <2>7. f[i - 1] = First(s, L - (i - 1)) /\ g[i] = First(s, L - i)
    BY <2>5, <2>6
  <2> QED BY <1>1, <2>2, <2>3, <2>4, <2>5, <2>7
<1>4. BaseData(s, n) = (CHOOSE f : f = Step(f))[n]
  BY DEF BaseData
<1>5. BaseData(s, n) = g[n]
  <2> HIDE DEF g, Step
  <2> QED BY <1>2, <1>3, <1>4
<1> QED BY <1>5

\* A sequence is its first elements.
LEMMA FirstAll ==
  ASSUME NEW T, NEW s \in Seq(T)
  PROVE  Len(s) \in Nat /\ s = First(s, Len(s))
BY DEF First

\* The cast to TeaCup<SlotArgs...> succeeds for the first types of the signal.
LEMMA CastsFirst ==
  ASSUME NEW T, NEW s \in Seq(T), NEW slot \in Seq(T)
  PROVE  /\ Casts(s, slot) <=> Len(slot) <= Len(s) /\ slot = First(s, Len(slot))
         /\ \A n \in 0 .. Len(s) : Base(s, n) = slot => n = Len(s) - Len(slot)
<1>a. Len(s) \in Nat /\ s = First(s, Len(s)) /\ Len(slot) \in Nat
  BY FirstAll
<1>1. \A n \in 0 .. Len(s) : Base(s, n) = First(s, Len(s) - n)
  BY <1>a, BaseIs
<1>2. \A n \in 0 .. Len(s) : Len(First(s, Len(s) - n)) = Len(s) - n
  <2>1. \A n \in 0 .. Len(s) : Len(s) - n \in Nat
    BY <1>a
  <2> QED BY <2>1 DEF First
<1>3. \A n \in 0 .. Len(s) : Base(s, n) = slot => n = Len(s) - Len(slot)
  <2> SUFFICES ASSUME NEW n \in 0 .. Len(s), Base(s, n) = slot PROVE n = Len(s) - Len(slot)
    OBVIOUS
  <2>1. Len(slot) = Len(s) - n
    BY <1>1, <1>2
  <2> QED BY <1>a, <2>1
<1>4. ASSUME Casts(s, slot) PROVE Len(slot) <= Len(s) /\ slot = First(s, Len(slot))
  <2>1. PICK n \in 0 .. Len(s) : Base(s, n) = slot
    BY <1>4 DEF Casts
  <2>2. n = Len(s) - Len(slot)
    BY <1>3, <2>1
  <2>3. Len(slot) = Len(s) - n /\ Len(slot) <= Len(s)
    BY <1>a, <2>2
  <2> QED BY <1>1, <2>1, <2>3
<1>5. ASSUME Len(slot) <= Len(s), slot = First(s, Len(slot)) PROVE Casts(s, slot)
  <2>1. Len(s) - Len(slot) \in 0 .. Len(s) /\ Len(s) - (Len(s) - Len(slot)) = Len(slot)
    BY <1>a, <1>5
  <2>2. Base(s, Len(s) - Len(slot)) = slot
    BY <1>1, <1>5, <2>1
  <2> QED BY <2>1, <2>2 DEF Casts
<1> QED BY <1>3, <1>4, <1>5

\* What invoke() takes of the arguments then are the first ones.
LEMMA ArgumentsFirst ==
  ASSUME NEW T, NEW s \in Seq(T), NEW slot \in Seq(T), Casts(s, slot), NEW V, NEW values \in Seq(V),
         Len(values) = Len(s)
  PROVE  Arguments(s, values, slot) = First(values, Len(slot))
<1>1. PICK n \in 0 .. Len(s) : Base(s, n) = slot
  BY DEF Casts
<1>2. (CHOOSE m \in 0 .. Len(s) : Base(s, m) = slot) = Len(s) - Len(slot) /\ n = Len(s) - Len(slot)
  BY <1>1, CastsFirst
<1>3. Len(s) \in Nat /\ Len(slot) \in Nat /\ Len(s) - Len(slot) \in 0 .. Len(s)
  BY <1>1, <1>2
<1>4. BaseData(values, Len(s) - Len(slot)) = First(values, Len(values) - (Len(s) - Len(slot)))
  BY <1>3, FirstAll, BaseDataIs
<1>5. Len(values) - (Len(s) - Len(slot)) = Len(slot)
  BY <1>3
<1> QED BY <1>2, <1>4, <1>5 DEF Arguments

-----------------------------------------------------------------------------
(* The arguments *)

\* All the values are those of emission n; or references to what its caller passed.
AllOf(cup, n) == \A k \in 1 .. Len(sig) : cup[k] = n

Shares(cup, n) == \A k \in 1 .. Len(sig) : cup[k] \in {Ref, n}

\* What is not a reference is kept by value in any case.
KeepsValues(cup, n) == \A k \in 1 .. Len(sig) : sig[k] \notin References => cup[k] = n

\* A PendingSlot has references only for a blocking connection; the emitter waits
\* for its call if the override does.
Blocking(c) == conns[c.at] = "blocking"

Awaits(c) == Blocking(c) /\ override = "waiting"

Lasting(p) ==
  /\ Shares(p.data, p.call.n) /\ KeepsValues(p.data, p.call.n)
  /\ ~Blocking(p.call) => AllOf(p.data, p.call.n)

Waits(c) == pc[c.from] = "blocked" /\ emits[c.from] = c.n /\ at[c.from] = c.at

\* The objects of the caller are those of the emission until activate() returns.
EmitterKept ==
  \A e \in Emitters :
    /\ pc[e] # "idle" => AllOf(given[e], emits[e]) /\ Shares(dataPack[e], emits[e])
    /\ pc[e] = "queueSlot" => /\ tempObj[e].call = [from |-> e, n |-> emits[e], at |-> at[e]]
                              /\ Lasting(tempObj[e])

QueueKept ==
  /\ \A k \in 1 .. Len(array) :
       Lasting(array[k]) /\ (Awaits(array[k].call) => Waits(array[k].call))
  /\ worker = "call" => Lasting(data) /\ (Awaits(data.call) => Waits(data.call))

\* What a thread has posted comes before the connection it is at.
PostedBefore ==
  \A k \in 1 .. Len(posted) : LET e == posted[k].from IN
    \/ posted[k].n < emits[e]
    \/ /\ posted[k].n = emits[e]
       /\ posted[k].at < at[e] \/ (pc[e] = "blocked" /\ posted[k].at = at[e])

PostedOnce == \A i, j \in 1 .. Len(posted) : posted[i] = posted[j] => i = j

KeptInv == OrderInv /\ EmitterKept /\ QueueKept /\ PostedBefore /\ PostedOnce

\* EmitterKept, for one of the emitters.
Kept(e) ==
  /\ pc[e] # "idle" => AllOf(given[e], emits[e]) /\ Shares(dataPack[e], emits[e])
  /\ pc[e] = "queueSlot" => /\ tempObj[e].call = [from |-> e, n |-> emits[e], at |-> at[e]]
                            /\ Lasting(tempObj[e])

\* The connections do not change.
LEMMA SameConnections == [Next]_vars => UNCHANGED <<sig, conns, override>>
BY DEF Next, Emit, Activating, Direct, Queue, QueueBlocking, MakePending, RunNow, Queueing, Post, PostAndWait,
   PutInQueue, Unblock, Finish,
   CallBack, Lock, Pop, MakeCall, Break, GoOn, Wait, WakeSpuriously, Stop, Ending, StopNotify, Join,
   vars, connectionVars

\* A step of one emitter is nothing to the others, nor is one of another thread.
LEMMA OthersKept ==
  ASSUME NEW f \in Emitters, Kept(f), UNCHANGED <<sig, conns>>,
         UNCHANGED <<pc[f], at[f], emits[f], given[f], dataPack[f], tempObj[f]>>
  PROVE  Kept(f)'
BY DEF Kept, AllOf, Shares, KeepsValues, Lasting, Blocking

\* A copied PendingSlot has the values, another may have references to them.
LEMMA CupKept ==
  ASSUME NEW b \in BOOLEAN, NEW n, NEW objects, AllOf(objects, n)
  PROVE  /\ Shares(TeaCup(b, objects), n) /\ KeepsValues(TeaCup(b, objects), n)
         /\ b => AllOf(TeaCup(b, objects), n)
BY DEF AllOf, Shares, KeepsValues, TeaCup

\* Where an emitter is in the loop it has the arguments of its emission.
LEMMA EmitterStep ==
  ASSUME TypeInv, EmitterKept, [Next]_vars
  PROVE  EmitterKept'
<1>a. /\ pc \in [Emitters -> {"idle", "loop", "queueSlot", "blocked"}]
      /\ at \in [Emitters -> 1 .. MaxConns + 1] /\ emits \in [Emitters -> 0 .. MaxEmits]
      /\ given \in [Emitters -> [1 .. Len(sig) -> Reused .. Moved]] /\ dataPack \in [Emitters -> Data]
      /\ tempObj \in [Emitters -> Pending \cup {NULL}]
  BY TypeGroups DEF TypeInv, EmittersTyped
<1>b. UNCHANGED <<sig, conns>>
  BY SameConnections
<1>c. (\A e \in Emitters : Kept(e)) /\ (EmitterKept' <=> \A e \in Emitters : Kept(e)')
  BY DEF EmitterKept, Kept
<1>1. ASSUME NEW e \in Emitters, Emit(e, FALSE) \/ Activating(e), NEW f \in Emitters, f # e
      PROVE  UNCHANGED <<pc[f], at[f], emits[f], given[f], dataPack[f], tempObj[f]>>
  BY <1>a, <1>1 DEF Emit, Activating, Direct, Queue, QueueBlocking, MakePending, RunNow, Queueing, Post,
     PostAndWait, PutInQueue, Unblock, Finish
<1>2. ASSUME NEW e \in Emitters, Emit(e, FALSE) PROVE Kept(e)'
  <2> DEFINE n == emits[e] + 1
             objects == [k \in 1 .. Len(sig) |-> n]
  <2>1. pc'[e] = "loop" /\ emits'[e] = n /\ given'[e] = objects /\ dataPack'[e] = TeaCup(FALSE, objects)
    BY <1>a, <1>2 DEF Emit
  <2>2. AllOf(objects, n)
    BY DEF AllOf
  <2>3. Shares(TeaCup(FALSE, objects), n)
    <3> HIDE DEF objects, n
    <3> QED BY <2>2, CupKept
  <2> HIDE DEF objects, n
  <2> QED BY <1>b, <2>1, <2>2, <2>3 DEF Kept, AllOf, Shares
<1>3. ASSUME NEW e \in Emitters, NEW b \in BOOLEAN, pc[e] = "loop", MakePending(e, b),
             b \/ conns[at[e]] = "blocking"
      PROVE  Kept(e)'
  <2>1. /\ pc'[e] = "queueSlot" /\ UNCHANGED <<at, emits, given, dataPack>>
        /\ tempObj'[e] = [call |-> [from |-> e, n |-> emits[e], at |-> at[e]], data |-> TeaCup(b, given[e])]
    BY <1>a, <1>3 DEF MakePending
  <2>2. AllOf(given[e], emits[e]) /\ Shares(dataPack[e], emits[e])
    BY <1>c, <1>3 DEF Kept
  <2>3. /\ Shares(TeaCup(b, given[e]), emits[e]) /\ KeepsValues(TeaCup(b, given[e]), emits[e])
        /\ (b => AllOf(TeaCup(b, given[e]), emits[e]))
    BY <2>2, CupKept
  <2>4. Lasting(tempObj'[e])
    BY <1>3, <2>1, <2>3 DEF Lasting, Blocking
  <2>5. Lasting(tempObj[e])'
    BY <1>b, <2>4 DEF Lasting, Blocking, AllOf, Shares, KeepsValues
  <2> QED BY <1>b, <2>1, <2>2, <2>5 DEF Kept, AllOf, Shares
<1>4. ASSUME NEW e \in Emitters, Queue(e) \/ QueueBlocking(e) PROVE Kept(e)'
  BY <1>3, <1>4 DEF Queue, QueueBlocking, AtKind
<1>5. ASSUME NEW e \in Emitters, Direct(e) \/ RunNow(e) \/ Queueing(e) \/ Unblock(e) PROVE Kept(e)'
  <2>1. pc[e] # "idle" /\ pc'[e] # "queueSlot" /\ UNCHANGED <<emits, given, dataPack>>
    BY <1>a, <1>5 DEF Direct, AtKind, RunNow, Queueing, Post, PostAndWait, PutInQueue, Unblock
  <2> QED BY <1>b, <1>c, <2>1 DEF Kept, AllOf, Shares
<1>6. ASSUME NEW e \in Emitters, Finish(e) PROVE Kept(e)'
  <2>1. pc'[e] = "idle"
    BY <1>a, <1>6 DEF Finish
  <2> QED BY <2>1 DEF Kept
<1>7. ASSUME NEW e \in Emitters, Emit(e, FALSE) \/ Activating(e), NEW f \in Emitters PROVE Kept(f)'
  <2>1. CASE f = e
    BY <1>2, <1>4, <1>5, <1>6, <1>7, <2>1 DEF Activating, Queueing
  <2>2. CASE f # e
    BY <1>1, <1>7, <1>b, <1>c, <2>2, OthersKept
  <2> QED BY <2>1, <2>2
<1>8. CASE CallBack \/ WakeSpuriously \/ Stop \/ Ending \/ UNCHANGED vars
  <2>1. UNCHANGED emitterVars
    BY <1>8 DEF CallBack, Lock, Pop, MakeCall, Break, GoOn, Wait, WakeSpuriously, Stop, Ending, StopNotify,
       Join, vars
  <2> QED BY <1>b, <1>c, <2>1, OthersKept DEF emitterVars
<1> QED BY <1>c, <1>7, <1>8 DEF Next

\* The calls that have been made are the first of those posted; then comes the
\* one in hand, and those in the queue.
LEMMA Places ==
  ASSUME OrderInv
  PROVE  /\ Len(ran) \in Nat /\ Len(posted) \in Nat
         /\ \A k \in 1 .. Len(ran) : k \in 1 .. Len(posted) /\ posted[k] = ran[k]
         /\ worker = "call" => \E j \in 1 .. Len(posted) : j > Len(ran) /\ posted[j] = data.call
         /\ \A k \in 1 .. Len(array) : \E j \in 1 .. Len(posted) : j > Len(ran) /\ posted[j] = array[k].call
<1>a. QueueTyped /\ DataShape /\ InOrder
  BY TypeGroups DEF OrderInv, TypeInv
<1>b. /\ ran \in Seq(Call) /\ InHand \in Seq(Call) /\ CallsIn(array) \in Seq(Call)
      /\ Len(CallsIn(array)) = Len(array) /\ \A k \in 1 .. Len(array) : CallsIn(array)[k] = array[k].call
  <2>1. worker = "call" => data.call \in Call
    BY <1>a, OneCall DEF DataShape
  <2> QED BY <1>a, <2>1, CallsTyped DEF QueueTyped, InHand
<1>c. posted = (ran \o InHand) \o CallsIn(array)
  BY <1>a DEF InOrder
<1> DEFINE q == ran \o InHand
<1>1. /\ q \in Seq(Call) /\ Len(q) = Len(ran) + Len(InHand)
      /\ \A k \in 1 .. Len(ran) + Len(InHand) : q[k] = IF k <= Len(ran) THEN ran[k] ELSE InHand[k - Len(ran)]
  BY <1>b, ConcatProperties
<1> HIDE DEF q
<1>2. /\ Len(posted) = Len(q) + Len(array)
      /\ \A k \in 1 .. Len(q) + Len(array) :
           posted[k] = IF k <= Len(q) THEN q[k] ELSE CallsIn(array)[k - Len(q)]
  <2>1. posted = q \o CallsIn(array)
    BY <1>c DEF q
  <2> DEFINE r == CallsIn(array)
  <2>2. r \in Seq(Call) /\ Len(r) = Len(array)
    BY <1>b
  <2> HIDE DEF r
  <2>3. /\ Len(q \o r) = Len(q) + Len(r)
        /\ \A k \in 1 .. Len(q) + Len(r) : (q \o r)[k] = IF k <= Len(q) THEN q[k] ELSE r[k - Len(q)]
    <3>1. q \in Seq(Call)
      BY <1>1
    <3> QED BY <2>2, <3>1, ConcatProperties
  <2> QED BY <2>1, <2>2, <2>3 DEF r
<1>3. Len(ran) \in Nat /\ Len(InHand) \in Nat /\ Len(array) \in Nat
  BY <1>b
<1>4. \A k \in 1 .. Len(ran) : k \in 1 .. Len(posted) /\ posted[k] = ran[k]
  BY <1>1, <1>2, <1>3
<1>5. ASSUME worker = "call" PROVE \E j \in 1 .. Len(posted) : j > Len(ran) /\ posted[j] = data.call
  <2>1. Len(InHand) = 1 /\ InHand[1] = data.call
    BY <1>5 DEF InHand
  <2>2. Len(ran) + 1 \in 1 .. Len(posted) /\ posted[Len(ran) + 1] = data.call
    BY <1>1, <1>2, <1>3, <2>1
  <2> QED BY <1>3, <2>2
<1>6. ASSUME NEW k \in 1 .. Len(array)
      PROVE  \E j \in 1 .. Len(posted) : j > Len(ran) /\ posted[j] = array[k].call
  <2>1. Len(q) + k \in 1 .. Len(posted) /\ posted[Len(q) + k] = array[k].call /\ Len(q) + k > Len(ran)
    <3>1. Len(q) + k \in 1 .. Len(q) + Len(array) /\ ~(Len(q) + k <= Len(q)) /\ (Len(q) + k) - Len(q) = k
      BY <1>1, <1>3
    <3>2. posted[Len(q) + k] = CallsIn(array)[k] /\ CallsIn(array)[k] = array[k].call
      BY <1>2, <1>b, <3>1
    <3>3. Len(q) + k > Len(ran) /\ Len(q) + k \in 1 .. Len(posted)
      BY <1>1, <1>2, <1>3, <3>1
    <3> QED BY <3>2, <3>3
  <2> QED BY <2>1
<1> QED BY <1>2, <1>1, <1>3, <1>4, <1>5, <1>6

\* A call in the queue or in hand has not been made.
LEMMA NotYetMade ==
  ASSUME OrderInv, PostedOnce, NEW k \in 1 .. Len(ran)
  PROVE  /\ \A i \in 1 .. Len(array) : array[i].call # ran[k]
         /\ worker = "call" => data.call # ran[k]
<1>1. k \in 1 .. Len(posted) /\ posted[k] = ran[k] /\ Len(ran) \in Nat /\ Len(posted) \in Nat
  BY Places
<1>2. ASSUME NEW c, \E j \in 1 .. Len(posted) : j > Len(ran) /\ posted[j] = c PROVE c # ran[k]
  <2>1. PICK j \in 1 .. Len(posted) : j > Len(ran) /\ posted[j] = c
    BY <1>2
  <2>2. j # k
    BY <1>1, <2>1
  <2> QED BY <1>1, <2>1, <2>2 DEF PostedOnce
<1> QED BY <1>2, Places

\* An emitter that waits goes on when its call has been made, not before.
LEMMA StillWaits ==
  ASSUME KeptInv, [Next]_vars, NEW c, c.from \in Emitters, c \in Call, Waits(c),
         \A k \in 1 .. Len(ran) : c # ran[k]
  PROVE  Waits(c)'
<1>a. /\ pc \in [Emitters -> {"idle", "loop", "queueSlot", "blocked"}]
      /\ at \in [Emitters -> 1 .. MaxConns + 1] /\ emits \in [Emitters -> 0 .. MaxEmits]
      /\ ran \in Seq(Call)
  BY TypeGroups DEF KeptInv, OrderInv, TypeInv, EmittersTyped, QueueTyped
<1>1. ASSUME NEW e \in Emitters, Emit(e, FALSE) \/ Activating(e), e # c.from
      PROVE  UNCHANGED <<pc[c.from], at[c.from], emits[c.from]>>
  BY <1>a, <1>1 DEF Emit, Activating, Direct, Queue, QueueBlocking, MakePending, RunNow, Queueing, Post,
     PostAndWait, PutInQueue, Unblock, Finish
<1>2. ASSUME NEW e \in Emitters, Emit(e, FALSE) \/ Activating(e), e = c.from PROVE FALSE
  <2>1. pc[e] = "blocked"
    BY <1>2 DEF Waits
  <2>2. Unblock(e)
    BY <1>2, <2>1 DEF Emit, Activating, Direct, AtKind, Queue, QueueBlocking, RunNow, Queueing, Post,
       PostAndWait, PutInQueue, Finish
  <2>3. c = [from |-> e, n |-> emits[e], at |-> at[e]]
    BY <1>2 DEF Waits, Call
  <2>4. \E k \in 1 .. Len(ran) : ran[k] = c
    BY <1>a, <2>2, <2>3 DEF Unblock
  <2> QED BY <2>4
<1>3. CASE CallBack \/ WakeSpuriously \/ Stop \/ Ending \/ UNCHANGED vars
  <2>1. UNCHANGED <<pc, at, emits>>
    BY <1>3 DEF CallBack, Lock, Pop, MakeCall, Break, GoOn, Wait, WakeSpuriously, Stop, Ending, StopNotify,
       Join, vars, emitterVars
  <2> QED BY <2>1 DEF Waits
<1> QED BY <1>1, <1>2, <1>3 DEF Next, Waits

\* What is kept of a queued call.
Queued(p) == Lasting(p) /\ (Awaits(p.call) => Waits(p.call))

\* The PendingSlots in the queue and in hand.
Slots == {array[k] : k \in 1 .. Len(array)} \cup {p \in {data} : worker = "call"}

LEMMA SlotsKept == QueueKept <=> \A p \in Slots : Queued(p)
<1>1. (\A k \in 1 .. Len(array) : Queued(array[k])) /\ (worker = "call" => Queued(data)) <=> QueueKept
  BY DEF QueueKept, Queued
<1>2. (\A p \in Slots : Queued(p)) <=> /\ \A k \in 1 .. Len(array) : Queued(array[k])
                                       /\ worker = "call" => Queued(data)
  BY DEF Slots
<1> QED BY <1>1, <1>2

LEMMA SlotsKeptNext == (QueueKept <=> \A p \in Slots : Queued(p))'
BY SlotsKept, PTL

\* A PendingSlot does not change where it waits.
LEMMA QueuedKept ==
  ASSUME KeptInv, [Next]_vars, NEW p \in Pending, Queued(p), \A k \in 1 .. Len(ran) : p.call # ran[k]
  PROVE  Queued(p)'
<1>1. UNCHANGED <<sig, conns, override>>
  BY SameConnections
<1>2. (Lasting(p) => Lasting(p)') /\ (Awaits(p.call)' <=> Awaits(p.call))
  BY <1>1 DEF Lasting, Shares, KeepsValues, AllOf, Awaits, Blocking
<1>3. p.call \in Call /\ p.call.from \in Emitters
  BY DEF Pending, Call
<1>4. Waits(p.call) => Waits(p.call)'
  BY <1>3, StillWaits
<1> QED BY <1>2, <1>4 DEF Queued

\* The PendingSlots in the queue, and the one in hand, keep their arguments.
LEMMA QueueKeptStep ==
  ASSUME KeptInv, [Next]_vars
  PROVE  QueueKept'
<1>a. /\ QueueTyped /\ ThreadTyped /\ DataShape /\ AtShape /\ EmittersTyped
      /\ OrderInv /\ PostedOnce /\ QueueKept /\ EmitterKept
  BY TypeGroups DEF KeptInv, OrderInv, TypeInv
<1>1. SUFFICES ASSUME NEW p \in Slots' PROVE Queued(p)'
  BY SlotsKeptNext
<1>2. ASSUME p \in Slots PROVE Queued(p)'
  <2>1. Queued(p)
    BY <1>a, <1>2, SlotsKept
  <2>2. p \in Pending
    BY <1>a, <1>2, ElementOfSeq DEF QueueTyped, DataShape, Slots
  <2>3. \A k \in 1 .. Len(ran) : p.call # ran[k]
    BY <1>a, <1>2, NotYetMade DEF Slots
  <2> QED BY <2>1, <2>2, <2>3, QueuedKept
<1>3. ASSUME NEW e \in Emitters, Queueing(e) PROVE Queued(p)'
  <2>1. /\ pc[e] = "queueSlot" /\ tempObj[e] \in Pending /\ Len(array) \in Nat
        /\ tempObj[e].call = [from |-> e, n |-> emits[e], at |-> at[e]] /\ Lasting(tempObj[e])
    BY <1>a, <1>3 DEF Queueing, Post, PostAndWait, PutInQueue, AtShape, EmitterKept, QueueTyped
  <2>2. p \in Slots \/ p = tempObj[e]
    <3>1. array' = Append(array, tempObj[e]) /\ data' = data /\ (worker' = "call" <=> worker = "call")
      BY <1>3 DEF Queueing, Post, PostAndWait, PutInQueue, Notify
    <3>2. \A k \in 1 .. Len(array') : (k \in 1 .. Len(array) /\ array'[k] = array[k]) \/ array'[k] = tempObj[e]
      BY <1>a, <2>1, <3>1 DEF QueueTyped
    <3> QED BY <3>1, <3>2 DEF Slots
  <2>3. CASE p = tempObj[e]
    <3>1. Awaited(e) => pc'[e] = "blocked" /\ at'[e] = at[e] /\ emits'[e] = emits[e]
      BY <1>a, <1>3 DEF Queueing, Post, PostAndWait, PutInQueue, EmittersTyped
    <3>2. UNCHANGED <<sig, conns, override>>
      BY SameConnections
    <3>3. Lasting(p)'
      BY <2>1, <2>3, <3>2 DEF Lasting, Shares, KeepsValues, AllOf, Blocking
    <3>4. Awaits(p.call)' => Waits(p.call)'
      BY <2>1, <2>3, <3>1, <3>2 DEF Awaits, Awaited, Blocking, Waits
    <3> QED BY <3>3, <3>4 DEF Queued
  <2> QED BY <1>2, <2>2, <2>3
<1>4. CASE Pop
  <2>1. array # <<>> /\ array' = Tail(array) /\ data' = Head(array)
    BY <1>4 DEF Pop
  <2>2. /\ Head(array) = array[1] /\ 1 \in 1 .. Len(array) /\ Len(Tail(array)) = Len(array) - 1
        /\ \A k \in 1 .. Len(array) - 1 : Tail(array)[k] = array[k + 1] /\ k + 1 \in 1 .. Len(array)
    BY <1>a, <2>1, HeadTailProperties, EmptySeq DEF QueueTyped
  <2>3. p \in Slots
    BY <2>1, <2>2 DEF Slots
  <2> QED BY <1>2, <2>3
<1>5. CASE UNCHANGED array /\ (worker' = "call" => worker = "call" /\ data' = data)
  BY <1>2, <1>5 DEF Slots
<1>6. CASE Lock \/ MakeCall \/ Break \/ GoOn \/ Wait \/ WakeSpuriously \/ Stop \/ Ending \/ UNCHANGED vars
  BY <1>5, <1>6 DEF Lock, MakeCall, Break, GoOn, Wait, WakeSpuriously, Stop, Ending, StopNotify, Join, Notify,
     vars, threadVars
<1>7. ASSUME NEW e \in Emitters, Emit(e, FALSE) \/ Activating(e), ~Queueing(e) PROVE UNCHANGED threadVars
  BY <1>7 DEF Emit, Activating, Direct, Queue, QueueBlocking, MakePending, RunNow, Queueing, Unblock, Finish
<1> QED BY <1>3, <1>4, <1>5, <1>6, <1>7 DEF Next, CallBack, threadVars

\* What is posted, and no more, comes before where its thread is.
Before(c) ==
  \/ c.n < emits[c.from]
  \/ /\ c.n = emits[c.from]
     /\ c.at < at[c.from] \/ (pc[c.from] = "blocked" /\ c.at = at[c.from])

\* A thread goes on, never back.
LEMMA BeforeKept ==
  ASSUME TypeInv, [Next]_vars, NEW c \in Call, Before(c)
  PROVE  Before(c)'
<1>a. /\ pc \in [Emitters -> {"idle", "loop", "queueSlot", "blocked"}]
      /\ at \in [Emitters -> 1 .. MaxConns + 1] /\ emits \in [Emitters -> 0 .. MaxEmits]
  BY TypeGroups DEF TypeInv, EmittersTyped
<1>b. c.from \in Emitters /\ c.n \in Int /\ c.at \in Int /\ MaxConns \in Nat /\ MaxEmits \in Nat
  BY Constants DEF Call
<1>1. CASE UNCHANGED <<pc[c.from], at[c.from], emits[c.from]>>
  BY <1>1 DEF Before
<1>2. ASSUME NEW e \in Emitters, Emit(e, FALSE) \/ Activating(e), e # c.from
      PROVE  UNCHANGED <<pc[c.from], at[c.from], emits[c.from]>>
  BY <1>a, <1>b, <1>2 DEF Emit, Activating, Direct, Queue, QueueBlocking, MakePending, RunNow, Queueing, Post,
     PostAndWait, PutInQueue, Unblock,
     Finish
<1>3. CASE Emit(c.from, FALSE)
  <2>1. emits'[c.from] = emits[c.from] + 1
    BY <1>a, <1>b, <1>3 DEF Emit
  <2> QED BY <1>a, <1>b, <2>1 DEF Before
<1>4. CASE Activating(c.from)
  <2>1. emits'[c.from] = emits[c.from]
    BY <1>4 DEF Activating, Direct, Queue, QueueBlocking, MakePending, RunNow, Queueing, Post, PostAndWait,
       PutInQueue, Unblock, Finish
  <2>2. \/ at'[c.from] = at[c.from] /\ pc[c.from] # "blocked"
        \/ at'[c.from] = at[c.from] + 1
    BY <1>a, <1>b, <1>4 DEF Activating, Direct, Queue, QueueBlocking, AtKind, MakePending, RunNow, Queueing,
       Post, PostAndWait, PutInQueue, Unblock,
       Finish
  <2>3. at[c.from] \in Int /\ emits[c.from] \in Int
    BY <1>a, <1>b
  <2> QED BY <1>b, <2>1, <2>2, <2>3 DEF Before
<1>5. CASE CallBack \/ WakeSpuriously \/ Stop \/ Ending \/ UNCHANGED vars
  BY <1>1, <1>5 DEF CallBack, Lock, Pop, MakeCall, Break, GoOn, Wait, WakeSpuriously, Stop, Ending, StopNotify,
     Join, vars, emitterVars
<1> QED BY <1>1, <1>2, <1>3, <1>4, <1>5 DEF Next

\* No call is posted twice.
LEMMA PostedStep ==
  ASSUME KeptInv, [Next]_vars
  PROVE  PostedBefore' /\ PostedOnce'
<1>a. /\ TypeInv /\ QueueTyped /\ EmittersTyped /\ AtShape
      /\ PostedBefore /\ PostedOnce /\ EmitterKept
  BY TypeGroups DEF KeptInv, OrderInv, TypeInv
<1>b. Len(posted) \in Nat /\ \A k \in 1 .. Len(posted) : posted[k] \in Call
  BY <1>a, ElementOfSeq DEF QueueTyped
<1>c. \A k \in 1 .. Len(posted) : Before(posted[k])
  BY <1>a DEF PostedBefore, Before
<1>1. CASE posted' = posted
  <2>1. PostedOnce'
    BY <1>a, <1>1 DEF PostedOnce
  <2>2. ASSUME NEW k \in 1 .. Len(posted), NEW c, c = posted[k] PROVE Before(c)'
    BY <1>a, <1>b, <1>c, <2>2, BeforeKept
  <2>3. PostedBefore'
    BY <1>1, <2>2 DEF PostedBefore, Before
  <2> QED BY <2>1, <2>3
<1>2. ASSUME NEW e \in Emitters, Queueing(e) PROVE PostedBefore' /\ PostedOnce'
  <2>1. PICK c : c = tempObj[e].call
    OBVIOUS
  <2>2. /\ c = [from |-> e, n |-> emits[e], at |-> at[e]] /\ pc[e] = "queueSlot" /\ c \in Call
        /\ at[e] \in Int /\ emits[e] \in Int
    BY <1>a, <1>2, <2>1, Constants DEF Queueing, Post, PostAndWait, PutInQueue, EmitterKept, AtShape,
       EmittersTyped, Pending
  <2>3. /\ posted' = Append(posted, c) /\ Len(posted') = Len(posted) + 1
        /\ \A k \in 1 .. Len(posted') : posted'[k] = IF k <= Len(posted) THEN posted[k] ELSE c
    <3>1. posted' = Append(posted, c)
      BY <1>2, <2>1 DEF Queueing, Post, PostAndWait, PutInQueue
    <3> QED BY <1>a, <2>2, <3>1 DEF QueueTyped
  <2>4. ~Before(c)
    BY <2>2 DEF Before
  <2>5. \A k \in 1 .. Len(posted) : posted[k] # c
    BY <1>c, <2>4
  <2>6. PostedOnce'
    <3> SUFFICES ASSUME NEW i \in 1 .. Len(posted'), NEW j \in 1 .. Len(posted'), posted'[i] = posted'[j]
                 PROVE  i = j
      BY DEF PostedOnce
    <3>1. CASE i <= Len(posted) /\ j <= Len(posted)
      <4>1. i \in 1 .. Len(posted) /\ j \in 1 .. Len(posted) /\ posted[i] = posted[j]
        BY <1>b, <2>3, <3>1
      <4> QED BY <1>a, <4>1 DEF PostedOnce
    <3>2. CASE ~(i <= Len(posted)) /\ ~(j <= Len(posted))
      BY <1>b, <2>3, <3>2
    <3>3. CASE i <= Len(posted) /\ ~(j <= Len(posted))
      <4>1. i \in 1 .. Len(posted) /\ posted[i] = c
        BY <1>b, <2>3, <3>3
      <4> QED BY <2>5, <4>1
    <3>4. CASE ~(i <= Len(posted)) /\ j <= Len(posted)
      <4>1. j \in 1 .. Len(posted) /\ posted[j] = c
        BY <1>b, <2>3, <3>4
      <4> QED BY <2>5, <4>1
    <3> QED BY <3>1, <3>2, <3>3, <3>4
  <2>7. Before(c)'
    <3>1. emits'[e] = emits[e] /\ ((pc'[e] = "blocked" /\ at'[e] = at[e]) \/ at'[e] = at[e] + 1)
      BY <1>a, <1>2 DEF Queueing, Post, PostAndWait, PutInQueue, EmittersTyped
    <3> QED BY <2>2, <3>1 DEF Before
  <2>8. ASSUME NEW k \in 1 .. Len(posted), NEW d, d = posted[k] PROVE Before(d)'
    BY <1>a, <1>b, <1>c, <2>8, BeforeKept
  <2>9. ASSUME NEW k \in 1 .. Len(posted'), NEW d, d = posted'[k] PROVE Before(d)'
    <3>1. CASE k <= Len(posted)
      <4>1. k \in 1 .. Len(posted) /\ d = posted[k]
        BY <1>b, <2>3, <2>9, <3>1
      <4> QED BY <2>8, <4>1
    <3>2. CASE ~(k <= Len(posted))
      <4>1. d = c
        BY <2>3, <2>9, <3>2
      <4> QED BY <2>7, <4>1
    <3> QED BY <3>1, <3>2
  <2>10. PostedBefore'
    BY <2>9 DEF PostedBefore, Before
  <2> QED BY <2>6, <2>10
<1>3. ASSUME NEW e \in Emitters, Emit(e, FALSE) \/ Activating(e), ~Queueing(e) PROVE posted' = posted
  BY <1>3 DEF Emit, Activating, Direct, Queue, QueueBlocking, MakePending, RunNow, Queueing, Unblock, Finish,
     threadVars
<1>4. CASE CallBack \/ WakeSpuriously \/ Stop \/ Ending \/ UNCHANGED vars
  BY <1>1, <1>4 DEF CallBack, Lock, Pop, MakeCall, Break, GoOn, Wait, WakeSpuriously, Stop, Ending, StopNotify,
     Join, vars, threadVars
<1> QED BY <1>1, <1>2, <1>3, <1>4 DEF Next

\* KeptInv is inductive.
LEMMA KeptStep == KeptInv /\ [Next]_vars => KeptInv'
<1> SUFFICES ASSUME KeptInv, [Next]_vars PROVE KeptInv'
  OBVIOUS
<1>1. OrderInv' /\ EmitterKept'
  BY OrderStep, EmitterStep DEF KeptInv, OrderInv
<1> QED BY <1>1, QueueKeptStep, PostedStep DEF KeptInv

\* What a slot takes of a TeaCup that has the values of one emission for
\* parameters of these types.
LEMMA IntactOf ==
  ASSUME sig \in Seq(Types), NEW T, NEW V, NEW n, NEW cup \in Seq(V), Len(cup) = Len(sig),
         \A k \in 1 .. Len(sig) : sig[k] \in T => cup[k] = n
  PROVE  IntactFor(T, n, cup)
<1> SUFFICES ASSUME NEW slot \in SlotTypes, Accepts(sig, slot), NEW k \in 1 .. Len(slot), slot[k] \in T
             PROVE  Arguments(sig, cup, slot)[k] = n
  BY DEF IntactFor
<1>1. slot \in Seq(Types) /\ Len(sig) \in Nat
  BY DEF SlotTypes
<1>2. Len(slot) <= Len(sig) /\ slot = First(sig, Len(slot)) /\ Casts(sig, slot) /\ Len(slot) \in Nat
  BY <1>1, AcceptsFirst, CastsFirst
<1>3. Arguments(sig, cup, slot) = First(cup, Len(slot))
  BY <1>1, <1>2, ArgumentsFirst
<1>4. k \in 1 .. Len(sig)
  BY <1>1, <1>2
<1>5. First(sig, Len(slot))[k] = sig[k] /\ First(cup, Len(slot))[k] = cup[k]
  BY DEF First
<1>6. slot[k] = sig[k]
  BY <1>2, <1>5
<1> QED BY <1>3, <1>4, <1>5, <1>6

\* From the inductive invariant to the property.
LEMMA KeptImplies == KeptInv => ArgumentsKept
<1> SUFFICES ASSUME KeptInv PROVE ArgumentsKept
  OBVIOUS
<1>a. /\ ConnectionTyped /\ EmittersTyped /\ AtShape /\ DataShape /\ EmitterKept /\ QueueKept
      /\ sig \in Seq(Types) /\ MaxEmits \in Nat
  BY TypeGroups, TypeAssumption DEF KeptInv, OrderInv, TypeInv, ConnectionTyped
<1>1. ASSUME NEW e \in Emitters, NEW cup, NEW T, NEW n,
             \A k \in 1 .. Len(sig) : sig[k] \in T => Read(e, cup)[k] = n
      PROVE  IntactFor(T, n, Read(e, cup))
  <2>1. Len(sig) \in Nat /\ Read(e, cup) = [k \in 1 .. Len(sig) |-> Read(e, cup)[k]]
    BY <1>a DEF Read
  <2>2. Read(e, cup) \in Seq({Read(e, cup)[k] : k \in 1 .. Len(sig)}) /\ Len(Read(e, cup)) = Len(sig)
    BY <2>1
  <2> QED BY <1>1, <1>a, <2>2, IntactOf
<1>2. ASSUME NEW e \in Emitters, NEW cup, NEW n, AllOf(given[e], n), Shares(cup, n), NEW T
      PROVE  IntactFor(T, n, Read(e, cup))
  BY <1>1, <1>2 DEF Read, AllOf, Shares
<1>3. ASSUME NEW e \in Emitters, AtKind(e, {"auto", "direct"}) PROVE Intact(emits[e], Read(e, dataPack[e]))
  BY <1>a, <1>2, <1>3 DEF AtKind, EmitterKept, Intact
<1>4. ASSUME NEW e \in Emitters, pc[e] = "queueSlot" PROVE Intact(emits[e], Read(e, tempObj[e].data))
  <2>1. AllOf(given[e], emits[e]) /\ Shares(tempObj[e].data, tempObj[e].call.n)
    BY <1>a, <1>4 DEF EmitterKept, Lasting
  <2>2. tempObj[e].call.n = emits[e]
    <3>1. tempObj[e].call = [from |-> e, n |-> emits[e], at |-> at[e]]
      BY <1>a, <1>4, Zenon DEF EmitterKept
    <3> QED BY <3>1
  <2> QED BY <1>2, <2>1, <2>2 DEF Intact
<1>5. ASSUME worker = "call", NEW T, T = IF MayDangle(data.call) THEN Types \ References ELSE Types
      PROVE  IntactFor(T, data.call.n, Read(data.call.from, data.data))
  <2>1. data.call \in Call /\ data.call.from \in Emitters /\ data.call.n \in 1 .. MaxEmits /\ Lasting(data)
    BY <1>a, <1>5 DEF DataShape, Pending, Call, QueueKept
  <2>2. data.call.n # Ref
    BY <1>a, <2>1 DEF Ref
  <2>3. CASE Awaits(data.call)
    <3>1. AllOf(given[data.call.from], data.call.n)
      BY <1>a, <1>5, <2>1, <2>3 DEF QueueKept, Waits, EmitterKept
    <3> QED BY <1>2, <2>1, <3>1 DEF Lasting
  <2>4. CASE ~Blocking(data.call)
    <3>1. \A k \in 1 .. Len(sig) : Read(data.call.from, data.data)[k] = data.call.n
      BY <2>1, <2>2, <2>4 DEF Lasting, AllOf, Read
    <3> QED BY <1>1, <2>1, <3>1
  <2>5. CASE Blocking(data.call) /\ ~Awaits(data.call)
    <3>1. T = Types \ References
      BY <1>5, <2>5 DEF MayDangle, Awaits, Blocking
    <3>2. \A k \in 1 .. Len(sig) : sig[k] \in T => Read(data.call.from, data.data)[k] = data.call.n
      BY <2>1, <2>2, <3>1 DEF Lasting, KeepsValues, Read
    <3> QED BY <1>1, <2>1, <3>2
  <2> QED BY <2>3, <2>4, <2>5
<1> QED BY <1>3, <1>4, <1>5 DEF ArgumentsKept

-----------------------------------------------------------------------------
(* The theorems *)

\* OrderInv holds in every reachable state.
LEMMA Ordered == Spec => []OrderInv
<1>1. Init => OrderInv
  <2>1. ASSUME Init PROVE InOrder
    <3>1. posted = <<>> /\ ran = <<>> /\ InHand = <<>> /\ CallsIn(array) = <<>>
      BY <2>1 DEF Init, InHand, CallsIn
    <3> QED BY <3>1 DEF InOrder
  <2> QED BY <2>1, TypeInit DEF OrderInv
<1> QED BY <1>1, OrderStep, PTL DEF Spec

\* Every variable of QueuedDelivery stays in its domain: no call is made without
\* a PendingSlot, and no connection past the last is come to.
THEOREM TypeCorrect == Spec => []TypeOK
<1>1. OrderInv => TypeOK
  BY DEF OrderInv, TypeInv
<1> QED BY <1>1, Ordered, PTL

\* The calls are made in the order in which they were queued, each once, for any
\* number of emitters, connections and emissions.
THEOREM CallsInOrder == Spec => []InOrder
<1>1. OrderInv => InOrder
  BY DEF OrderInv
<1> QED BY <1>1, Ordered, PTL

\* When the thread of the receiver has been joined, every queued call was made.
THEOREM NothingLeftBehind == Spec => []AllMadeWhenJoined
<1>1. Init => EndInv
  BY DEF Init, EndInv
<1>2. OrderInv => TypeOK
  BY DEF OrderInv, TypeInv
<1> QED BY <1>1, <1>2, EndStep, EndImplies, Ordered, PTL DEF Spec

\* Every slot gets the first arguments as they were when the signal was emitted,
\* through a direct connection, a call that is made at once and one that waits in
\* the queue; through a blocking connection whose override does not wait, those
\* that are no references: for any lists of types, emitters and connections.
THEOREM ArgumentsIntact == Spec => []ArgumentsKept
<1>1. Init => KeptInv
  <2> SUFFICES ASSUME Init PROVE KeptInv
    OBVIOUS
  <2>1. InOrder /\ TypeInv
    <3>1. posted = <<>> /\ ran = <<>> /\ InHand = <<>> /\ CallsIn(array) = <<>>
      BY DEF Init, InHand, CallsIn
    <3> QED BY <3>1, TypeInit DEF InOrder
  <2>2. EmitterKept /\ QueueKept
    BY DEF Init, EmitterKept, QueueKept
  <2>3. PostedBefore /\ PostedOnce
    BY DEF Init, PostedBefore, PostedOnce
  <2> QED BY <2>1, <2>2, <2>3 DEF KeptInv, OrderInv
<1> QED BY <1>1, KeptStep, KeptImplies, PTL DEF Spec

\* connect() accepts a slot exactly if the cast in invoke() finds a TeaCup for it,
\* whatever the types of the signal and of the slot.
THEOREM AcceptedIsCalled == Spec => []ConnectedIsCalled
<1>1. TypeOK => ConnectedIsCalled
  <2> SUFFICES ASSUME TypeOK, NEW slot \in SlotTypes PROVE Accepts(sig, slot) <=> Casts(sig, slot)
    BY DEF ConnectedIsCalled
  <2>1. sig \in Seq(Types) /\ Len(sig) \in Nat
    BY TypeAssumption DEF TypeOK
  <2>2. slot \in Seq(Types)
    BY <2>1 DEF SlotTypes
  <2> QED BY <2>1, <2>2, AcceptsFirst, CastsFirst
<1> QED BY <1>1, TypeCorrect, PTL

=============================================================================
