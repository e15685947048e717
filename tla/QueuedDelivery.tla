---------------------------- MODULE QueuedDelivery ----------------------------
(***************************************************************************)
(* What activate() passes to direct, queued and blocking connections, and  *)
(* the queue of PendingSlots between the threads that emit and the thread  *)
(* of the receiver (cs_signal.h, cs_slot.cpp, cs_internal.h; the queue as  *)
(* in test/demo.cpp and test/cs_signal.cpp).  The connections are those of *)
(* one signal with one receiver, and the value of an argument is the       *)
(* number of the emission it was made for.                                 *)
(***************************************************************************)
EXTENDS SlotArgs, FiniteSets

CONSTANTS
  Emitters,    \* the threads that emit the signal
  Types,       \* of arguments
  References,  \* the reference types among them
  Signals,     \* lists of argument types the signal may have
  Overrides,   \* what the class of the receiver may have for queueSlot()
  MaxConns,    \* bound: connections of the signal
  MaxEmits,    \* bound: emissions of a thread
  NULL

\* "none": SlotBase::queueSlot().  "demo": the override of Demo_Receiver, which
\* puts the call in a queue and returns, whatever the ConnectionKind.
\* "waiting": one as an application may write it, which does the same but waits
\* for its call if the connection is a blocking one.  No code in src/ does.
ASSUME TypeAssumption ==
  /\ Overrides \subseteq {"none", "demo", "waiting"}
  /\ References \subseteq Types
  /\ Signals \subseteq Seq(Types)
  /\ MaxConns \in Nat /\ MaxEmits \in Nat
  /\ NULL \notin Emitters

VARIABLES
  sig, conns,    \* the argument types of the signal; the kinds of its connections
  override,      \* which queueSlot() the class of the receiver has
  pc, at,        \* where each emitter is in activate(), and at which connection
  emits,         \* how often it has emitted
  given,         \* the objects it has passed as arguments
  dataPack,      \* activate(): the arguments of direct connections
  tempObj,       \* activate(): the PendingSlot
  array,         \* the queue
  mutex,         \* whether callBack() holds the mutex of the queue
  running,       \* the flag that ends callBack()
  worker, data,  \* where the thread of the receiver is in callBack(), and data
  main,          \* where the test is after the last emission
  posted, ran    \* history: the calls put in the queue, and those made from it

connectionVars == <<sig, conns, override>>
emitterVars == <<pc, at, emits, given, dataPack, tempObj>>
threadVars == <<array, mutex, running, worker, data, main, posted, ran>>
vars == <<connectionVars, emitterVars, threadVars>>

Kinds == {"auto", "direct", "queued", "blocking"}

\* Besides the numbers of emissions, a value may be that of an object that was
\* moved from, or used again for something else; and an argument in a TeaCup
\* may be a reference to the object of the caller.
Reused == 0
Moved  == MaxEmits + 1
Ref    == MaxEmits + 2

Call == [from : Emitters, n : 1 .. MaxEmits, at : 1 .. MaxConns]

\* The objects in a TeaCup_Data, and PendingSlot.
Data == [1 .. Len(sig) -> Reused .. Ref]

Pending == [call : Call, data : Data]

TypeOK ==
  /\ sig \in Signals /\ override \in Overrides
  /\ conns \in Seq(Kinds) /\ Len(conns) <= MaxConns
  /\ pc \in [Emitters -> {"idle", "loop", "queueSlot", "blocked"}]
  /\ at \in [Emitters -> 1 .. MaxConns + 1]
  /\ emits \in [Emitters -> 0 .. MaxEmits]
  /\ given \in [Emitters -> [1 .. Len(sig) -> Reused .. Moved]]
  /\ dataPack \in [Emitters -> Data]
  /\ tempObj \in [Emitters -> Pending \cup {NULL}]
  /\ array \in Seq(Pending)
  /\ mutex \in BOOLEAN /\ running \in BOOLEAN
  /\ worker \in {"lock", "locked", "toWait", "waiting", "call", "ended"}
  /\ data \in Pending \cup {NULL}
  /\ main \in {"emitting", "notify", "join", "joined"}
  /\ posted \in Seq(Call) /\ ran \in Seq(Call)

Init ==
  /\ sig \in Signals
  /\ \E n \in 0 .. MaxConns : conns \in [1 .. n -> Kinds]
  /\ override \in Overrides
  /\ pc = [e \in Emitters |-> "idle"]
  /\ at = [e \in Emitters |-> 1]
  /\ emits = [e \in Emitters |-> 0]
  /\ given = [e \in Emitters |-> [k \in 1 .. Len(sig) |-> Reused]]
  /\ dataPack = given
  /\ tempObj = [e \in Emitters |-> NULL]
  /\ array = <<>> /\ mutex = FALSE /\ running = TRUE
  /\ worker = "lock" /\ data = NULL /\ main = "emitting"
  /\ posted = <<>> /\ ran = <<>>

-----------------------------------------------------------------------------
(* activate() *)

\* TeaCup_Data(needs_copying, ...) of the arguments in `objects`: what is not a
\* reference is kept by value in any case.
TeaCup(needs_copying, objects) ==
  [k \in 1 .. Len(sig) |-> IF sig[k] \in References /\ ~needs_copying
                           THEN Ref ELSE objects[k]]

\* getData() of a TeaCup that thread e made.
Read(e, cup) == [k \in 1 .. Len(sig) |-> IF cup[k] = Ref THEN given[e][k] ELSE cup[k]]

\* The call starts.  Forwarding rvalues to dataPack moves those that are not
\* taken by reference.
Emit(e, rvalues) ==
  LET n == emits[e] + 1
      objects == [k \in 1 .. Len(sig) |-> n]
  IN /\ main = "emitting"
     /\ pc[e] = "idle" /\ n <= MaxEmits
     /\ pc' = [pc EXCEPT ![e] = "loop"]
     /\ at' = [at EXCEPT ![e] = 1]
     /\ emits' = [emits EXCEPT ![e] = n]
     /\ given' = [given EXCEPT ![e] =
          [k \in 1 .. Len(sig) |-> IF rvalues /\ sig[k] \notin References THEN Moved ELSE n]]
     /\ dataPack' = [dataPack EXCEPT ![e] = TeaCup(FALSE, objects)]
     /\ UNCHANGED <<connectionVars, tempObj, threadVars>>

\* The loop is at a connection of one of these kinds.
AtKind(e, kinds) == pc[e] = "loop" /\ at[e] <= Len(conns) /\ conns[at[e]] \in kinds

\* invoke(), with dataPack, if the receiver belongs to this thread.
Direct(e) ==
  /\ AtKind(e, {"auto", "direct"})
  /\ at' = [at EXCEPT ![e] = @ + 1]
  /\ UNCHANGED <<connectionVars, pc, emits, given, dataPack, tempObj, threadVars>>

\* Mutant: the constructor of PendingSlot does not store its last parameter.
MakePendingWithout(e, needs_copying) ==
  /\ pc' = [pc EXCEPT ![e] = "queueSlot"]
  /\ tempObj' = [tempObj EXCEPT ![e] =
       [call |-> [from |-> e, n |-> emits[e], at |-> at[e]], data |-> NULL]]
  /\ UNCHANGED <<connectionVars, at, emits, given, dataPack, threadVars>>

MakePending(e, needs_copying) ==
  /\ pc' = [pc EXCEPT ![e] = "queueSlot"]
  /\ tempObj' = [tempObj EXCEPT ![e] =
       [call |-> [from |-> e, n |-> emits[e], at |-> at[e]],
        data |-> TeaCup(needs_copying, given[e])]]
  /\ UNCHANGED <<connectionVars, at, emits, given, dataPack, threadVars>>

\* Mutant: the data is not copied.
QueueReferences(e) == AtKind(e, {"auto", "queued"}) /\ MakePending(e, FALSE)

Queue(e) == AtKind(e, {"auto", "queued"}) /\ MakePending(e, TRUE)

QueueBlocking(e) == AtKind(e, {"blocking"}) /\ MakePending(e, FALSE)

\* SlotBase::queueSlot() makes the call.
RunNow(e) ==
  /\ pc[e] = "queueSlot" /\ override = "none"
  /\ pc' = [pc EXCEPT ![e] = "loop"]
  /\ at' = [at EXCEPT ![e] = @ + 1]
  /\ tempObj' = [tempObj EXCEPT ![e] = NULL]
  /\ UNCHANGED <<connectionVars, emits, given, dataPack, threadVars>>

\* notify_one().
Notify == worker' = IF worker = "waiting" THEN "lock" ELSE worker

\* The PendingSlot is moved into the queue.
PutInQueue(e) ==
  /\ array' = Append(array, tempObj[e])
  /\ posted' = Append(posted, tempObj[e].call)
  /\ Notify
  /\ tempObj' = [tempObj EXCEPT ![e] = NULL]
  /\ UNCHANGED <<connectionVars, emits, given, dataPack, mutex, running, data, main, ran>>

\* Whether queueSlot() is to return only after the call.
Awaited(e) == override = "waiting" /\ conns[at[e]] = "blocking"

\* Mutant: without the mutex.
PostUnlocked(e) ==
  /\ pc[e] = "queueSlot" /\ override # "none" /\ ~Awaited(e)
  /\ PutInQueue(e)
  /\ pc' = [pc EXCEPT ![e] = "loop"]
  /\ at' = [at EXCEPT ![e] = @ + 1]

\* Demo_Receiver::queueSlot() does not look at the kind, and returns.
Post(e) ==
  /\ pc[e] = "queueSlot" /\ override # "none" /\ ~Awaited(e)
  /\ ~mutex
  /\ PutInQueue(e)
  /\ pc' = [pc EXCEPT ![e] = "loop"]
  /\ at' = [at EXCEPT ![e] = @ + 1]

\* The variant that waits.
PostAndWait(e) ==
  /\ pc[e] = "queueSlot" /\ Awaited(e)
  /\ ~mutex
  /\ PutInQueue(e)
  /\ pc' = [pc EXCEPT ![e] = "blocked"]
  /\ UNCHANGED at

\* It returns when the call has been made.
Unblock(e) ==
  /\ pc[e] = "blocked"
  /\ \E k \in DOMAIN ran : ran[k] = [from |-> e, n |-> emits[e], at |-> at[e]]
  /\ pc' = [pc EXCEPT ![e] = "loop"]
  /\ at' = [at EXCEPT ![e] = @ + 1]
  /\ UNCHANGED <<connectionVars, emits, given, dataPack, tempObj, threadVars>>

\* activate() returns, and its caller goes on to use the objects it had passed.
Finish(e) ==
  /\ pc[e] = "loop" /\ at[e] > Len(conns)
  /\ pc' = [pc EXCEPT ![e] = "idle"]
  /\ given' = [given EXCEPT ![e] = [k \in 1 .. Len(sig) |-> Reused]]
  /\ dataPack' = [dataPack EXCEPT ![e] = [k \in 1 .. Len(sig) |-> Reused]]
  /\ UNCHANGED <<connectionVars, at, emits, tempObj, threadVars>>

-----------------------------------------------------------------------------
(* callBack(), the thread of the receiver *)

Lock ==
  /\ worker = "lock" /\ ~mutex
  /\ mutex' = TRUE
  /\ worker' = "locked"
  /\ UNCHANGED <<connectionVars, emitterVars, array, running, data, main, posted, ran>>

\* Mutant: takes the newest call.
PopNewest ==
  /\ worker = "locked" /\ array # <<>>
  /\ data' = array[Len(array)]
  /\ array' = SubSeq(array, 1, Len(array) - 1)
  /\ mutex' = FALSE
  /\ worker' = "call"
  /\ UNCHANGED <<connectionVars, emitterVars, running, main, posted, ran>>

Pop ==
  /\ worker = "locked" /\ array # <<>>
  /\ data' = Head(array)
  /\ array' = Tail(array)
  /\ mutex' = FALSE
  /\ worker' = "call"
  /\ UNCHANGED <<connectionVars, emitterVars, running, main, posted, ran>>

\* PendingSlot::operator().
MakeCall ==
  /\ worker = "call"
  /\ ran' = Append(ran, data.call)
  /\ data' = NULL
  /\ worker' = "lock"
  /\ UNCHANGED <<connectionVars, emitterVars, array, mutex, running, main, posted>>

\* Mutant: ends as soon as the flag is cleared.
BreakAtOnce ==
  /\ worker = "locked" /\ ~running
  /\ mutex' = FALSE
  /\ worker' = "ended"
  /\ UNCHANGED <<connectionVars, emitterVars, array, running, data, main, posted, ran>>

Break ==
  /\ worker = "locked" /\ array = <<>> /\ ~running
  /\ mutex' = FALSE
  /\ worker' = "ended"
  /\ UNCHANGED <<connectionVars, emitterVars, array, running, data, main, posted, ran>>

\* Still running: before alarm.wait().
GoOn ==
  /\ worker = "locked" /\ array = <<>> /\ running
  /\ worker' = "toWait"
  /\ UNCHANGED <<connectionVars, emitterVars, array, mutex, running, data, main, posted, ran>>

\* alarm.wait(): when notified it locks the mutex, which the end of the block
\* releases, before the next round locks it again.
Wait ==
  /\ worker = "toWait"
  /\ mutex' = FALSE
  /\ worker' = "waiting"
  /\ UNCHANGED <<connectionVars, emitterVars, array, running, data, main, posted, ran>>

WakeSpuriously ==
  /\ worker = "waiting"
  /\ worker' = "lock"
  /\ UNCHANGED <<connectionVars, emitterVars, array, mutex, running, data, main, posted, ran>>

-----------------------------------------------------------------------------
(* The end of the test *)

Stop ==
  /\ main = "emitting" /\ \A e \in Emitters : pc[e] = "idle"
  /\ running' = FALSE
  /\ main' = "notify"
  /\ UNCHANGED <<connectionVars, emitterVars, array, mutex, worker, data, posted, ran>>

\* Mutant: notifies without the mutex.
StopNotifyUnlocked ==
  /\ main = "notify"
  /\ Notify
  /\ main' = "join"
  /\ UNCHANGED <<connectionVars, emitterVars, array, mutex, running, data, posted, ran>>

StopNotify ==
  /\ main = "notify" /\ ~mutex
  /\ Notify
  /\ main' = "join"
  /\ UNCHANGED <<connectionVars, emitterVars, array, mutex, running, data, posted, ran>>

Join ==
  /\ main = "join" /\ worker = "ended"
  /\ main' = "joined"
  /\ UNCHANGED <<connectionVars, emitterVars, array, mutex, running, worker, data, posted, ran>>

Activating(e) ==
  Direct(e) \/ Queue(e) \/ QueueBlocking(e) \/ RunNow(e) \/ Post(e) \/ PostAndWait(e)
  \/ Unblock(e) \/ Finish(e)

CallBack == Lock \/ Pop \/ MakeCall \/ Break \/ GoOn \/ Wait

Ending == StopNotify \/ Join

Next == \/ \E e \in Emitters : Emit(e, FALSE) \/ Activating(e)
        \/ CallBack \/ WakeSpuriously \/ Stop \/ Ending

Spec == Init /\ [][Next]_vars

\* The threads go on: an emitter through its loop, the receiver's thread through
\* its own, the test from the moment it has cleared the flag.
FairSpec == /\ Spec
            /\ \A e \in Emitters : WF_vars(Activating(e))
            /\ WF_vars(CallBack)
            /\ WF_vars(Ending)

\* activate() is also called with rvalues.
RvalueSpec == Init /\ [][Next \/ \E e \in Emitters : Emit(e, TRUE)]_vars

-----------------------------------------------------------------------------
(* Properties *)

\* The lists of types that a slot may declare, one longer than any signal too.
SlotTypes == UNION {[1 .. n -> Types] : n \in 0 .. Len(sig) + 1}

\* connect() accepts a slot exactly if invoke() finds the TeaCup for it: it is
\* never dropped at run time, nor refused though it could be called.
ConnectedIsCalled == \A slot \in SlotTypes : Accepts(sig, slot) <=> Casts(sig, slot)

\* Whatever the slot, the arguments it takes that are of one of these types are
\* the first ones of emission n.
IntactFor(types, n, cup) ==
  \A slot \in SlotTypes : Accepts(sig, slot) =>
    \A k \in 1 .. Len(slot) : slot[k] \in types => Arguments(sig, cup, slot)[k] = n

Intact(n, cup) == IntactFor(Types, n, cup)

\* The data of a blocking connection are references; only an override that waits
\* keeps the emitter in activate() until the slot has read them.
MayDangle(c) == conns[c.at] = "blocking" /\ override # "waiting"

\* Every slot gets the first arguments as they were when the signal was emitted:
\* through a direct connection, a PendingSlot that is called at once, and one
\* that waits while its emitter goes on.  Where the override does not wait for a
\* blocking connection, that goes for the parameters that are no references.
ArgumentsKept ==
  /\ \A e \in Emitters :
       /\ AtKind(e, {"auto", "direct"}) => Intact(emits[e], Read(e, dataPack[e]))
       /\ pc[e] = "queueSlot" /\ override = "none" =>
            Intact(emits[e], Read(e, tempObj[e].data))
  /\ worker = "call" =>
       IntactFor(IF MayDangle(data.call) THEN Types \ References ELSE Types,
                 data.call.n, Read(data.call.from, data.data))

\* "a blocking queued connection" (README.md): the slot of a blocking connection
\* reads the arguments before activate() returns and its caller reuses them.
BlockingArgumentsKept ==
  worker = "call" /\ conns[data.call.at] = "blocking" =>
    Intact(data.call.n, Read(data.call.from, data.data))

\* The call that the thread of the receiver has taken out, and those in a queue.
InHand == IF worker = "call" THEN <<data.call>> ELSE <<>>

CallsIn(queue) == [k \in 1 .. Len(queue) |-> queue[k].call]

\* The calls are made in the order in which they were queued, each once.
InOrder == posted = (ran \o InHand) \o CallsIn(array)

\* "ensure slot has been called": when the thread has been joined, every call
\* of every emission has been made.
AllMadeWhenJoined == main = "joined" => array = <<>> /\ ran = posted

\* No notification is lost: a queued call is made.
EveryCallMade ==
  \A k \in 1 .. Cardinality(Emitters) * MaxEmits * MaxConns :
    Len(posted) >= k ~> Len(ran) >= k

\* The thread of the receiver ends when the test asks for it.
JoinReturns == main = "notify" ~> main = "joined"

=============================================================================
