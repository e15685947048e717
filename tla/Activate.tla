------------------------------- MODULE Activate -------------------------------
(***************************************************************************)
(* CsSignal::activate() (cs_signal.h) and what a slot may do to the loop   *)
(* that called it: emit again, connect, disconnect, destroy its receiver,  *)
(* another receiver or the sender, throw.  A thread is a stack of          *)
(* activations; user code runs at the bottom of an empty stack or in the   *)
(* slot called by the activation on top.                                   *)
(*                                                                         *)
(* m_connectList is a SharedList: an erased connection keeps leading where *)
(* it led when it was erased.  It is forgotten here when no activation of  *)
(* its sender is left, which RcuList does no earlier.  Senders are         *)
(* addresses: a new object may be built where an old one was destroyed,    *)
(* and gen tells the two apart for the properties only.                    *)
(***************************************************************************)
EXTENDS Integers, SequencesExt

CONSTANTS
  Threads, Senders, Receivers, Signals,
  Conns,      \* addresses of the nodes of all m_connectLists
  MaxDepth,   \* bound: nested activations of a thread
  MaxGen,     \* bound: objects built at one address
  NULL

ASSUME ObjectAssumption ==
  /\ NULL \notin Threads \cup Senders \cup Receivers \cup Signals \cup Conns
  /\ Senders \cap Receivers = {}
  /\ IsFiniteSet(Threads) /\ IsFiniteSet(Conns)

ASSUME BoundAssumption == MaxDepth \in Nat /\ MaxGen \in Nat

VARIABLES
  alive,            \* senders and receivers that exist
  gen,              \* how many senders have been destroyed at an address
  list,             \* the m_connectList of each sender
  conn,             \* sender, signal and receiver of each connection
  erased, trail,    \* erased connections, and where they lead
  busy,             \* SignalBase::m_activateBusy
  beingDestroyed,   \* SignalBase::get_beingDestroyed()
  mutex,            \* the thread in get_mutex_beingDestroyed(), or NULL
  stack,            \* the activations of each thread, the newest last
  currentSender,    \* SlotBase::get_threadLocal_currentSender()
  currentSignal     \* get_threadLocal_currentSignal(): the depth of the
                    \* activation whose signal_Bento it points to, 0 for nullptr

listVars == <<list, conn, erased, trail>>
vars == <<alive, gen, listVars, busy, beingDestroyed, mutex, stack, currentSender, currentSignal>>

(***************************************************************************)
(* loop     at the head of the loop                                        *)
(* store    m_activateBusy++: read, not yet written                        *)
(* slot     the slot runs                                                  *)
(* check    it has returned: before the lock of the mutex                  *)
(* catch    it has thrown: before the lock of the mutex                    *)
(* handler  in handleException, the mutex held                             *)
(* leave    before m_activateBusy--                                        *)
(* storing  m_activateBusy--: read, not yet written                        *)
(*                                                                         *)
(* due and may are history: the connections that were in the list at the   *)
(* beginning and ever since, and those that have been at some time, both   *)
(* without what has been called.                                           *)
(***************************************************************************)
Point == {"loop", "store", "slot", "check", "catch", "handler", "leave", "storing"}

Frame == [snd : Senders, gen : Nat, sig : Signals, at : Point, cur : Conns \cup {NULL},
          old : Nat, priorSender : Senders \cup {NULL}, priorSignal : 0 .. MaxDepth,
          due : SUBSET Conns, may : SUBSET Conns]

Blank == [snd |-> NULL, sig |-> NULL, rcv |-> NULL]

TypeOK ==
  /\ alive \subseteq Senders \cup Receivers
  /\ gen \in [Senders -> 0 .. MaxGen]
  /\ list \in [Senders -> Seq(Conns)]
  /\ conn \in [Conns -> {Blank} \cup [snd : Senders, sig : Signals, rcv : Receivers]]
  /\ erased \subseteq Conns
  /\ trail \in [Conns -> Conns \cup {NULL}]
  /\ busy \in [Senders -> Nat]
  /\ beingDestroyed \subseteq Senders
  /\ mutex \in Threads \cup {NULL}
  /\ stack \in [Threads -> Seq(Frame)] /\ \A t \in Threads : Len(stack[t]) <= MaxDepth
  /\ currentSender \in [Threads -> Senders \cup {NULL}]
  /\ currentSignal \in [Threads -> 0 .. MaxDepth]

Init ==
  /\ alive = Senders \cup Receivers
  /\ gen = [s \in Senders |-> 0]
  /\ list = [s \in Senders |-> <<>>]
  /\ conn = [c \in Conns |-> Blank]
  /\ erased = {}
  /\ trail = [c \in Conns |-> NULL]
  /\ busy = [s \in Senders |-> 0]
  /\ beingDestroyed = {}
  /\ mutex = NULL
  /\ stack = [t \in Threads |-> <<>>]
  /\ currentSender = [t \in Threads |-> NULL]
  /\ currentSignal = [t \in Threads |-> 0]

-----------------------------------------------------------------------------
(* The list of connections *)

First(seq) == IF seq = <<>> THEN NULL ELSE seq[1]

\* The connection next to c, or NULL.
After(c, seq) ==
  LET next == {d \in Conns : \E k \in 2 .. Len(seq) : seq[k - 1] = c /\ seq[k] = d}
  IN IF next = {} THEN NULL ELSE CHOOSE d \in next : TRUE

Without(seq, E) ==
  LET rest[k \in 0 .. Len(seq)] ==
        IF k = 0 THEN <<>>
        ELSE IF seq[k] \in E THEN rest[k - 1] ELSE Append(rest[k - 1], seq[k])
  IN rest[Len(seq)]

\* Mutant: an erased connection leads nowhere.
FollowLinkedOnly(c) == IF c \in erased THEN NULL ELSE After(c, list[conn[c].snd])

\* operator++ from connection c.
Follow(c) == IF c \in erased THEN trail[c] ELSE After(c, list[conn[c].snd])

Activations == UNION {{stack[t][i] : i \in DOMAIN stack[t]} : t \in Threads}

\* Erases the connections in E one after the other, in the order of the list.
Erase(E) ==
  /\ list' = [s \in Senders |-> Without(list[s], E)]
  /\ LET kept == {c \in E : \E f \in Activations : f.snd = conn[c].snd} IN
       /\ erased' = erased \cup kept
       /\ trail' = [c \in Conns |-> IF c \in kept THEN Follow(c) ELSE trail[c]]
       /\ conn' = [c \in Conns |-> IF c \in E \ kept THEN Blank ELSE conn[c]]
  /\ stack' = [t \in Threads |-> [i \in DOMAIN stack[t] |->
                 [stack[t][i] EXCEPT !.due = @ \ E]]]

\* The connections in E that erase() has been called with no longer count.
Forget(E) ==
  /\ erased' = erased \ E
  /\ trail' = [c \in Conns |-> IF c \in E THEN NULL ELSE trail[c]]
  /\ conn' = [c \in Conns |-> IF c \in E THEN Blank ELSE conn[c]]

-----------------------------------------------------------------------------
(* activate() *)

Depth(t) == Len(stack[t])

Top(t) == stack[t][Depth(t)]

\* The thread runs an activation that is at point p.
At(t, p) == stack[t] # <<>> /\ Top(t).at = p

\* User code runs: outside every activation, in a slot, or in an override of
\* handleException().
UserCode(t) == stack[t] = <<>> \/ At(t, "slot") \/ At(t, "handler")

Goto(t, f) == stack' = [stack EXCEPT ![t] = [@ EXCEPT ![Depth(t)] = f]]

\* The sender of f is still the object that the activation began with.
Intact(f) == f.snd \in alive /\ gen[f.snd] = f.gen

\* The connections of a signal.
Of(s, sig) == {c \in Range(list[s]) : conn[c].sig = sig}

Emit(t, s, sig) ==
  /\ UserCode(t) /\ Depth(t) < MaxDepth
  /\ s \in alive
  /\ stack' = [stack EXCEPT ![t] = Append(@,
       [snd |-> s, gen |-> gen[s], sig |-> sig, at |-> "loop", cur |-> First(list[s]),
        old |-> 0, priorSender |-> currentSender[t], priorSignal |-> currentSignal[t],
        due |-> Of(s, sig), may |-> Of(s, sig)])]
  /\ currentSender' = [currentSender EXCEPT ![t] = s]
  /\ currentSignal' = [currentSignal EXCEPT ![t] = Depth(t) + 1]
  /\ UNCHANGED <<alive, gen, listVars, busy, beingDestroyed, mutex>>

\* activate() is left by a std::bad_alloc, which the first use of the read
\* handle may throw, with both thread-locals set.
EmitFails(t, s, sig) ==
  /\ UserCode(t) /\ Depth(t) < MaxDepth
  /\ s \in alive
  /\ currentSender' = [currentSender EXCEPT ![t] = s]
  /\ currentSignal' = [currentSignal EXCEPT ![t] = Depth(t) + 1]
  /\ UNCHANGED <<alive, gen, listVars, busy, beingDestroyed, mutex, stack>>

RestoreCurrent(t) ==
  /\ currentSender' = [currentSender EXCEPT ![t] = Top(t).priorSender]
  /\ currentSignal' = [currentSignal EXCEPT ![t] = Top(t).priorSignal]

\* activate() returns, or is left by an exception: its read handle is given back.
Pop(t) ==
  LET s == Top(t).snd
      rest == [stack EXCEPT ![t] = Front(@)]
      others == UNION {{rest[u][i].snd : i \in DOMAIN rest[u]} : u \in Threads}
  IN /\ stack' = rest
     /\ Forget({c \in erased : conn[c].snd = s /\ s \notin others})
     /\ UNCHANGED list

\* The connection is one of another signal.
Skip(t) ==
  /\ At(t, "loop") /\ Intact(Top(t))
  /\ LET f == Top(t) IN
       /\ f.cur # NULL
       /\ conn[f.cur].sig # f.sig
       /\ Goto(t, [f EXCEPT !.cur = Follow(f.cur)])
  /\ UNCHANGED <<alive, gen, listVars, busy, beingDestroyed, mutex, currentSender, currentSignal>>

\* compareThreads() of the receiver, and old_activateBusy.
Visit(t) ==
  /\ At(t, "loop") /\ Intact(Top(t))
  /\ LET f == Top(t) IN
       /\ f.cur # NULL
       /\ conn[f.cur].sig = f.sig
       /\ conn[f.cur].rcv \in alive
       /\ Goto(t, [f EXCEPT !.at = "store", !.old = busy[f.snd],
                             !.due = @ \ {f.cur}, !.may = @ \ {f.cur}])
  /\ UNCHANGED <<alive, gen, listVars, busy, beingDestroyed, mutex, currentSender, currentSignal>>

\* Mutant: m_activateBusy is not incremented.
DeliverUncounted(t) ==
  /\ At(t, "store") /\ Intact(Top(t))
  /\ \E p \in {"slot", "check"} : Goto(t, [Top(t) EXCEPT !.at = p])
  /\ UNCHANGED <<alive, gen, listVars, busy, beingDestroyed, mutex, currentSender, currentSignal>>

\* invoke(), or a queueSlot() that calls the slot at once; or a queueSlot() that
\* stores the call.  Which, depends on the type of the connection, on
\* compareThreads() and on the receiver.
Deliver(t) ==
  /\ At(t, "store") /\ Intact(Top(t))
  /\ busy' = [busy EXCEPT ![Top(t).snd] = Top(t).old + 1]
  /\ \E p \in {"slot", "check"} : Goto(t, [Top(t) EXCEPT !.at = p])
  /\ UNCHANGED <<alive, gen, listVars, beingDestroyed, mutex, currentSender, currentSignal>>

Return(t) ==
  /\ At(t, "slot")
  /\ Goto(t, [Top(t) EXCEPT !.at = "check"])
  /\ UNCHANGED <<alive, gen, listVars, busy, beingDestroyed, mutex, currentSender, currentSignal>>

Throw(t) ==
  /\ At(t, "slot")
  /\ Goto(t, [Top(t) EXCEPT !.at = "catch"])
  /\ RestoreCurrent(t)
  /\ UNCHANGED <<alive, gen, listVars, busy, beingDestroyed, mutex>>

\* Mutant: no activation takes the sender out of beingDestroyed.
AbandonOnly(t) ==
  /\ At(t, "check") \/ At(t, "catch")
  /\ mutex = NULL
  /\ Top(t).snd \in beingDestroyed
  /\ RestoreCurrent(t)
  /\ Pop(t)
  /\ UNCHANGED <<alive, gen, busy, beingDestroyed, mutex>>

\* The sender is in beingDestroyed: activate() returns, and the outermost
\* activation takes it out.
Abandon(t) ==
  /\ At(t, "check") \/ At(t, "catch")
  /\ mutex = NULL
  /\ Top(t).snd \in beingDestroyed
  /\ beingDestroyed' = IF Top(t).old = 0
                       THEN beingDestroyed \ {Top(t).snd}
                       ELSE beingDestroyed
  /\ RestoreCurrent(t)
  /\ Pop(t)
  /\ UNCHANGED <<alive, gen, busy, mutex>>

\* Mutant: m_activateBusy-- is left out when the slot has returned.
CheckAndContinue(t) ==
  /\ At(t, "check")
  /\ mutex = NULL
  /\ Top(t).snd \notin beingDestroyed
  /\ Goto(t, [Top(t) EXCEPT !.at = "loop", !.cur = Follow(Top(t).cur)])
  /\ UNCHANGED <<alive, gen, listVars, busy, beingDestroyed, mutex, currentSender, currentSignal>>

Check(t) ==
  /\ At(t, "check")
  /\ mutex = NULL
  /\ Top(t).snd \notin beingDestroyed
  /\ Goto(t, [Top(t) EXCEPT !.at = "leave"])
  /\ UNCHANGED <<alive, gen, listVars, busy, beingDestroyed, mutex, currentSender, currentSignal>>

\* Calls handleException() with the mutex held.
Handle(t) ==
  /\ At(t, "catch")
  /\ mutex = NULL
  /\ Top(t).snd \notin beingDestroyed
  /\ mutex' = t
  /\ Goto(t, [Top(t) EXCEPT !.at = "handler"])
  /\ UNCHANGED <<alive, gen, listVars, busy, beingDestroyed, currentSender, currentSignal>>

\* Mutant: the mutex is not released.
HandledLocked(t) ==
  /\ At(t, "handler")
  /\ currentSender' = [currentSender EXCEPT ![t] = Top(t).snd]
  /\ Goto(t, [Top(t) EXCEPT !.at = "leave"])
  /\ UNCHANGED <<alive, gen, listVars, busy, beingDestroyed, mutex, currentSignal>>

\* Mutant: the current sender is not set again after the exception.
HandledKeepingPrior(t) ==
  /\ At(t, "handler")
  /\ mutex' = NULL
  /\ Goto(t, [Top(t) EXCEPT !.at = "leave"])
  /\ UNCHANGED <<alive, gen, listVars, busy, beingDestroyed, currentSender, currentSignal>>

Handled(t) ==
  /\ At(t, "handler")
  /\ mutex' = NULL
  /\ currentSender' = [currentSender EXCEPT ![t] = Top(t).snd]
  /\ Goto(t, [Top(t) EXCEPT !.at = "leave"])
  /\ UNCHANGED <<alive, gen, listVars, busy, beingDestroyed, currentSignal>>

\* An override of handleException() throws: the exception leaves activate().
HandlerThrows(t) ==
  /\ At(t, "handler")
  /\ mutex' = NULL
  /\ Pop(t)
  /\ UNCHANGED <<alive, gen, busy, beingDestroyed, currentSender, currentSignal>>

\* m_activateBusy--: the load ...
Leave(t) ==
  /\ At(t, "leave") /\ Intact(Top(t))
  /\ Goto(t, [Top(t) EXCEPT !.at = "storing", !.old = busy[Top(t).snd]])
  /\ UNCHANGED <<alive, gen, listVars, busy, beingDestroyed, mutex, currentSender, currentSignal>>

\* ... and the store, and the next iteration.
Continue(t) ==
  /\ At(t, "storing") /\ Intact(Top(t))
  /\ busy' = [busy EXCEPT ![Top(t).snd] = Top(t).old - 1]
  /\ Goto(t, [Top(t) EXCEPT !.at = "loop", !.cur = Follow(Top(t).cur), !.old = 0])
  /\ UNCHANGED <<alive, gen, listVars, beingDestroyed, mutex, currentSender, currentSignal>>

Finish(t) ==
  /\ At(t, "loop") /\ Top(t).cur = NULL
  /\ RestoreCurrent(t)
  /\ Pop(t)
  /\ UNCHANGED <<alive, gen, busy, beingDestroyed, mutex>>

-----------------------------------------------------------------------------
(* What user code does besides emitting *)

Linked(s) == Range(list[s])

\* connect(): push_back to the m_connectList of s.
Connect(t, s, sig, r) ==
  /\ UserCode(t)
  /\ s \in alive /\ r \in alive
  /\ \E c \in Conns :
       /\ conn[c] = Blank
       /\ list' = [list EXCEPT ![s] = Append(@, c)]
       /\ conn' = [conn EXCEPT ![c] = [snd |-> s, sig |-> sig, rcv |-> r]]
       /\ stack' = [u \in Threads |-> [i \in DOMAIN stack[u] |->
            LET f == stack[u][i] IN
            IF f.snd = s /\ f.sig = sig THEN [f EXCEPT !.may = @ \cup {c}] ELSE f]]
  /\ UNCHANGED <<alive, gen, erased, trail, busy, beingDestroyed, mutex,
                 currentSender, currentSignal>>

\* disconnect() of a signal, a receiver, both or neither (NULL matches all).
Matching(s, sig, r) ==
  {c \in Linked(s) : sig \in {NULL, conn[c].sig} /\ r \in {NULL, conn[c].rcv}}

Disconnect(t, s, sig, r) ==
  /\ UserCode(t)
  /\ s \in alive
  /\ Matching(s, sig, r) # {}
  /\ Erase(Matching(s, sig, r))
  /\ UNCHANGED <<alive, gen, busy, beingDestroyed, mutex, currentSender, currentSignal>>

\* Mutant: ~SlotBase erases the first of its connections with each sender.
ReceivedFirst(r) ==
  {First(SelectSeq(list[s], LAMBDA c : conn[c].rcv = r)) : s \in Senders} \ {NULL}

Received(r) == {c \in UNION {Linked(s) : s \in Senders} : conn[c].rcv = r}

\* ~SlotBase.
DestroyReceiver(t, r) ==
  /\ UserCode(t)
  /\ r \in alive
  /\ alive' = alive \ {r}
  /\ Erase(Received(r))
  /\ UNCHANGED <<gen, busy, beingDestroyed, mutex, currentSender, currentSignal>>

\* Mutant: nested activations only.
InNestedActivation(s) == busy[s] > 1

\* activate() called a slot which then destroys this sender.
InActivation(s) == busy[s] > 0

\* ~SignalBase, and ~rcu_list of its m_connectList.
DestroySender(t, s) ==
  /\ UserCode(t)
  /\ s \in alive /\ gen[s] < MaxGen
  /\ InActivation(s) => mutex = NULL
  /\ beingDestroyed' = beingDestroyed \cup (IF InActivation(s) THEN {s} ELSE {})
  /\ alive' = alive \ {s}
  /\ gen' = [gen EXCEPT ![s] = @ + 1]
  /\ list' = [list EXCEPT ![s] = <<>>]
  /\ Forget({c \in Conns : conn[c].snd = s})
  /\ UNCHANGED <<busy, mutex, stack, currentSender, currentSignal>>

\* A sender is built at a free address.
Create(t, s) ==
  /\ UserCode(t)
  /\ s \notin alive
  /\ alive' = alive \cup {s}
  /\ busy' = [busy EXCEPT ![s] = 0]
  /\ UNCHANGED <<gen, listVars, beingDestroyed, mutex, stack, currentSender, currentSignal>>

-----------------------------------------------------------------------------
(* What Spec takes for granted *)

\* No other thread is in an activation of s.
Alone(t, s) ==
  \A u \in Threads \ {t} : \A i \in DOMAIN stack[u] : stack[u][i].snd # s

\* From no activation do erased links lead to a connection of r that it would
\* call: S is where they lead, until they come to a connection that is linked.
Orderly(r) ==
  LET gone == erased \cup Received(r) IN
  \A f \in Activations : f.cur \in gone =>
    \E S \in SUBSET gone :
      /\ f.cur \in S
      /\ \A c \in S : Follow(c) \in gone =>
           /\ Follow(c) \in S
           /\ conn[Follow(c)].sig = f.sig => conn[Follow(c)].rcv # r

\* Not a rule that a caller could keep: the allocator does not give the address
\* of a sender away as long as an activation of it runs.
Unused(s) == \A f \in Activations : f.snd # s

UserStep(t) ==
  \/ \E s \in Senders, sig \in Signals, r \in Receivers : Connect(t, s, sig, r)
  \/ \E s \in Senders, sig \in Signals \cup {NULL}, r \in Receivers \cup {NULL} :
       Disconnect(t, s, sig, r)
  \/ \E r \in Receivers :
       /\ Orderly(r)
       /\ \A c \in Conns : conn[c].rcv = r => Alone(t, conn[c].snd)
       /\ DestroyReceiver(t, r)
  \/ \E s \in Senders : Alone(t, s) /\ DestroySender(t, s)
  \/ \E s \in Senders : Unused(s) /\ Create(t, s)
  \/ \E s \in Senders, sig \in Signals :
       Alone(t, s) /\ ~At(t, "handler") /\ Emit(t, s, sig)

\* A slot or an override of handleException() comes to its end.
Returning(t) == Return(t) \/ Throw(t) \/ Handled(t)

Activating(t) == Skip(t) \/ Visit(t) \/ Deliver(t) \/ Abandon(t) \/ Check(t) \/ Handle(t)
                   \/ Leave(t) \/ Continue(t) \/ Finish(t)

Next == \E t \in Threads : UserStep(t) \/ Returning(t) \/ Activating(t)

Spec == Init /\ [][Next]_vars

\* A thread in activate() goes on, and the slots and handlers that it calls
\* return.
FairSpec == Spec /\ \A t \in Threads : WF_vars(Activating(t)) /\ WF_vars(Returning(t))

\* The slots also destroy receivers to which erased links lead.
DisorderlySpec == Init /\ [][Next \/ \E t \in Threads, r \in Receivers : DestroyReceiver(t, r)]_vars

\* The allocator also gives the address of a destroyed sender to a new one while
\* activations of the old one run.
ReuseSpec == Init /\ [][Next \/ \E t \in Threads, s \in Senders : Create(t, s)]_vars

\* Several threads activate the same sender.
SharedSpec ==
  Init /\ [][Next \/ \E t \in Threads, s \in Senders, sig \in Signals : Emit(t, s, sig)]_vars

\* There may be no memory for the read handle of activate().
NoMemorySpec ==
  Init /\ [][Next \/ \E t \in Threads, s \in Senders, sig \in Signals :
                      Alone(t, s) /\ ~At(t, "handler") /\ EmitFails(t, s, sig)]_vars

\* handleException() is overridden with one that throws.
ThrowingSpec == Init /\ [][Next \/ \E t \in Threads : HandlerThrows(t)]_vars

\* It also emits, with the mutex held.
ReentrantSpec ==
  Init /\ [][Next \/ \E t \in Threads, s \in Senders, sig \in Signals : Alone(t, s) /\ Emit(t, s, sig)]_vars

-----------------------------------------------------------------------------
(* Properties *)

\* activate() does not touch the list or the counter of a sender that a slot,
\* however deeply nested, has destroyed.
SenderNotTouched ==
  \A t \in Threads :
    stack[t] # <<>> /\ Top(t).at \in {"loop", "store", "leave", "storing"} => Intact(Top(t))

\* activate() calls compareThreads() and the slot of receivers that exist, also
\* when all connections that lie ahead have been disconnected.
ReceiverExists ==
  \A t \in Threads :
    At(t, "loop") /\ Top(t).cur # NULL /\ conn[Top(t).cur].sig = Top(t).sig =>
      conn[Top(t).cur].rcv \in alive

\* sender() in a slot is the sender that called it, also after the slot has
\* emitted and after an earlier slot has thrown or destroyed a sender; outside
\* it is nullptr; and the current signal never belongs to an activation that
\* has ended.  NoMemorySpec does not have it.
CurrentRestored ==
  \A t \in Threads :
    /\ IF stack[t] = <<>>
       THEN currentSender[t] = NULL
       ELSE Top(t).at \in {"loop", "store", "slot", "check", "leave", "storing"} =>
              currentSender[t] = Top(t).snd
    /\ currentSignal[t] <= Depth(t)

\* An address is in beingDestroyed only as long as there is the outermost
\* activation of the sender that was destroyed, which will take it out.
BeingDestroyedDrained ==
  \A s \in beingDestroyed : \E f \in Activations :
    f.snd = s /\ ~Intact(f) /\ f.old = 0 /\ f.at \in {"slot", "check", "catch"}

\* The activations of s that are at a slot.
Delivering(s) ==
  {p \in Threads \X (1 .. MaxDepth) :
     /\ p[2] \in DOMAIN stack[p[1]]
     /\ LET f == stack[p[1]][p[2]] IN f.snd = s /\ Intact(f) /\ f.at \notin {"loop", "store"}}

\* m_activateBusy counts the slots that the activations of a sender are in.
BusyCount == \A s \in Senders \cap alive : busy[s] = Cardinality(Delivering(s))

\* User code that may keep activate() going for ever: a slot that connects to
\* the signal being delivered is called in the same loop.
Prolonging(t) ==
  \E s \in Senders, sig \in Signals :
    Emit(t, s, sig) \/ \E r \in Receivers : Connect(t, s, sig, r)

\* Every activate() of every thread returns if from some time on nobody emits or
\* connects: neither the loop over a list that slots change, nor the mutex that
\* exceptions and destroyed senders take in all threads, keeps it for ever.
ActivationsEnd ==
  <>[][\A t \in Threads : ~Prolonging(t)]_vars => \A t \in Threads : []<>(stack[t] = <<>>)

=============================================================================
