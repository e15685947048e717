# Verification of CsSignal

CsSignal delivers signals to slots between objects that may live in different
threads. This directory holds TLA+ models of the library, TLC configurations
that check them on small instances, and TLAPS proofs for every instance.

## The system

| part | source | state | operations |
|---|---|---|---|
| `rcu_list` | `src/annex/cs_libguarded/cs_rcu_list.h` | `m_head`, `m_tail`, nodes (`next`, `back`, `deleted`), `m_zombie_head`, records (`next`, `owner`, `zombie_node`), `m_write_mutex` | insert (4 functions), `erase`, iterate, `rcu_guard` lock and unlock, destructor |
| `rcu_guarded` | `cs_rcu_guarded.h` | `m_accessed`, `m_guard` of each handle | `lock_read`, `lock_write`, first dereference, destructor |
| `SignalBase` | `src/signal/cs_signal.{h,cpp}` | `m_connectList` (one `ConnectStruct` per connection), `m_activateBusy`, the process-wide set `beingDestroyed` and its mutex, the thread-local current signal | `connect` (3 overloads), `disconnect`, `activate`, destructor, `internal_cntConnections`, `internal_receiverList` |
| `SlotBase` | `src/signal/cs_slot.{h,cpp}` | `m_possibleSenders` (one pointer per connection), the thread-local current sender | `compareThreads`, `queueSlot`, `sender`, `internal_senderList`, destructor |
| `PendingSlot` | `cs_slot.{h,cpp}` | sender, receiver, slot and arguments of one delayed call | `operator()` |
| `Bento`, `TeaCup` | `cs_internal.h` | a method or function pointer or a lambda; the arguments of one activation | compare, clone, invoke with the first arguments a slot takes |

A connection is stored twice: in the sender's `m_connectList` and, as a bare
back pointer, in the receiver's `m_possibleSenders`. Both are `rcu_list`s
reached through `rcu_guarded`: readers take no lock, a writer holds the
list's own mutex. `connect` and `disconnect` hold the sender's mutex while
they take the receiver's; a destructor iterates its own list as a reader and
takes the mutex of each list at the other side. `activate` iterates the
sender's list as a reader and calls slots from inside the loop; a slot may
connect, disconnect, emit again, destroy its receiver or the sender, or
throw. For a queued connection the receiver's `queueSlot`, which the
application overrides, stores a `PendingSlot` that another thread runs.

What is hard about it: the reclamation of erased nodes without a lock; the two
halves of a connection written under two mutexes; objects destroyed from
inside the loop that uses them; slots that throw; arguments that are shared,
moved or copied per connection.

What makes each part correct:

- `rcu_list`: no iterator and no walk touches freed memory; an erased node is
  freed once; the list reads the same in both directions; loops end.
- connections: the two halves agree whenever the sender's mutex is free; a
  destroyed object is in no list; no set of threads waits for itself.
- activation: a live receiver connected throughout is called; the sender is
  not touched after a slot destroyed it; the thread-local current sender is
  restored; `beingDestroyed` does not keep an address.
- queued delivery: every delayed call is made once, in the order it was
  queued, with the arguments of its emission.
- wrappers: a slot receives the first arguments of the signal.

## The modules

| module | what it is |
|---|---|
| `RcuList` | `rcu_list` and its handles with explicit memory |
| `RcuListInv`, `RcuListProofs` | its inductive invariant, and the theorems |
| `SharedList` | abstract specification: what `rcu_list` promises its users |
| `SharedListTraversal` | `SharedList` with loops, as in `internal_cntConnections` and the lists of receivers and senders |
| `SharedListProofs` | its inductive invariant, and the theorems |
| `RcuListRefinement`, `RcuListRefinementProofs` | the refinement mapping from `RcuList` to `SharedList`, and its proof |
| `Connections` | `connect`, `disconnect` and both destructors, several threads |
| `ConnectionsInv`, `ConnectionsProofs` | its inductive invariant, and the theorems |
| `ConnectionTable` | abstract specification: one table of connections |
| `ConnectionsTable`, `ConnectionsTableProofs` | the refinement of it by `Connections`, and its proof |
| `Activate` | `activate` and all that slots and handlers may do to it |
| `ActivateInv`, `ActivateProofs` | its inductive invariant, and the theorems |
| `Delivery` | abstract specification: whom an emission calls; extends `ConnectionTable` |
| `ActivateDelivery`, `ActivateDeliveryProofs` | the refinement of it by `Activate`, and its proof |
| `SlotArgs` | what the templates compute for argument lists |
| `QueuedDelivery` | what is passed to direct and delayed calls, and the receiver's queue |
| `QueuedDeliveryProofs` | its theorems |
| `MC*` | instances for TLC |

`RcuList` carries the memory safety of the list. `SharedList` states what is
left of it for a user: `Activate` and `Connections` use lists of that kind
instead of repeating the nodes. An operator whose comment begins with "Mutant"
is a plausible bug, used by no specification: a property fails when the operator
below it is replaced by it, which shows that the property can fail.

### RcuList

A process is a *handle* (`read_handle` or `write_handle`), not a thread: nested
handles of one thread are one of the interleavings. Addresses of nodes and
records are drawn from finite sets, allocated and freed, and handed out again,
so a stale pointer can meet a reused address. A step is one access that another
thread can observe: a load or store of `m_head` or `next`, an operation on
`m_zombie_head`, `owner` or the mutex; the loops of `unlock()` and of the
destructor take one step per record. What only the holder of `m_write_mutex`
touches changes together with the visible store of the same function. The
failing compare-exchange is a step of its own (`EnlistRetry`, `RetireRetry`).
`below`, the set of records under a record when it was pushed, is a history
variable: no guard reads it.

The reads and writes are sequentially consistent. In the code four loads and
stores are relaxed (`cs_rcu_list.h:271`, `274`, `661`, `679`) and all others have the
default order. The first two are the old head and the `next` of a record that
nobody else can see yet: the compare-exchange that follows publishes it, in the
default order, and fails if that head is no longer the top. The other two load
`m_tail`, which only the holder of `m_write_mutex` stores.

### SharedList, SharedListTraversal, RcuListRefinement

A list as a sequence; `Follow` says where `operator++` leads, also from an
element that has been erased; `watchers` is the grace period. The refinement
maps the chain of nodes from `m_head` to the sequence, and keeps an erased
element for the open handles below its record. It holds up to the destruction
of the list: what handles do that outlive it is a stutter.

`SharedListTraversal` adds loops: `passed` is what a loop has come to, `kept`
and `ever` are the elements that were linked all the time since its `begin` and
at some time. A loop that leaves out what does not match, as
`internal_cntConnections` and `internal_receiverList` do, moves as one that
does not. `Put`, `TakeOut` and `GoOn` are the insertions and the two parts of
`erase` by whoever holds the mutex, which may be a loop that goes on with what
`erase` returned.

### Connections

One step is what a thread does between two changes of the mutexes, or less
where a reader could see the difference. `conn` is the contents of all
`m_connectList`s, `senders` counts the entries of `m_possibleSenders` (the
order of either list makes no difference to these functions). The destructors
read their own list without a lock while the other threads may change it;
`visits` counts how many entries leading to each object a loop has passed, and
an entry is "next" as long as there are more of them than visits.

`Permitted` is the contract of the callers: an object is destroyed once, and not
while another thread is in a call that uses it. No comment in the source says
so, but nothing in the code could make up for it: the destructor of either side
locks a mutex inside the other object. A sender and a receiver that are not
connected may be destroyed at the same time.

`SameConnection` is what `uniqueConnection` means to each overload of `connect`: that
for non-const methods compares the slots, that for everything else (lambdas,
functions, const methods: whatever is in `Slots` and not in `Methods`) leaves the slot
out, and that for `Bento`s compares them, though no two lambdas are ever equal.
`BentoSpec` adds calls of the last with lambdas, and `ShortSpec` adds
`std::bad_alloc` between the two halves of a connection.

To a user of the library all this is one table (`ConnectionTable`): `connect`
adds a row, `disconnect` removes rows of one sender, the end of a destructor
removes the rows of an object together with the object. `ConnectionsTable` maps
`Connections` to it: the table is what the senders' lists hold, a row appears
with the first `push_back` and not with the second, and a destructor that takes
many steps changes rows of others only as `disconnect` would.

### Activate

A thread is a stack of activations; user code runs below an empty stack, in the
slot of the top one, or in an override of `handleException`, which runs with the
mutex of `beingDestroyed` held. `activate` is split where another thread can
come in between: the loop, the load and the store of `m_activateBusy++`, the
slot, the check under the mutex, the handler, the load and the store of
`m_activateBusy--`. User code may do whatever `UserStep` lists. Erased
connections lead on as in `SharedList`; they are forgotten when no activation of
their sender is left. Senders are addresses; `gen` distinguishes the objects
built at one address, and `due` and `may` are what an activation still has to
call and what it may call: the properties read these three, no guard does.

What slots and other threads disconnect, connect and emit, and where activations
stand meanwhile, is not restricted: a slot may disconnect everything, or itself
and the next connection, and another thread may do so at any time. What `Spec`
takes for granted is about objects that come and go:

- a sender is activated and destroyed by one thread at a time, and so is a
  receiver destroyed that is connected to it (`Alone`);
- a receiver is destroyed only if no activation stands on an erased connection
  from which erased links lead to one of that receiver that it would call,
  counting those that the destructor itself erases (`Orderly`);
- no sender is built at the address of one that activations still use (`Unused`):
  that is no rule for callers, who do not choose addresses, but luck with the
  allocator;
- a handler does not emit: the mutex that it holds is not recursive. Nor does it
  destroy a sender that is being activated.

Each has a specification without it: `SharedSpec`, `DisorderlySpec` and `ReuseSpec`,
of which the violation runs show what happens, and `ReentrantSpec`. `ThrowingSpec`
adds handlers that throw, `NoMemorySpec` a `std::bad_alloc` when `activate` first
dereferences its read handle (`EmitFails`): the thread-local sender and signal,
already set, are then not put back.

`Delivery` is what an emission promises: it calls every connection that was
there when it began and stayed, none twice, none that was never there while it
ran, and nothing of an object that is gone. It says nothing of lists, cursors,
erased nodes or counters, and a call happens in one step. `ActivateDelivery`
maps `Activate` to it: a connection counts as called when `activate` begins to
deliver to it (`Visit`).

### SlotArgs and QueuedDelivery

`SlotArgs` has the compile-time recursions as functions: which slots `connect`
accepts, the bases of `TeaCup<Ts...>`, the data each base returns. A type is opaque;
that leaves out a parameter that is itself a `std::tuple`, which a specialization
of `TeaCup` (`cs_internal.h:341-354`) takes for a list of types. In
`QueuedDelivery` the value of an argument is the number of its emission, so a
wrong value is one of another emission, of an object moved from (`Moved`) or of
one its owner has gone on to use (`Reused`); a `TeaCup` keeps a value or, for a
reference parameter that is not copied, `Ref`. What the receiver has for `queueSlot`
is one of three (`Overrides`):

- `"none"`: that of `SlotBase`, which makes the call;
- `"demo"`: that of `Demo_Receiver` in `test/demo.cpp`, the one override in the
  repository, which stores the call for a thread that runs `callBack`, as in
  `test/cs_signal.cpp`, and returns at once, whatever the kind of connection (`Post`);
- `"waiting"`: a variant of it that returns from a call for a blocking connection
  only when that call has been made (`PostAndWait`, `Unblock`). Nothing in the
  repository does so, though `activate`, which does not copy the arguments
  of such a connection, relies on it; these actions are external.

The mutex of the queue and its condition variable, with spurious wakeups, are
modelled. `ArgumentsKept` holds for all three, except that it asks nothing of the
reference parameters of a blocking connection whose override does not wait; for
these `queued_blocking` shows what the slot reads. `RvalueSpec` adds emissions whose
arguments are rvalues.

## The runs

| run | instance | shows |
|---|---|---|
| `rcu_reclaim` | 3 handles, 3 nodes, 4 records, symmetry | memory safety of the list: `IteratorsValid`, `WalkersValid`, `RetiredOnce`, `ListShape`, what a destructor may leak; and that `RcuList` implements `SharedList` |
| `rcu_termination` | 2 handles, 2 nodes, 3 records, `FairSpec` | the loops of `unlock()` and of the destructor end; and the invariant of the proofs |
| `shared_list` | 2 handles, 4 nodes | a loop stands on elements that exist, misses nothing that stays, comes to nothing twice and to nothing that was erased before it began |
| `activate_nested` | 1 thread, 1 sender, 2 receivers, 2 signals, 3 connections, depth 2 | everything a slot can do, nested; `Activate` implements `Delivery` |
| `activate_threads` | 2 threads, 2 senders, 1 receiver, 2 connections, depth 1, `FairSpec` | two threads that disconnect and connect in lists the other goes through, and share `beingDestroyed` and its mutex; the promise of `Delivery`; every `activate` returns |
| `activate_disorderly` | violation, `DisorderlySpec` | a receiver with two connections, destroyed by its first slot, is called again |
| `activate_shared` | violation, `SharedSpec` | two threads emit from one sender: a lost update of `m_activateBusy` |
| `activate_reuse` | violation, `ReuseSpec` | a slot destroys its sender and emits from a new one at the same address: the outer `activate` goes on with the destroyed one |
| `connections` | 2 threads, 2 senders, 2 receivers, a method and a lambda, always with `uniqueConnection`, 3 connections | the halves agree, nothing dangles, no deadlock, nothing is added twice; `Connections` implements `ConnectionTable` |
| `connections_short` | violation, `ShortSpec` | when the second half cannot be allocated, the receiver's destructor leaves the connection behind |
| `queued_delivery` | 2 emitters, up to 2 connections of any kinds, each of the three `queueSlot`s, `FairSpec` | arguments, order, and that every call is made |
| `queued_blocking` | violation, `Overrides = {"demo"}` | with the override of `test/demo.cpp` the slot of a blocking connection gets references to what the caller has already put to other use |

Deadlock is not checked: the system may stop, its callers need not call anything.

Why these bounds. In the list a hazard needs at most a reader, a writer and a
third handle whose record lies between theirs; three nodes are a first, a middle
and a last element, four records are one for each handle and one for an erased
node, and frees make them reusable. The traversal needs a run of two erased
elements between two that stay. For connections two threads, each holding one
mutex and wanting another, and two objects on each side give every order of the
two locks; three connections allow two between the same pair (a lambda and then a
method, although both are unique) and one to another.
In activation the interesting case is a slot of a nested activation that acts on
what the outer one stands on: depth two, with three connections, of which two
follow the one that is delivered. A queue needs two producers and two calls.

Fairness. `RcuList!FairSpec` assumes that a thread inside `unlock()` or
`~rcu_list` goes on: these loops take no lock and wait for nothing.
`QueuedDelivery!FairSpec` assumes it of a thread inside `activate`, of
`callBack` and of the end of the test; weak fairness is enough for their locks
because the holder always releases them and there are finitely many emissions.
`Activate!FairSpec` assumes it of a thread inside `activate`, and of slots and
handlers that they return, which is up to the application; then every `activate`
returns (`ActivationsEnd`), unless user code emits or connects for ever: a slot
that connects to the signal being delivered lengthens the loop it is in. Weak
fairness suffices for the mutex of `beingDestroyed`, since after the last
emission it is asked for finitely often. Nothing is assumed of threads that
could start something, nor that a spurious wakeup comes. `Connections` and the
lists assume no fairness: their safety does not depend on it, and `std::mutex`
promises no order among the threads that wait.

## What is proved

`RcuListProofs`, for any sets of handles, nodes and records:

- `Inductive`: `Spec => []IInv`. `IInv` is `TypeOK` with ten named parts.
  `IteratorsValid` is not inductive: that a node under an iterator is allocated
  depends on the handle's record lying below the node's record (`CursorInv`),
  that this protects it depends on `unlock()` freeing only what has no owner
  underneath (`WalkInv`), which depends on the records forming a stack in the
  order they were pushed (`OrderInv`, `LinkInv`) whatever is freed meanwhile, and
  that a step of the iterator keeps it depends on where an erased node leads
  (`SuccessorInv`). Every part is local, so no proof needs reachability.
- `TypeCorrect`, `IteratorSafety`, `WalkerSafety`, `FreedOnce`, `ShapeKept`: the
  properties of the run `rcu_reclaim`, from `Inductive`.

`RcuListRefinementProofs`, for any sets of handles and records and any finite set
of nodes:

- `ListImplemented`: `Spec => ImplementsSharedList`. What `IInv` says of the list
  is local, a node and its neighbours, and the mapping reads the list from
  `m_head`; so the proof first puts the linked nodes in one order (`Leads`) and
  shows that each store inserts into it or takes out of it (`PutLeads`,
  `TakeLeads`): `AlwaysOrdered`. Then every step maps to one of `SharedList` or to
  none. A record keeps an element for the handles below it (`RecordsKept`): a
  handle's record going away frees elements for it (`ReapMaps`), an erased
  node's record coming in keeps it for all that are open (`RetireMaps`).
- `OnlyNestedLeak`: `Spec => []OnlyNestedGuardsLeak`. That `~rcu_list` reaches every
  node is the order of the list again (`Remaining`). What it leaves to handles
  that outlive it is the subject of `LeakInv`: a record below which no handle's
  record lies (`Bare`) always has a handle that frees it, and one older than any
  that has passed it by (`Covered`). A handle passes a record by only because an
  older one blocks it, and that one frees in its place (`BlockedCovers`).

`SharedListProofs`, for any sets of handles and elements:

- `Invariant`: `TSpec => []IInv`, and from it `CursorsFound`, `NothingIsMissed`,
  `NothingIsTwice`, `NothingIsStale` and `TypeCorrect`. `IInv` has two parts.
  `BaseInv` says that what is kept for a handle (`Keeps`) leads to what is kept
  for it, so an iterator never leaves that set. `LoopInv(B)` says that `B` is a
  strict order of the linked elements and of the erased ones not given up which
  agrees with the list, and that each erased element that is kept for anyone
  leads to the next one behind it, as if it were still there (`Leads`); what a
  loop has come to is before its iterator, what it has still to come to behind
  it. `IInv` asks only that there is such a `B`: inserting extends it
  (`OrderInsert`), erasing keeps it (`OrderErase`), and giving up an element
  takes it out, to which nothing that is kept can lead (`OrderReclaim`). No
  state of the list holds this order, as an erased element does not know who
  was inserted before it.

`ConnectionsProofs`, for any sets of threads, objects, connections and slots:

- `TypeCorrect`: `Spec => []TypeOK`.
- `DeadlockFree`: `Spec => []NoWaitCycle`. A thread that waits holds at most one
  mutex, that of a sender, and then it waits for that of a receiver (`OrderInv`:
  `LocksNeeded`, `CallShape`, `OtherShape`); so the thread it waits for waits for
  nothing that a waiting thread holds.
- `Inductive`: `Spec => []IInv`, and from it `HalvesAlwaysAgree`, `EntriesFound`,
  `NeverDangling` and `UniqueConnections`. `HalvesAgree` is not inductive: it says
  nothing of a pair that a thread is writing or destroying. `Halves` gives the
  account of such a pair too: one connection more than entries while a thread
  has half written or half erased one (`HalfDone`), no entry once the sender's
  destructor has been at the receiver (`Swept`), no connection once the receiver's
  has been at the sender (`Purged`). Each step changes the account of one pair,
  and nobody else is at work on that pair: the thread holds the sender's mutex
  (`LocksHeld`), and no destructor runs for an object that its call uses
  (`NotDisturbed`). What a call uses grows only by what another call adds, which
  exists (`UsedExist`, lemma `UsedGrows`). A destructor's loop ends when it has
  been at every object with an entry, so it leaves nothing behind (`NothingLeft`,
  lemmas `SweepComplete` and `PurgeComplete`).

`ConnectionsTableProofs`: `TableImplemented`, `Spec => ImplementsTable`. Every
step maps to one step of the table or to none, from `IInv`: that a sender leaves
no row is `NothingLeft`, that a row is established between existing objects is
`UsedExist`.

`ActivateProofs`, for any sets of threads, senders, receivers and connections, any
depth of nesting and any number of objects built at an address:

- `Invariant`: `Spec => []IInv`, and from it `NotTouched`, `CounterRight`,
  `SenderRestored`, `DrainedInTheEnd` and `TypeCorrect`. `SenderNotTouched` is not
  inductive. That an activation whose sender is gone goes no further than the
  check after its slot depends on that sender being in `beingDestroyed`
  (`Marked`), which depends on the destructor having found `m_activateBusy` above
  zero, which depends on the counter being right (`BusyCount`) between its loads
  and stores (`Counted`), which depends on the activations of a sender being in
  one thread (`OneThread`, from `Alone`), and on no new object having taken the
  address (`SameObject`, from `Unused`). Without either the statement is false, as
  `activate_shared` and `activate_reuse` show. That `beingDestroyed` is emptied
  again depends on which activation read zero (`OldShape`): the outermost, and it
  is still there (`Drained`). The current sender is restored from what an
  activation saved (`PriorShape`); of the current signal `CurrentRestored` says
  only that it belongs to no activation that has ended, since after an exception
  `activate` does not set it again (`cs_signal.h:228-244`).
- `ActivateDeliveryProofs` adds where an activation stands in the list: `WInv`, with
  `ListShape` (a connection is linked once, in the list of its sender, or erased)
  and `Way`: there is a relation `B`, "repeated `operator++` leads from c to d", which
  agrees with the lists and with what erased connections lead to and leads
  nowhere back (`Reaches`), such that each activation stands on a connection of
  its sender, linked or erased (`Stands`), comes to no slot of a receiver that is
  gone (`Safe`), to all that it owes and to nothing that it may not call (`Owes`).
  An erased connection may lead to other erased ones, whose slots the activation
  then still calls. Erasing is the hard step: what leads to an erased connection
  goes on behind it as before (`EraseReaches`), and the activation may stand on
  what is erased, or on what was erased before and leads there. Disconnecting
  needs no rule for it (`DisconnectWalks`). A destroyed receiver does:
  `OrderlyLeads` turns the set in `Orderly` into what `B` says, and
  `DestroyReceiverWalks` is the one place that uses it. From `WInv` follow
  `ReceiversThere`, `Spec => []ReceiverExists`, and `PromiseKept`,
  `Spec => KeepsPromise`: every step maps to one of `Delivery` or to none. `Visit` is
  a call, since the connection is one that may be called (`VisitCalls`); a return
  is an end, since nothing that is owed can lie ahead of the end of the list
  (`FinishEnds`); a destructor takes from all emissions what leads to its object
  (`DestroyReceiverMaps`, `DestroySenderMaps`).
- Sums over the stacks are counted by adding or taking out one activation
  (`OneMore`, `OneLess`). What a recursive function gives is proved from the
  least index at which it could be wrong (`Least`).

`QueuedDeliveryProofs`, for any number of emitters, connections and emissions:
`TypeCorrect`; `CallsInOrder` and `NothingLeftBehind`, from the queue being what
was posted and not yet taken out (`OrderInv`), and the receiver's thread ending
only with an empty queue after the last emission (`EndInv`); `ArgumentsIntact` and
`AcceptedIsCalled`. Both need what the templates compute for argument lists of any
length: the bases of a `TeaCup` are the prefixes of its types, so at most one
fits a slot (`CastsFirst`), and its data are the first values. The values
themselves stay those of the emission (`KeptInv`): the objects of a caller are
untouched until its `activate` returns (`EmitterKept`), so a reference to them is
good exactly as long as the emitter is blocked by the call that holds it, which
only an override that waits makes sure of (`QueueKept`, `Awaits`); what is no
reference is a copy and stays good in any case. That two calls in the queue are never the same one
(`PostedOnce`, from `PostedBefore`) means that the call which unblocks an emitter
is the one it waits for.

The assumptions are the `ASSUME`s of the modules: `NULL` is not one of the
objects, and no handle or element of a list, senders are not receivers, the sets of connections and of threads are
finite, the bounds are natural numbers. The refinement of `SharedList` also
assumes a finite set of nodes, that is memory: the mapping counts them to find
the end of the list.

Only model-checked: liveness (out of TLAPS's reach): `UnlockTerminates`,
`DestructorTerminates`, `ActivationsEnd`, `EveryCallMade`, `JoinReturns`. Every
safety invariant, action property and refinement of the passing runs is proved.

## Not modelled

- `rcu_list::clear` and `insert`, which are declared and defined nowhere;
  `operator--`, which does not compile when used; moving a handle, which the
  compiler elides in every use; copying a `SignalBase`, which does not compile
  either, although `test/cs_signal.cpp:30` finds the trait true.
- Exceptions for null methods, thrown before anything changes, and those of
  the allocations inside `erase`. `std::bad_alloc` of other allocations is in the
  variants only: between the halves of a connection in `ShortSpec`, for the read
  handle of `activate` in `NoMemorySpec`. The `catch` around `m_activateBusy--`
  (`cs_signal.h:252-257`), which nothing can reach.
- That the class of a receiver is the one its slot belongs to, which a
  `static_assert` ensures.
- `queueSlot` overrides other than that of the tests and the variant of it that
  waits; what a queue does with calls to a receiver that has been destroyed, which
  is up to the application.
- Parameters whose type is itself a `std::tuple`.
- What a lambda does with its captures after it has destroyed the sender that
  holds it.
- `cs_macro.h`, `cs_mp_cast`, `cs_cmp_cast`: no state.

The variants, which describe what happens outside of what `Spec` takes for granted:

| variant | adds | run |
|---|---|---|
| `RcuList!StaleSpec` | `emplace` at an iterator whose element has been erased | none |
| `Connections!ShortSpec` | no memory for the second half of a connection | `connections_short` |
| `Connections!BentoSpec` | lambdas given to the overload for `Bento`s: added again at every call | none |
| `Activate!DisorderlySpec` | receivers destroyed against `Orderly` and `Alone` | `activate_disorderly` |
| `Activate!ReuseSpec` | addresses reused under activations | `activate_reuse` |
| `Activate!SharedSpec` | several threads that activate one sender | `activate_shared` |
| `Activate!NoMemorySpec` | no memory for the read handle of `activate` | none |
| `Activate!ThrowingSpec` | handlers that throw | none |
| `Activate!ReentrantSpec` | handlers that emit | none |
| `QueuedDelivery!RvalueSpec` | arguments that are rvalues: delayed calls get what is left of them | none |

## Plan

1. State and prove for `RcuList` what bounds its loops: each step of a walk goes
   to an older record, so that `UnlockTerminates` rests on a theorem.
2. Prove the same for `activate`: without `Prolonging`, what lies ahead of an
   activation only shrinks.
3. Prove which of the properties survive outside of what `Spec` takes for granted
   (`ShortSpec`, `BentoSpec`, `ThrowingSpec`, `ReuseSpec`).
4. Let the slots of blocking connections run in the receiver's thread, in
   `Activate` too, while `activate` waits in an override that does so.
