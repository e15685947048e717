--------------------------- MODULE RcuListProofs ---------------------------
(***************************************************************************)
(* IInv is an inductive invariant of RcuList, for any number of handles,   *)
(* nodes and records, and the safety properties follow from it.            *)
(*                                                                         *)
(* The argument in short: below is a strict total order on the records of  *)
(* the zombie list.  A handle frees what lies below its own record only    *)
(* after it has seen that no record there has an owner, and an owner field *)
(* below it can only be cleared, never set (WalkInv).  So a handle that    *)
(* reaps is the oldest one open, two handles never reap the same record,   *)
(* and every iterator that can still reach an erased node belongs to a     *)
(* handle whose record lies below the record of that node (CursorInv,      *)
(* SuccessorInv), which therefore is not freed.                            *)
(***************************************************************************)
EXTENDS RcuListInv, TLAPS

\* The initial state satisfies the invariant.
LEMMA InitInv == Init => IInv
BY NullAssumption DEF Init, IInv, TypeOK, GuardInv, WriterInv, OrderInv, LinkInv, WalkInv, WalkOf,
     DtorInv, RetiredOnce, ListShape, CursorInv, SuccessorInv, Linked, Pushed,
     UnderConstruction, Top, Reapers, Control

-----------------------------------------------------------------------------
(* Which records are on the stack *)

\* rcu_read_lock adds exactly the handle's own record to the pushed ones.
LEMMA PushedEnlist ==
  ASSUME TypeOK, GuardInv, WriterInv, NEW h \in Handles, Enlist(h)
  PROVE  /\ m_zombie[h] \in zombieHeap \ Pushed
         /\ Pushed' = Pushed \cup {m_zombie[h]}
         /\ \A z \in Pushed : below'[z] = below[z]
<1>1. /\ m_zombie[h] \in zombieHeap \ Pushed
      /\ Pushed' = Pushed \cup {m_zombie[h]}
  BY NullAssumption DEF TypeOK, GuardInv, WriterInv, Enlist, PushRecord, Pushed,
     UnderConstruction, localVars, recordVars
<1>2. Pushed \subseteq Zombies /\ below' = [below EXCEPT ![m_zombie[h]] = Stack]
  BY DEF TypeOK, Pushed, Enlist, PushRecord
<1> QED BY <1>1, <1>2 DEF TypeOK

\* The push of erase() adds exactly the record under construction.
LEMMA PushedRetire ==
  ASSUME TypeOK, GuardInv, WriterInv, NEW h \in Handles, Retire(h)
  PROVE  /\ fresh[h] \in zombieHeap \ Pushed
         /\ Pushed' = Pushed \cup {fresh[h]}
         /\ \A z \in Pushed : below'[z] = below[z]
<1>1. /\ fresh[h] \in zombieHeap \ Pushed
      /\ Pushed' = Pushed \cup {fresh[h]}
  BY NullAssumption DEF TypeOK, GuardInv, WriterInv, Retire, PushRecord, Pushed,
     UnderConstruction, recordVars
<1>2. Pushed \subseteq Zombies /\ below' = [below EXCEPT ![fresh[h]] = Stack]
  BY DEF TypeOK, Pushed, Retire, PushRecord
<1> QED BY <1>1, <1>2 DEF TypeOK

\* A step of the second loop of unlock() removes exactly the record it frees.
LEMMA PushedReap ==
  ASSUME TypeOK, GuardInv, WriterInv, NEW h \in Handles, Reap(h)
  PROVE  Pushed' = Pushed \ {scan[h]}
BY NullAssumption DEF TypeOK, GuardInv, WriterInv, Reap, FreeRecord, Pushed, UnderConstruction

\* A step of the second loop of ~rcu_list removes exactly the record it frees.
LEMMA PushedDestroyZombie ==
  ASSUME TypeOK, GuardInv, WriterInv, DestroyZombie
  PROVE  Pushed' = Pushed \ {dzombie}
BY NullAssumption DEF TypeOK, GuardInv, WriterInv, DestroyZombie, FreeRecord, Pushed,
     UnderConstruction, localVars

\* The actions that push no record and free none.
KeepsStack(h) ==
  \/ (\E write \in BOOLEAN : Access(h, write)) \/ EnlistRetry(h) \/ LockMutex(h)
  \/ Read(h) \/ PushFront(h) \/ PushBack(h) \/ Emplace(h)
  \/ Unlink(h) \/ RetireRetry(h) \/ EraseAgain(h)
  \/ Unlock(h) \/ WalkOn(h) \/ WalkBlocked(h) \/ WalkLast(h) \/ ReapEnd(h) \/ Leave(h)

DtorKeepsStack ==
  Destroy \/ DestroyNode \/ DestroyNodesEnd \/ DestroyEnd \/ UNCHANGED vars

\* The remaining actions of the handles leave the set of pushed records alone.
LEMMA PushedFrame ==
  ASSUME TypeOK, GuardInv, WriterInv, NEW h \in Handles, KeepsStack(h)
  PROVE  Pushed' = Pushed /\ below' = below
<1> USE NullAssumption
<1>1. CASE \/ \E write \in BOOLEAN : Access(h, write)
           \/ EnlistRetry(h) \/ LockMutex(h) \/ Unlink(h) \/ RetireRetry(h)
  BY <1>1 DEF TypeOK, GuardInv, WriterInv, Access, EnlistRetry, LockMutex, Unlink, TakeOut, RetireRetry,
       Writing, Reading, NewRecord, ReloadHead, Pushed, UnderConstruction, localVars
<1>2. CASE Read(h) \/ PushFront(h) \/ PushBack(h) \/ Emplace(h) \/ EraseAgain(h)
  BY <1>2 DEF Read, Begin, Advance, PushFront, PushBack, Emplace, EmplaceAnywhere, EraseAgain,
       UnchangedByInsert, Pushed, UnderConstruction, localVars
<1>3. CASE Unlock(h) \/ WalkOn(h) \/ WalkBlocked(h) \/ WalkLast(h) \/ ReapEnd(h) \/ Leave(h)
  BY <1>3 DEF TypeOK, Unlock, WalkOn, WalkBlocked, WalkLast, ReapEnd, Leave, UnchangedByWalk,
       Pushed, UnderConstruction
<1> QED BY <1>1, <1>2, <1>3 DEF KeepsStack

\* So do the remaining actions of the destructor.
LEMMA PushedDtorFrame ==
  ASSUME DtorKeepsStack
  PROVE  Pushed' = Pushed /\ below' = below
BY DEF DtorKeepsStack, Destroy, DestroyNode, DestroyNodesEnd, DestroyEnd, vars, localVars, Pushed,
   UnderConstruction

-----------------------------------------------------------------------------
(* One lemma per part of the invariant *)

\* Every step keeps every variable in its domain.
LEMMA TypeStep == TypeOK /\ GuardInv /\ WriterInv /\ [Next]_vars => TypeOK'
<1> SUFFICES ASSUME TypeOK, GuardInv, WriterInv, [Next]_vars PROVE TypeOK'
  OBVIOUS
<1> USE NullAssumption DEF TypeOK, Control
<1>1. ASSUME NEW h \in Handles, Lock(h) PROVE TypeOK'
  BY <1>1 DEF Lock, Access, Enlist, EnlistRetry, LockMutex, NewRecord, PushRecord, ReloadHead,
       Stack, listVars, recordVars, localVars, dtorVars
<1>2. ASSUME NEW h \in Handles, Read(h) PROVE TypeOK'
  BY <1>2 DEF Read, Begin, Advance, Reading, listVars, recordVars, dtorVars
<1>3. ASSUME NEW h \in Handles, Write(h) PROVE TypeOK'
  <2>1. CASE PushFront(h) \/ PushBack(h) \/ Emplace(h)
    BY <2>1 DEF PushFront, PushBack, Emplace, EmplaceAnywhere, Writing, Reading, Allocate, Splice,
         AtFront, AtBack, AtIterator, UnchangedByInsert, recordVars, localVars, dtorVars
  <2>2. CASE Unlink(h)
    BY <2>2 DEF Unlink, TakeOut, Writing, Reading, NewRecord, dtorVars
  <2>3. CASE Retire(h) \/ RetireRetry(h)
    BY <2>3 DEF WriterInv, Retire, RetireRetry, PushRecord, ReloadHead, Stack, listVars,
         recordVars, localVars, dtorVars
  <2>4. CASE EraseAgain(h)
    BY <2>4 DEF EraseAgain, Advance, Reading, listVars, recordVars, dtorVars
  <2> QED BY <1>3, <2>1, <2>2, <2>3, <2>4 DEF Write
<1>4. ASSUME NEW h \in Handles, Unlock(h) \/ Unlocking(h) PROVE TypeOK'
  BY <1>4 DEF GuardInv, Unlocking, Unlock, WalkOn, WalkBlocked, WalkLast, Reap, ReapEnd, Leave,
       UnchangedByWalk, FreeRecord, FreeNode, listVars, recordVars, localVars, dtorVars
<1>5. ASSUME Destructor PROVE TypeOK'
  BY <1>5 DEF Destructor, Destroy, DestroyNode, DestroyNodesEnd, DestroyZombie, DestroyEnd,
       FreeRecord, FreeNode, listVars, recordVars, localVars, dtorVars
<1>6. CASE UNCHANGED vars
  BY <1>6 DEF vars
<1> QED BY <1>1, <1>2, <1>3, <1>4, <1>5, <1>6 DEF Next

\* Every step keeps the handles and their records in correspondence.
LEMMA GuardStep == IInv /\ [Next]_vars => GuardInv'
<1> SUFFICES ASSUME IInv, [Next]_vars PROVE GuardInv'
  OBVIOUS
<1> USE NullAssumption DEF IInv, TypeOK, GuardInv
<1>1. ASSUME NEW h \in Handles, Lock(h) PROVE GuardInv'
  BY <1>1 DEF Lock, Access, Enlist, EnlistRetry, LockMutex, NewRecord, PushRecord, ReloadHead,
       recordVars, localVars
<1>2. ASSUME NEW h \in Handles, Read(h) \/ Write(h) PROVE GuardInv'
  BY <1>2 DEF WriterInv, Read, Write, Begin, Advance, PushFront, PushBack, Emplace, EmplaceAnywhere,
       Unlink, TakeOut, Retire, RetireRetry, EraseAgain, Writing, Reading, NewRecord, PushRecord,
       ReloadHead, UnchangedByInsert, recordVars, localVars
<1>3. ASSUME NEW h \in Handles, Unlock(h) \/ WalkOn(h) \/ WalkBlocked(h) \/ WalkLast(h)
                                  \/ ReapEnd(h) \/ Leave(h)
      PROVE  GuardInv'
  BY <1>3 DEF Unlock, WalkOn, WalkBlocked, WalkLast, ReapEnd, Leave, UnchangedByWalk, recordVars
<1>4. ASSUME NEW h \in Handles, Reap(h) PROVE GuardInv'
  BY <1>4 DEF WalkInv, WalkOf, Reap, FreeRecord
<1>5. ASSUME Destructor PROVE GuardInv'
  BY <1>5 DEF Destructor, Destroy, DestroyNode, DestroyNodesEnd, DestroyZombie, DestroyEnd,
       FreeRecord, recordVars, localVars
<1>6. CASE UNCHANGED vars
  BY <1>6 DEF vars
<1> QED BY <1>1, <1>2, <1>3, <1>4, <1>5, <1>6 DEF Next, Unlocking

\* Every step keeps the mutex with the one open write handle.
LEMMA WriterStep == IInv /\ [Next]_vars => WriterInv'
<1> SUFFICES ASSUME IInv, [Next]_vars PROVE WriterInv'
  OBVIOUS
<1> USE NullAssumption DEF IInv, TypeOK, GuardInv, WriterInv
<1>1. ASSUME NEW h \in Handles, Lock(h) PROVE WriterInv'
  BY <1>1 DEF Lock, Access, Enlist, EnlistRetry, LockMutex, NewRecord, PushRecord, ReloadHead,
       recordVars, localVars
<1>2. ASSUME NEW h \in Handles, Read(h) \/ Write(h) PROVE WriterInv'
  BY <1>2 DEF Read, Write, Begin, Advance, PushFront, PushBack, Emplace, EmplaceAnywhere,
       Unlink, TakeOut, Retire, RetireRetry, EraseAgain, Writing, Reading, NewRecord, PushRecord,
       ReloadHead, UnchangedByInsert, recordVars, localVars
<1>3. ASSUME NEW h \in Handles, Unlock(h) \/ WalkOn(h) \/ WalkBlocked(h) \/ WalkLast(h)
                                  \/ ReapEnd(h) \/ Leave(h)
      PROVE  WriterInv'
  BY <1>3 DEF Unlock, WalkOn, WalkBlocked, WalkLast, ReapEnd, Leave, UnchangedByWalk, recordVars
<1>4. ASSUME NEW h \in Handles, Reap(h) PROVE WriterInv'
  BY <1>4 DEF OrderInv, WalkInv, WalkOf, Pushed, UnderConstruction, Reap, FreeRecord
<1>5. ASSUME Destructor PROVE WriterInv'
  BY <1>5 DEF DtorInv, Destructor, Destroy, DestroyNode, DestroyNodesEnd, DestroyZombie, DestroyEnd,
       FreeRecord, recordVars, localVars
<1>6. CASE UNCHANGED vars
  BY <1>6 DEF vars
<1> QED BY <1>1, <1>2, <1>3, <1>4, <1>5, <1>6 DEF Next, Unlocking

\* Facts about the pushed records that several parts need.
LEMMA PushedFacts ==
  ASSUME IInv
  PROVE  /\ \A h \in Handles : Entered(h) => m_zombie[h] \in Pushed
         /\ dtor \in {"none", "nodes"} => Stack = Pushed
         /\ \A h \in Handles : pc[h] = "reap" /\ scan[h] # NULL =>
              /\ scan[h] \in Pushed
              /\ below[m_zombie[h]] = {scan[h]} \cup below[scan[h]]
<1>1. \A h \in Handles : Entered(h) => m_zombie[h] \in Pushed
  BY NullAssumption DEF IInv, GuardInv, WriterInv, Entered, Pushed, UnderConstruction
<1>2. dtor \in {"none", "nodes"} => Stack = Pushed
  BY NullAssumption DEF IInv, OrderInv, LinkInv, DtorInv, Stack, Top
<1>3. ASSUME NEW h \in Handles, pc[h] = "reap", scan[h] # NULL
      PROVE  /\ scan[h] \in Pushed
             /\ below[m_zombie[h]] = {scan[h]} \cup below[scan[h]]
  BY <1>1, <1>3 DEF IInv, OrderInv, WalkInv, WalkOf, Entered
<1> QED BY <1>1, <1>2, <1>3

\* Every step keeps the pushed records totally ordered by below.
LEMMA OrderStep == IInv /\ [Next]_vars => OrderInv'
<1> SUFFICES ASSUME IInv, [Next]_vars PROVE OrderInv'
  OBVIOUS
<1>1. CASE DtorKeepsStack \/ \E h \in Handles : KeepsStack(h)
  BY <1>1, PushedFrame, PushedDtorFrame DEF IInv, OrderInv
<1>2. ASSUME NEW h \in Handles, Enlist(h) PROVE OrderInv'
  <2>1. Stack = Pushed
    BY <1>2, PushedFacts DEF IInv, DtorInv, Enlist
  <2>2. below' = [below EXCEPT ![m_zombie[h]] = Pushed]
    BY <1>2, <2>1 DEF Enlist, PushRecord
  <2> QED BY <1>2, <2>2, PushedEnlist DEF IInv, TypeOK, OrderInv
<1>3. ASSUME NEW h \in Handles, Retire(h) PROVE OrderInv'
  <2>1. Stack = Pushed
    BY <1>3, PushedFacts DEF IInv, DtorInv, Retire
  <2>2. below' = [below EXCEPT ![fresh[h]] = Pushed]
    BY <1>3, <2>1 DEF Retire, PushRecord
  <2> QED BY <1>3, <2>2, PushedRetire DEF IInv, TypeOK, OrderInv
<1>4. ASSUME NEW h \in Handles, Reap(h) PROVE OrderInv'
  <2>1. Pushed' = Pushed \ {scan[h]}
    BY <1>4, PushedReap DEF IInv
  <2>2. \A y \in Pushed' : below'[y] = below[y] \ {scan[h]}
    BY <1>4, <2>1 DEF IInv, TypeOK, Pushed, Reap, FreeRecord
  <2> QED BY <2>1, <2>2 DEF IInv, OrderInv
<1>5. CASE DestroyZombie
  <2>1. Pushed' = Pushed \ {dzombie}
    BY <1>5, PushedDestroyZombie DEF IInv
  <2>2. \A y \in Pushed' : below'[y] = below[y] \ {dzombie}
    BY <1>5, <2>1 DEF IInv, TypeOK, Pushed, DestroyZombie, FreeRecord
  <2> QED BY <2>1, <2>2 DEF IInv, OrderInv
<1> QED BY <1>1, <1>2, <1>3, <1>4, <1>5 DEF KeepsStack, DtorKeepsStack, Next, Lock, Write,
             Unlocking, Destructor

\* Every step keeps the links of the stack in the order of the records.
LEMMA LinkStep == IInv /\ [Next]_vars => LinkInv'
<1> SUFFICES ASSUME IInv, [Next]_vars PROVE LinkInv'
  OBVIOUS
<1> USE NullAssumption
<1>1. ASSUME NEW h \in Handles, Enlist(h) PROVE LinkInv'
  <2>1. /\ Stack = Pushed
        /\ Top(m_zombie_head)
    BY <1>1, PushedFacts DEF IInv, LinkInv, DtorInv, Enlist
  <2>2. PICK z \in Zombies \ Pushed : z = m_zombie[h] /\ Pushed' = Pushed \cup {z}
    BY <1>1, PushedEnlist DEF IInv, TypeOK
  <2>3. /\ below' = [below EXCEPT ![z] = Pushed]
        /\ m_zombie_head' = z
        /\ znext[z] = m_zombie_head
        /\ UNCHANGED <<znext, m_zombie, dtor>>
    BY <1>1, <2>1, <2>2 DEF Enlist, PushRecord, recordVars, localVars, dtorVars
  <2>4. Reapers' = Reapers
    BY <1>1 DEF IInv, TypeOK, Enlist, Reapers
  <2>5. /\ below'[z] = Pushed
        /\ \A y \in Pushed : below'[y] = below[y]
    BY <2>2, <2>3 DEF IInv, TypeOK
  <2>6. Top(m_zombie_head)'
    BY <2>2, <2>3, <2>5 DEF Top
  <2>7. Adjacent(z)'
    BY <2>1, <2>2, <2>3, <2>5 DEF Top, Adjacent
  <2>8. ASSUME NEW y \in Pushed, Adjacent(y) PROVE Adjacent(y)'
    BY <2>3, <2>5, <2>8 DEF IInv, OrderInv, Adjacent
  <2> QED BY <2>2, <2>3, <2>4, <2>6, <2>7, <2>8 DEF IInv, LinkInv
<1>2. ASSUME NEW h \in Handles, Retire(h) PROVE LinkInv'
  <2>1. /\ Stack = Pushed
        /\ Top(m_zombie_head)
    BY <1>2, PushedFacts DEF IInv, LinkInv, DtorInv, Retire
  <2>2. PICK z \in Zombies \ Pushed : z = fresh[h] /\ Pushed' = Pushed \cup {z}
    BY <1>2, PushedRetire DEF IInv, TypeOK
  <2>3. /\ below' = [below EXCEPT ![z] = Pushed]
        /\ m_zombie_head' = z
        /\ znext[z] = m_zombie_head
        /\ UNCHANGED <<znext, m_zombie, dtor>>
    BY <1>2, <2>1, <2>2 DEF Retire, PushRecord, recordVars, dtorVars
  <2>4. Reapers' = Reapers
    BY <1>2 DEF IInv, TypeOK, Retire, Reapers
  <2>5. /\ below'[z] = Pushed
        /\ \A y \in Pushed : below'[y] = below[y]
    BY <2>2, <2>3 DEF IInv, TypeOK
  <2>6. Top(m_zombie_head)'
    BY <2>2, <2>3, <2>5 DEF Top
  <2>7. Adjacent(z)'
    BY <2>1, <2>2, <2>3, <2>5 DEF Top, Adjacent
  <2>8. ASSUME NEW y \in Pushed, Adjacent(y) PROVE Adjacent(y)'
    BY <2>3, <2>5, <2>8 DEF IInv, OrderInv, Adjacent
  <2> QED BY <2>2, <2>3, <2>4, <2>6, <2>7, <2>8 DEF IInv, LinkInv
<1>3. ASSUME NEW h \in Handles, Reap(h) PROVE LinkInv'
  <2>1. PICK g, s \in Pushed : /\ g = m_zombie[h] /\ s = scan[h]
                               /\ s \in below[g]
                               /\ below[g] = {s} \cup below[s]
    BY <1>3, PushedFacts DEF Entered, Reap
  <2>2. /\ Pushed' = Pushed \ {s}
        /\ g # s
    BY <1>3, <2>1, PushedReap DEF IInv, OrderInv
  <2>3. /\ \A y \in Pushed' : below'[y] = below[y] \ {s} /\ znext'[y] = znext[y]
        /\ UNCHANGED <<m_zombie_head, m_zombie, dtor>>
    BY <1>3, <2>1, <2>2 DEF IInv, TypeOK, Pushed, Reap, FreeRecord, dtorVars
  <2>4. Reapers' = Reapers
    BY <1>3 DEF Reap, Reapers
  <2>5. Top(m_zombie_head) => Top(m_zombie_head)'
    BY <2>1, <2>2, <2>3 DEF IInv, OrderInv, Top
  <2>6. ASSUME NEW y \in Pushed', y # g, Adjacent(y) PROVE Adjacent(y)'
    <3>1. y \in below[s] \/ g \in below[y]
      BY <2>1, <2>2, <2>6 DEF IInv, OrderInv
    <3>2. CASE y \in below[s]
      <4>1. \A x \in {y} \cup below[y] : x \in Pushed' /\ s \notin below[x]
        BY <2>1, <2>2, <2>6, <3>2 DEF IInv, OrderInv
      <4> QED BY <2>3, <2>6, <4>1 DEF Adjacent
    <3>3. CASE g \in below[y]
      <4>1. /\ y \in Pushed /\ below[y] \subseteq Pushed
            /\ znext[y] # NULL /\ znext[y] # s /\ znext[y] \in below[y]
        BY <2>1, <2>2, <2>6, <3>3 DEF IInv, OrderInv, Adjacent
      <4> QED BY <2>2, <2>3, <2>6, <4>1 DEF Adjacent
    <3> QED BY <3>1, <3>2, <3>3
  <2> QED BY <1>3, <2>1, <2>2, <2>3, <2>4, <2>5, <2>6 DEF IInv, LinkInv, Reap, Reapers
<1>4. CASE DestroyZombie
  <2>1. /\ Pushed' = Pushed \ {dzombie}
        /\ \A y \in Pushed' : below'[y] = below[y] \ {dzombie} /\ znext'[y] = znext[y]
        /\ UNCHANGED <<m_zombie, dtor, Reapers>>
        /\ dtor # "none"
    BY <1>4, PushedDestroyZombie DEF IInv, TypeOK, Pushed, DestroyZombie, FreeRecord, Reapers,
         localVars
  <2>2. Top(dzombie) /\ dzombie \in Pushed
    BY <1>4 DEF IInv, DtorInv, DestroyZombie, Top
  <2>3. \A y \in Pushed' : dzombie \notin below[y]
    BY <2>1, <2>2 DEF IInv, OrderInv, Top
  <2>4. ASSUME NEW y \in Pushed', Adjacent(y) PROVE Adjacent(y)'
    BY <2>1, <2>3, <2>4 DEF IInv, OrderInv, Adjacent
  <2> QED BY <2>1, <2>4 DEF IInv, LinkInv
<1>5. ASSUME NEW h \in Handles, KeepsStack(h) PROVE LinkInv'
  <2>1. Pushed' = Pushed /\ below' = below
    BY <1>5, PushedFrame DEF IInv
  <2>2. UNCHANGED <<m_zombie_head, dtor>>
    BY <1>5 DEF KeepsStack, Read, Access, EnlistRetry, LockMutex, Begin, Advance, PushFront,
         PushBack, Emplace, EmplaceAnywhere, Unlink, TakeOut, RetireRetry, EraseAgain, Unlock, WalkOn,
         WalkBlocked, WalkLast, ReapEnd, Leave, ReloadHead, UnchangedByInsert, UnchangedByWalk,
         dtorVars
  <2>3. CASE ReapEnd(h)
    <3>1. m_zombie[h] \in Pushed /\ below[m_zombie[h]] = {}
      BY <2>3, PushedFacts DEF IInv, WalkInv, WalkOf, ReapEnd, Entered
    <3>2. /\ \A z \in Pushed : znext'[z] = IF z = m_zombie[h] THEN NULL ELSE znext[z]
          /\ m_zombie' = m_zombie
          /\ Reapers' = Reapers \ {h}
      BY <2>3 DEF IInv, TypeOK, Pushed, ReapEnd, UnchangedByWalk, Reapers
    <3>3. Adjacent(m_zombie[h])'
      BY <2>1, <3>1, <3>2 DEF Adjacent
    <3>4. ASSUME NEW z \in Pushed, z # m_zombie[h], Adjacent(z) PROVE Adjacent(z)'
      BY <2>1, <3>2, <3>4 DEF Adjacent
    <3> QED BY <2>1, <2>2, <3>2, <3>3, <3>4 DEF IInv, LinkInv, Top
  <2>4. CASE ~ReapEnd(h)
    <3>1. \A k \in Handles : pc[k] = "reap" => pc'[k] = "reap" /\ m_zombie'[k] = m_zombie[k]
      BY <1>5, <2>4 DEF IInv, TypeOK, KeepsStack, Read, Access, EnlistRetry, LockMutex, Begin,
           Advance, PushFront, PushBack, Emplace, EmplaceAnywhere, Unlink, TakeOut, RetireRetry, EraseAgain,
           Unlock, WalkOn, WalkBlocked, WalkLast, Leave, Reading, Writing, UnchangedByInsert,
           UnchangedByWalk, localVars
    <3>2. \A z \in Pushed : znext'[z] = znext[z]
      BY <1>5, <2>4 DEF IInv, TypeOK, GuardInv, WriterInv, Pushed, UnderConstruction, KeepsStack,
           Read, Access, EnlistRetry, LockMutex, Begin, Advance, PushFront, PushBack, Emplace,
           EmplaceAnywhere, Unlink, TakeOut, RetireRetry, EraseAgain, Unlock, WalkOn, WalkBlocked, WalkLast,
           Leave, NewRecord, ReloadHead, UnchangedByInsert, UnchangedByWalk, recordVars
    <3> QED BY <2>1, <2>2, <3>1, <3>2 DEF IInv, LinkInv, Top, Adjacent, Reapers
  <2> QED BY <2>3, <2>4
<1>6. CASE DtorKeepsStack
  BY <1>6, PushedDtorFrame DEF IInv, LinkInv, DtorInv, DtorKeepsStack, Destroy, DestroyNode,
       DestroyNodesEnd, DestroyEnd, Top, Adjacent, Reapers, recordVars, localVars, vars
<1> QED BY <1>1, <1>2, <1>3, <1>4, <1>5, <1>6 DEF KeepsStack, DtorKeepsStack, Next, Lock, Write,
             Unlocking, Destructor

\* Only the record of an open handle is ever cut off from what lies below it.
LEMMA AdjacentUnowned ==
  ASSUME TypeOK, GuardInv, LinkInv, NEW s \in Pushed, owner[s] = NULL
  PROVE  Adjacent(s)
BY NullAssumption DEF TypeOK, GuardInv, LinkInv, Reapers

\* A step that moves no handle that is walking or reaping and leaves the
\* records such handles can see as they are.
LEMMA WalkFrame ==
  ASSUME IInv,
         \A k \in Handles : scan'[k] = scan[k],
         \A k \in Handles :
           IF pc[k] \in {"walk", "reap"}
           THEN pc'[k] = pc[k] /\ m_zombie'[k] = m_zombie[k]
           ELSE pc'[k] \notin {"walk", "reap"},
         \A y \in Pushed : below'[y] = below[y] /\ owner'[y] = owner[y]
  PROVE  WalkInv'
<1>1. \A k \in Handles : pc[k] \in {"walk", "reap"} =>
        /\ m_zombie[k] \in Pushed
        /\ below[m_zombie[k]] \subseteq Pushed
  BY PushedFacts DEF IInv, OrderInv, Entered
<1> QED BY <1>1 DEF IInv, WalkInv, WalkOf

\* Every step keeps what unlock() has passed, or is freeing, without owner.
LEMMA WalkStep == IInv /\ [Next]_vars => WalkInv'
<1> SUFFICES ASSUME IInv, [Next]_vars PROVE WalkInv'
  OBVIOUS
<1> USE NullAssumption
<1>1. ASSUME NEW h \in Handles, Lock(h) PROVE WalkInv'
  <2>1. /\ scan' = scan
        /\ \A k \in Handles :
             IF pc[k] \in {"walk", "reap"}
             THEN pc'[k] = pc[k] /\ m_zombie'[k] = m_zombie[k]
             ELSE pc'[k] \notin {"walk", "reap"}
    BY <1>1 DEF IInv, TypeOK, Lock, Access, Enlist, EnlistRetry, LockMutex, localVars
  <2>2. \A y \in Pushed : below'[y] = below[y] /\ owner'[y] = owner[y]
    BY <1>1, PushedEnlist DEF IInv, TypeOK, Pushed, Lock, Access, Enlist, EnlistRetry, LockMutex,
         NewRecord, PushRecord, ReloadHead, recordVars, localVars
  <2> QED BY <2>1, <2>2, WalkFrame
<1>2. ASSUME NEW h \in Handles, Read(h) \/ Write(h) PROVE WalkInv'
  <2>1. /\ scan' = scan
        /\ \A k \in Handles :
             IF pc[k] \in {"walk", "reap"}
             THEN pc'[k] = pc[k] /\ m_zombie'[k] = m_zombie[k]
             ELSE pc'[k] \notin {"walk", "reap"}
    BY <1>2 DEF IInv, TypeOK, Read, Write, Begin, Advance, PushFront, PushBack, Emplace,
         EmplaceAnywhere, Unlink, TakeOut, Retire, RetireRetry, EraseAgain, Writing, Reading,
         UnchangedByInsert, localVars
  <2>2. \A y \in Pushed : below'[y] = below[y] /\ owner'[y] = owner[y]
    BY <1>2, PushedRetire DEF IInv, TypeOK, Pushed, Read, Write, Begin, Advance, PushFront, PushBack,
         Emplace, EmplaceAnywhere, Unlink, TakeOut, Retire, RetireRetry, EraseAgain, NewRecord, PushRecord,
         ReloadHead, UnchangedByInsert, recordVars
  <2> QED BY <2>1, <2>2, WalkFrame
<1>3. ASSUME NEW h \in Handles, Unlock(h) \/ WalkOn(h) \/ WalkBlocked(h) \/ WalkLast(h)
                                  \/ ReapEnd(h) \/ Leave(h)
      PROVE  WalkInv'
  <2>1. \A k \in Handles : k # h =>
          pc'[k] = pc[k] /\ scan'[k] = scan[k] /\ m_zombie'[k] = m_zombie[k]
    BY <1>3 DEF IInv, TypeOK, Unlock, WalkOn, WalkBlocked, WalkLast, ReapEnd, Leave, UnchangedByWalk
  <2>2. PICK g \in Pushed : g = m_zombie[h]
    BY <1>3, PushedFacts DEF Unlock, WalkOn, WalkBlocked, WalkLast, ReapEnd, Leave, Entered
  <2>3. below' = below /\ \A y \in Zombies : owner'[y] = owner[y] \/ owner'[y] = NULL
    BY <1>3 DEF IInv, TypeOK, Unlock, WalkOn, WalkBlocked, WalkLast, ReapEnd, Leave,
         UnchangedByWalk, recordVars
  <2>4. below[g] \subseteq Pushed /\ Pushed \subseteq Zombies
    BY <2>2 DEF IInv, TypeOK, OrderInv, Pushed
  <2>5. Adjacent(g) \/ pc[h] = "reap"
    BY <2>2 DEF IInv, TypeOK, GuardInv, LinkInv, Reapers
  <2>6. \A k \in Handles : WalkOf(k)
    BY DEF IInv, WalkInv
  <2>7. \A k \in Handles : k # h => WalkOf(k)'
    <3> SUFFICES ASSUME NEW k \in Handles, k # h PROVE WalkOf(k)'
      OBVIOUS
    <3>1. pc[k] \in {"walk", "reap"} => below[m_zombie[k]] \subseteq Zombies
      BY PushedFacts DEF IInv, TypeOK, OrderInv, Entered, Pushed
    <3> QED BY <2>1, <2>3, <2>6, <3>1 DEF WalkOf
  <2>8. WalkOf(h)'
    <3> USE DEF WalkOf
    <3>1. CASE Unlock(h)
      BY <3>1, <2>2, <2>5 DEF IInv, TypeOK, Unlock, Adjacent, recordVars
    <3>2. CASE WalkOn(h)
      <4>1. PICK s \in Pushed : s = scan[h] /\ s \in below[g] /\ owner[s] = NULL
        BY <3>2, <2>2, <2>4, <2>6 DEF WalkOn
      <4>2. Adjacent(s)
        BY <4>1, AdjacentUnowned DEF IInv
      <4> QED BY <3>2, <2>2, <2>6, <4>1, <4>2 DEF IInv, TypeOK, OrderInv, WalkOn, UnchangedByWalk, Adjacent
    <3>3. CASE WalkBlocked(h)
      BY <3>3, <2>6 DEF IInv, TypeOK, WalkBlocked, UnchangedByWalk
    <3>4. CASE WalkLast(h)
      BY <3>4, <2>2, <2>5, <2>6 DEF IInv, TypeOK, WalkLast, UnchangedByWalk, Adjacent
    <3>5. CASE ReapEnd(h)
      BY <3>5, <2>6 DEF IInv, TypeOK, ReapEnd, UnchangedByWalk
    <3>6. CASE Leave(h)
      BY <3>6, <2>6 DEF IInv, TypeOK, Leave
    <3> QED BY <1>3, <3>1, <3>2, <3>3, <3>4, <3>5, <3>6
  <2> QED BY <2>7, <2>8 DEF WalkInv
<1>4. ASSUME NEW h \in Handles, Reap(h) PROVE WalkInv'
  <2>1. PICK g, s \in Pushed : /\ g = m_zombie[h] /\ s = scan[h]
                               /\ s \in below[g]
                               /\ below[g] = {s} \cup below[s]
                               /\ owner[g] = h
    BY <1>4, PushedFacts DEF IInv, GuardInv, Entered, Reap
  <2>2. \A y \in below[g] : owner[y] = NULL
    BY <1>4, <2>1 DEF IInv, WalkInv, WalkOf, Reap
  <2>3. /\ scan' = [scan EXCEPT ![h] = znext[s]]
        /\ \A y \in Zombies : y # s => below'[y] = below[y] \ {s}
        /\ UNCHANGED <<pc, m_zombie, owner>>
    BY <1>4, <2>1 DEF IInv, TypeOK, Reap, FreeRecord
  <2>4. ASSUME NEW k \in Handles, k # h, pc[k] \in {"walk", "reap"}
        PROVE  /\ pc[k] = "walk"
               /\ m_zombie[k] \in Pushed /\ m_zombie[k] # s
               /\ scan[k] # NULL /\ scan[k] # s /\ scan[k] \in Pushed
    <3>1. PICK gk \in Pushed : gk = m_zombie[k] /\ owner[gk] = k
      BY <2>4, PushedFacts DEF IInv, GuardInv, Entered
    <3>2. g \in below[gk]
      BY <2>1, <2>2, <2>4, <3>1 DEF IInv, OrderInv
    <3>3. pc[k] = "walk" /\ scan[k] # NULL /\ scan[k] \in below[gk]
               /\ (g = scan[k] \/ g \in below[scan[k]])
      BY <2>1, <2>4, <3>1, <3>2 DEF IInv, WalkInv, WalkOf
    <3> QED BY <2>1, <2>2, <3>1, <3>3 DEF IInv, OrderInv
  <2>5. Adjacent(s)
    BY <2>1, <2>2, AdjacentUnowned DEF IInv
  <2>6. ASSUME NEW k \in Handles, k # h PROVE WalkOf(k)'
    BY <2>3, <2>4, <2>6 DEF IInv, TypeOK, WalkInv, WalkOf, Pushed
  <2>7. WalkOf(h)'
    <3> USE DEF WalkOf
    <3>1. pc'[h] = "reap" /\ scan'[h] = znext[s] /\ m_zombie'[h] = g
      BY <1>4, <2>1, <2>3 DEF IInv, TypeOK, Reap
    <3>2. /\ g # s /\ s \notin below[s]
          /\ \A y \in below[s] : y # s /\ s \notin below[y]
      BY <2>1 DEF IInv, OrderInv
    <3>3. below[s] \subseteq Zombies /\ g \in Zombies
      BY <2>1 DEF IInv, TypeOK, Pushed
    <3>4. below'[g] = below[s]
      <4>1. below'[g] = below[g] \ {s}
        BY <2>3, <3>2, <3>3
      <4> QED BY <2>1, <3>2, <4>1
    <3>5. ASSUME NEW y \in below[s] PROVE below'[y] = below[y]
      <4>1. below'[y] = below[y] \ {s}
        BY <2>3, <3>2, <3>3
      <4> QED BY <3>2, <4>1
    <3> QED BY <2>1, <2>2, <2>3, <2>5, <3>1, <3>4, <3>5 DEF Adjacent
  <2> QED BY <2>6, <2>7 DEF WalkInv
<1>5. ASSUME Destructor PROVE WalkInv'
  BY <1>5 DEF IInv, TypeOK, WalkInv, WalkOf, DtorInv, Destructor, Destroy, DestroyNode, DestroyNodesEnd, DestroyZombie,
       DestroyEnd, FreeRecord, recordVars, localVars
<1>6. CASE UNCHANGED vars
  BY <1>6 DEF vars, IInv, WalkInv, WalkOf
<1> QED BY <1>1, <1>2, <1>3, <1>4, <1>5, <1>6 DEF Next, Unlocking

\* Every step keeps the destructor alone and on top of what is left.
LEMMA DtorStep == IInv /\ [Next]_vars => DtorInv'
<1> SUFFICES ASSUME IInv, [Next]_vars PROVE DtorInv'
  OBVIOUS
<1> USE NullAssumption
<1>1. ASSUME NEW h \in Handles, Lock(h) \/ Read(h) \/ Write(h) PROVE DtorInv'
  BY <1>1 DEF IInv, DtorInv, Lock, Access, Enlist, EnlistRetry, LockMutex, Read, Write, Begin, Advance,
       PushFront, PushBack, Emplace, EmplaceAnywhere, Unlink, TakeOut, Retire, RetireRetry, EraseAgain,
       Writing, Reading, UnchangedByInsert, dtorVars
<1>2. ASSUME NEW h \in Handles, Unlock(h) \/ Unlocking(h) PROVE DtorInv'
  BY <1>2 DEF IInv, TypeOK, DtorInv, Unlock, Unlocking, WalkOn, WalkBlocked, WalkLast, Reap, ReapEnd, Leave,
       UnchangedByWalk, dtorVars
<1>3. CASE DestroyZombie
  <2>1. /\ \A h \in Handles : pc[h] # "reap"
        /\ Top(dzombie)
        /\ dzombie \in Pushed
        /\ Adjacent(dzombie)
    BY <1>3 DEF IInv, LinkInv, DtorInv, DestroyZombie, Top, Reapers
  <2>2. /\ Pushed' = Pushed \ {dzombie}
        /\ \A y \in Pushed' : below'[y] = below[y] \ {dzombie}
        /\ dzombie' = znext[dzombie]
        /\ UNCHANGED <<pc, dtor>>
    BY <1>3, PushedDestroyZombie DEF IInv, TypeOK, Pushed, DestroyZombie, FreeRecord, localVars
  <2>3. Top(dzombie)'
    BY <2>1, <2>2 DEF IInv, OrderInv, Top, Adjacent
  <2> QED BY <1>3, <2>2, <2>3 DEF IInv, DtorInv, DestroyZombie
<1>4. CASE Destroy \/ DestroyNode \/ DestroyNodesEnd \/ DestroyEnd
  <2>1. Pushed' = Pushed /\ below' = below /\ UNCHANGED <<pc, m_zombie_head>>
    BY <1>4, PushedDtorFrame DEF DtorKeepsStack, Destroy, DestroyNode, DestroyNodesEnd, DestroyEnd,
         localVars
  <2> QED BY <1>4, <2>1 DEF IInv, DtorInv, LinkInv, Top, Destroy, DestroyNode, DestroyNodesEnd,
            DestroyEnd
<1>5. CASE UNCHANGED vars
  BY <1>5 DEF vars, IInv, DtorInv, Pushed, UnderConstruction, Top
<1> QED BY <1>1, <1>2, <1>3, <1>4, <1>5 DEF Next, Destructor

\* Every step keeps each erased node on exactly one record.
LEMMA RetiredStep == IInv /\ [Next]_vars => RetiredOnce'
<1> SUFFICES ASSUME IInv, [Next]_vars PROVE RetiredOnce'
  OBVIOUS
<1> USE NullAssumption DEF IInv, TypeOK, RetiredOnce
<1>1. ASSUME NEW h \in Handles, Lock(h) PROVE RetiredOnce'
  BY <1>1 DEF Lock, Access, Enlist, EnlistRetry, LockMutex, NewRecord, PushRecord, ReloadHead,
       listVars, recordVars
<1>2. ASSUME NEW h \in Handles, PushFront(h) \/ PushBack(h) \/ Emplace(h) PROVE RetiredOnce'
  BY <1>2 DEF PushFront, PushBack, Emplace, EmplaceAnywhere, Allocate, UnchangedByInsert, recordVars
<1>3. ASSUME NEW h \in Handles, Unlink(h) PROVE RetiredOnce'
  BY <1>3 DEF CursorInv, Unlink, TakeOut, Writing, Reading, NewRecord
<1>4. ASSUME NEW h \in Handles, Read(h) \/ Retire(h) \/ RetireRetry(h) \/ EraseAgain(h)
      PROVE  RetiredOnce'
  BY <1>4 DEF Read, Begin, Advance, Retire, RetireRetry, EraseAgain, PushRecord, ReloadHead,
       listVars, recordVars
<1>5. ASSUME NEW h \in Handles, Unlock(h) \/ WalkOn(h) \/ WalkBlocked(h) \/ WalkLast(h)
                                  \/ ReapEnd(h) \/ Leave(h)
      PROVE  RetiredOnce'
  BY <1>5 DEF Unlock, WalkOn, WalkBlocked, WalkLast, ReapEnd, Leave, UnchangedByWalk, listVars,
       recordVars
<1>6. ASSUME NEW h \in Handles, Reap(h) PROVE RetiredOnce'
  BY <1>6, PushedFacts DEF Reap, FreeRecord, FreeNode, Pushed
<1>7. CASE DestroyZombie
  BY <1>7 DEF DtorInv, Top, Pushed, DestroyZombie, FreeRecord, FreeNode
<1>8. CASE DestroyNode
  BY <1>8 DEF ListShape, Linked, DestroyNode, FreeNode, recordVars
<1>9. CASE Destroy \/ DestroyNodesEnd \/ DestroyEnd \/ UNCHANGED vars
  BY <1>9 DEF Destroy, DestroyNodesEnd, DestroyEnd, listVars, recordVars, vars
<1> QED BY <1>1, <1>2, <1>3, <1>4, <1>5, <1>6, <1>7, <1>8, <1>9 DEF Next, Write, Unlocking,
             Destructor

\* Every step keeps the list readable in both directions.
LEMMA ShapeStep == IInv /\ [Next]_vars => ListShape'
<1> SUFFICES ASSUME IInv, [Next]_vars PROVE ListShape'
  OBVIOUS
<1> USE NullAssumption DEF IInv, TypeOK, RetiredOnce, ListShape, Linked
<1>1. ASSUME NEW h \in Handles, Lock(h) \/ Read(h) \/ Retire(h) \/ RetireRetry(h) \/ EraseAgain(h)
      PROVE  ListShape'
  BY <1>1 DEF Lock, Access, Enlist, EnlistRetry, LockMutex, Read, Begin, Advance, Retire,
       RetireRetry, EraseAgain, listVars, dtorVars
<1>2. ASSUME NEW h \in Handles, PushFront(h) PROVE ListShape'
  BY <1>2 DEF PushFront, Writing, Reading, Allocate, AtFront, Splice, UnchangedByInsert, dtorVars
<1>3. ASSUME NEW h \in Handles, PushBack(h) PROVE ListShape'
  BY <1>3 DEF PushBack, Writing, Reading, Allocate, AtBack, Splice, UnchangedByInsert, dtorVars
<1>4. ASSUME NEW h \in Handles, Emplace(h) PROVE ListShape'
  BY <1>4 DEF CursorInv, Emplace, EmplaceAnywhere, Writing, Reading, Allocate, AtIterator, AtFront, AtBack, Splice,
       UnchangedByInsert, dtorVars
<1>5. ASSUME NEW h \in Handles, Unlink(h) PROVE ListShape'
  BY <1>5 DEF CursorInv, Unlink, TakeOut, Writing, Reading, dtorVars
<1>6. ASSUME NEW h \in Handles, Unlock(h) \/ WalkOn(h) \/ WalkBlocked(h) \/ WalkLast(h)
                                  \/ ReapEnd(h) \/ Leave(h)
      PROVE  ListShape'
  BY <1>6 DEF Unlock, WalkOn, WalkBlocked, WalkLast, ReapEnd, Leave, UnchangedByWalk, listVars,
       dtorVars
<1>7. ASSUME NEW h \in Handles, Reap(h) PROVE ListShape'
  BY <1>7, PushedFacts DEF Reap, FreeRecord, FreeNode, Pushed, dtorVars
<1>8. CASE DestroyNode
  BY <1>8 DEF DestroyNode, FreeNode
<1>9. CASE Destroy \/ DestroyNodesEnd \/ DestroyZombie \/ DestroyEnd \/ UNCHANGED vars
  BY <1>9 DEF Destroy, DestroyNodesEnd, DestroyZombie, DestroyEnd, listVars, vars
<1> QED BY <1>1, <1>2, <1>3, <1>4, <1>5, <1>6, <1>7, <1>8, <1>9 DEF Next, Write, Unlocking,
             Destructor

\* A step that moves no iterator, frees no node under one and pushes at most
\* the record of a handle.
LEMMA CursorFrame ==
  ASSUME IInv,
         dtor' = "none" => dtor = "none",
         \A n \in nodeHeap : n \in nodeHeap',
         \A k \in Handles : cursor'[k] = cursor[k],
         \A k \in Handles : dtor = "none" /\ cursor[k] # NULL =>
           pc'[k] \in {"open", "retire"} /\ m_zombie'[k] = m_zombie[k],
         \A z \in Pushed' :
           \/ z \in Pushed /\ zombie_node'[z] = zombie_node[z] /\ below'[z] = below[z]
           \/ zombie_node'[z] = NULL
  PROVE  CursorInv'
BY DEF IInv, CursorInv

\* Where operator++ leads is fit for the handle that follows the link.
LEMMA AdvanceTarget ==
  ASSUME IInv, dtor = "none", NEW h \in Handles, pc[h] \in {"open", "retire"}, cursor[h] # NULL,
         next[cursor[h]] # NULL
  PROVE  /\ next[cursor[h]] \in nodeHeap
         /\ \A z \in Pushed : zombie_node[z] = next[cursor[h]] => m_zombie[h] \in below[z]
<1> USE NullAssumption
<1> DEFINE c == cursor[h]
<1>1. c \in nodeHeap
  BY DEF IInv, CursorInv
<1>2. CASE c \in Linked
  BY <1>1, <1>2 DEF IInv, RetiredOnce, ListShape, Linked, Pushed
<1>3. CASE c \notin Linked
  <2>1. PICK y \in zombieHeap : zombie_node[y] = c
    BY <1>1, <1>3 DEF IInv, RetiredOnce, Linked
  <2>2. CASE y \in Pushed
    <3>1. m_zombie[h] \in below[y] /\ owner[m_zombie[h]] = h
      BY <2>1, <2>2 DEF IInv, GuardInv, CursorInv
    <3>2. /\ next[c] \in nodeHeap
          /\ \A z \in Pushed : zombie_node[z] = next[c] => z = y \/ y \in below[z]
      BY <2>1, <2>2, <3>1 DEF IInv, TypeOK, SuccessorInv, Guarded
    <3> QED BY <2>2, <3>1, <3>2 DEF IInv, OrderInv
  <2>3. CASE y \notin Pushed
    <3>1. PICK k \in Handles : pc[k] = "retire" /\ cursor[k] = c
      BY <2>1, <2>3, <1>1 DEF IInv, TypeOK, GuardInv, WriterInv, Pushed, UnderConstruction
    <3>2. next[c] \in Linked \cup {c}
      BY <3>1 DEF IInv, SuccessorInv
    <3> QED BY <1>1, <2>1, <2>3, <3>2 DEF IInv, RetiredOnce, Linked, Pushed
  <2> QED BY <2>2, <2>3
<1> QED BY <1>2, <1>3

\* Every step keeps the records of erased nodes newer than the handles on them.
LEMMA CursorStep == IInv /\ [Next]_vars => CursorInv'
<1> SUFFICES ASSUME IInv, [Next]_vars PROVE CursorInv'
  OBVIOUS
<1> USE NullAssumption
<1>1. ASSUME NEW h \in Handles, Enlist(h) PROVE CursorInv'
  <2>1. /\ UNCHANGED <<dtor, nodeHeap, cursor, m_zombie, zombie_node>>
        /\ \A k \in Handles : k # h => pc'[k] = pc[k]
    BY <1>1 DEF IInv, TypeOK, Enlist, PushRecord, recordVars, localVars, dtorVars
  <2>2. dtor = "none" /\ cursor[h] = NULL
    BY <1>1 DEF IInv, TypeOK, CursorInv, DtorInv, Enlist
  <2>3. /\ Pushed' = Pushed \cup {m_zombie[h]}
        /\ zombie_node[m_zombie[h]] = NULL
    BY <1>1, PushedEnlist DEF IInv, GuardInv, Enlist
  <2>4. \A z \in Pushed : below'[z] = below[z]
    BY <1>1, PushedEnlist DEF IInv
  <2> QED BY <2>1, <2>2, <2>3, <2>4, CursorFrame DEF IInv, CursorInv
<1>2. ASSUME NEW h \in Handles, \/ \E write \in BOOLEAN : Access(h, write)
                                \/ EnlistRetry(h) \/ LockMutex(h) \/ RetireRetry(h)
                                \/ PushFront(h) \/ PushBack(h) \/ Emplace(h)
      PROVE  CursorInv'
  <2>1. /\ UNCHANGED <<dtor, cursor>>
        /\ \A n \in nodeHeap : n \in nodeHeap'
    BY <1>2 DEF Access, EnlistRetry, LockMutex, RetireRetry, PushFront, PushBack, Emplace,
         EmplaceAnywhere, Allocate, UnchangedByInsert, localVars, dtorVars
  <2>2. ASSUME NEW k \in Handles, dtor = "none", cursor[k] # NULL
        PROVE  pc'[k] \in {"open", "retire"} /\ m_zombie'[k] = m_zombie[k]
    BY <1>2, <2>2 DEF IInv, TypeOK, CursorInv, Access, EnlistRetry, LockMutex, RetireRetry,
         PushFront, PushBack, Emplace, EmplaceAnywhere, UnchangedByInsert, localVars
  <2>3. /\ Pushed' = Pushed
        /\ below' = below
    BY <1>2, PushedFrame DEF IInv, KeepsStack
  <2>4. \A z \in Pushed : zombie_node'[z] = zombie_node[z]
    BY <1>2 DEF IInv, TypeOK, Access, EnlistRetry, LockMutex, RetireRetry,
         PushFront, PushBack, Emplace, EmplaceAnywhere, UnchangedByInsert, NewRecord, ReloadHead,
         recordVars, Pushed
  <2> QED BY <2>1, <2>2, <2>3, <2>4, CursorFrame
<1>3. ASSUME NEW h \in Handles, Begin(h) PROVE CursorInv'
  BY <1>3 DEF IInv, TypeOK, CursorInv, RetiredOnce, ListShape, Linked, Begin, Reading, dtorVars,
       recordVars, Pushed, UnderConstruction
<1>4. ASSUME NEW h \in Handles, Advance(h) PROVE CursorInv'
  <2>1. /\ dtor = "none"
        /\ \A k \in Handles : cursor'[k] = IF k = h THEN next[cursor[h]] ELSE cursor[k]
        /\ pc[h] = "open"
        /\ cursor[h] # NULL
        /\ UNCHANGED <<dtor, nodeHeap, pc, m_zombie, zombie_node>>
    BY <1>4 DEF IInv, TypeOK, Advance, Reading, recordVars, dtorVars
  <2>2. UNCHANGED <<Pushed, below>>
    BY <1>4, PushedFrame DEF IInv, KeepsStack, Read
  <2> QED BY <2>1, <2>2, AdvanceTarget DEF IInv, CursorInv
<1>5. ASSUME NEW h \in Handles, Unlink(h) PROVE CursorInv'
  <2>1. /\ UNCHANGED <<dtor, cursor, nodeHeap, m_zombie>>
        /\ \A k \in Handles : pc'[k] = IF k = h THEN "retire" ELSE pc[k]
    BY <1>5 DEF IInv, TypeOK, Unlink, TakeOut, dtorVars
  <2>2. /\ Pushed' = Pushed
        /\ below' = below
    BY <1>5, PushedFrame DEF IInv, KeepsStack
  <2>3. \A z \in Pushed : zombie_node'[z] = zombie_node[z]
    BY <1>5 DEF IInv, TypeOK, Unlink, TakeOut, NewRecord, Pushed
  <2> QED BY <2>1, <2>2, <2>3, CursorFrame DEF IInv, CursorInv
<1>6. ASSUME NEW h \in Handles, Retire(h) PROVE CursorInv'
  <2>1. PICK f \in zombieHeap \ Pushed : f = fresh[h] /\ Pushed' = Pushed \cup {f}
    BY <1>6, PushedRetire DEF IInv
  <2>2. /\ dtor = "none"
        /\ Stack = Pushed
    BY <1>6, PushedFacts DEF IInv, TypeOK, DtorInv, Retire
  <2>3. /\ below'[f] = Pushed
        /\ \A z \in Pushed : below'[z] = below[z]
        /\ UNCHANGED <<dtor, nodeHeap, m_zombie, zombie_node>>
    BY <1>6, <2>1, <2>2 DEF IInv, TypeOK, Retire, PushRecord, Pushed, recordVars, dtorVars
  <2>4. /\ \A k \in Handles : pc'[k] = IF k = h THEN "open" ELSE pc[k]
        /\ \A k \in Handles : cursor'[k] = cursor[k] \/ (k = h /\ cursor'[k] = next[cursor[h]])
    BY <1>6 DEF IInv, TypeOK, Retire
  <2>5. cursor[h] # NULL /\ pc[h] = "retire"
    BY <1>6 DEF IInv, WriterInv, Retire
  <2>6. \A k \in Handles : cursor[k] # NULL => m_zombie[k] \in Pushed
    BY <2>2, PushedFacts DEF IInv, CursorInv, Entered
  <2> QED BY <2>1, <2>2, <2>3, <2>4, <2>5, <2>6, AdvanceTarget DEF IInv, CursorInv
<1>8. ASSUME NEW h \in Handles, Unlock(h) \/ WalkOn(h) \/ WalkBlocked(h) \/ WalkLast(h)
                                  \/ ReapEnd(h) \/ Leave(h)
      PROVE  CursorInv'
  BY <1>8 DEF IInv, TypeOK, CursorInv, Unlock, WalkOn, WalkBlocked, WalkLast, ReapEnd, Leave, UnchangedByWalk, 
       recordVars, dtorVars, Pushed, UnderConstruction
<1>9. ASSUME NEW h \in Handles, Reap(h) PROVE CursorInv'
  <2>1. PICK s \in Pushed : s = scan[h] /\ Pushed' = Pushed \ {s}
    BY <1>9, PushedFacts, PushedReap DEF IInv, Reap
  <2>2. ASSUME dtor = "none", NEW k \in Handles, cursor[k] # NULL
        PROVE  cursor[k] # zombie_node[s] /\ m_zombie[k] # s
    <3>1. owner[m_zombie[k]] = k
      BY <2>2 DEF IInv, GuardInv, CursorInv
    <3>2. \A y \in {s} \cup below[s] : owner[y] = NULL
      BY <1>9, <2>1, PushedFacts DEF IInv, WalkInv, WalkOf, Reap
    <3> QED BY <2>1, <2>2, <3>1, <3>2 DEF IInv, CursorInv
  <2>3. /\ UNCHANGED <<dtor, pc, cursor, m_zombie>>
        /\ nodeHeap' = nodeHeap \ {zombie_node[s]}
        /\ \A y \in Pushed' : below'[y] = below[y] \ {s} /\ zombie_node'[y] = zombie_node[y]
    BY <1>9, <2>1 DEF IInv, TypeOK, Reap, FreeRecord, FreeNode, Pushed, dtorVars
  <2> QED BY <2>1, <2>2, <2>3 DEF IInv, CursorInv
<1>10. ASSUME Destructor PROVE CursorInv'
  BY <1>10 DEF CursorInv, Destructor, Destroy, DestroyNode, DestroyNodesEnd, DestroyZombie, DestroyEnd
<1>11. CASE UNCHANGED vars
  BY <1>11 DEF IInv, CursorInv, vars, Pushed, UnderConstruction
<1> QED BY <1>1, <1>2, <1>3, <1>4, <1>5, <1>6, <1>8, <1>9, <1>10, <1>11 DEF Next, Lock, Read, Write, EraseAgain, Unlocking

\* A step that guards no record it finds unguarded, changes neither the link
\* nor the order of the erased nodes, and erases no node.
LEMMA SuccessorFrame ==
  ASSUME IInv,
         dtor' = "none" => dtor = "none",
         \A n \in nodeHeap : n \in nodeHeap',
         deleted' = deleted,
         \A k \in Handles : dtor = "none" /\ pc'[k] = "retire" => pc[k] = "retire" /\ cursor'[k] = cursor[k],
         dtor = "none" => \A n \in deleted : next'[n] = next[n],
         \A z \in Pushed' :
           \/ /\ z \in Pushed /\ zombie_node'[z] = zombie_node[z] /\ below'[z] = below[z]
              /\ \A r \in below[z] : owner'[r] = owner[r] \/ owner'[r] = NULL
           \/ zombie_node'[z] = NULL
  PROVE  SuccessorInv'
<1> SUFFICES ASSUME dtor = "none" PROVE SuccessorInv'
  BY DEF SuccessorInv
<1>1. ASSUME NEW h \in Handles, pc'[h] = "retire"
      PROVE  cursor[h] \in deleted /\ cursor'[h] = cursor[h]
  BY <1>1 DEF IInv, WriterInv, RetiredOnce
<1>2. ASSUME NEW z \in Pushed, zombie_node[z] # NULL
      PROVE  zombie_node[z] \in deleted
  BY <1>2 DEF IInv, RetiredOnce, Pushed
<1> QED BY <1>1, <1>2 DEF IInv, SuccessorInv, Guarded, Linked

\* Every step keeps the links of guarded erased nodes leading to later ones.
LEMMA SuccessorStep == IInv /\ [Next]_vars => SuccessorInv'
<1> SUFFICES ASSUME IInv, [Next]_vars PROVE SuccessorInv'
  OBVIOUS
<1> USE NullAssumption
<1>1. ASSUME NEW h \in Handles, Enlist(h) PROVE SuccessorInv'
  <2>1. /\ UNCHANGED <<dtor, nodeHeap, deleted, next, cursor, owner, zombie_node>>
        /\ \A k \in Handles : pc'[k] = "retire" => pc[k] = "retire"
    BY <1>1 DEF IInv, TypeOK, Enlist, PushRecord, listVars, recordVars, localVars, dtorVars
  <2>2. /\ Pushed' = Pushed \cup {m_zombie[h]}
        /\ zombie_node[m_zombie[h]] = NULL
    BY <1>1, PushedEnlist DEF IInv, GuardInv, Enlist
  <2>3. \A z \in Pushed : below'[z] = below[z]
    BY <1>1, PushedEnlist DEF IInv
  <2> QED BY <2>1, <2>2, <2>3, SuccessorFrame
<1>2. ASSUME NEW h \in Handles, \/ \E write \in BOOLEAN : Access(h, write)
                                \/ EnlistRetry(h) \/ LockMutex(h) \/ RetireRetry(h)
                                \/ Read(h) \/ EraseAgain(h)
      PROVE  SuccessorInv'
  <2>1. /\ UNCHANGED <<dtor, nodeHeap, deleted, next>>
        /\ \A k \in Handles : pc'[k] = "retire" => pc[k] = "retire" /\ cursor'[k] = cursor[k]
    BY <1>2 DEF IInv, TypeOK, Access, EnlistRetry, LockMutex, RetireRetry, Read, Begin, Advance,
         EraseAgain, Reading, listVars, localVars, dtorVars
  <2>2. Pushed' = Pushed /\ below' = below
    BY <1>2, PushedFrame DEF IInv, KeepsStack
  <2>3. \A z \in Pushed : zombie_node'[z] = zombie_node[z] /\ owner'[z] = owner[z]
    BY <1>2 DEF IInv, TypeOK, Access, EnlistRetry, LockMutex, RetireRetry, Read, Begin, Advance,
         EraseAgain, NewRecord, ReloadHead, recordVars, Pushed
  <2>4. \A z \in Pushed : below[z] \subseteq Pushed
    BY DEF IInv, OrderInv
  <2> QED BY <2>1, <2>2, <2>3, <2>4, SuccessorFrame
<1>3. ASSUME NEW h \in Handles, PushFront(h) \/ PushBack(h) \/ Emplace(h) PROVE SuccessorInv'
  <2>1. /\ UNCHANGED <<dtor, pc, cursor, owner, zombie_node>>
        /\ \A n \in nodeHeap : n \in nodeHeap'
    BY <1>3 DEF PushFront, PushBack, Emplace, EmplaceAnywhere, Allocate, UnchangedByInsert,
         recordVars, localVars, dtorVars
  <2>2. deleted' = deleted
    BY <1>3 DEF IInv, RetiredOnce, PushFront, PushBack, Emplace, EmplaceAnywhere, Allocate
  <2>3. ASSUME NEW n \in deleted PROVE next'[n] = next[n]
    BY <1>3, <2>3 DEF IInv, TypeOK, RetiredOnce, ListShape, CursorInv, Linked, PushFront, PushBack,
         Emplace, EmplaceAnywhere, Writing, Reading, AtIterator, AtFront, AtBack, Splice
  <2>4. Pushed' = Pushed /\ below' = below
    BY <1>3, PushedFrame DEF IInv, KeepsStack
  <2> QED BY <2>1, <2>2, <2>3, <2>4, SuccessorFrame
<1>4. ASSUME NEW h \in Handles, Unlink(h) PROVE SuccessorInv'
  <2>1. PICK c \in Linked : c = cursor[h] /\ dtor = "none" /\ pc[h] = "open"
    BY <1>4 DEF IInv, CursorInv, Linked, Unlink, TakeOut, Writing, Reading
  <2>2. /\ UNCHANGED <<dtor, cursor, nodeHeap>>
        /\ deleted' = deleted \cup {c}
        /\ Linked' = Linked \ {c}
        /\ \A k \in Handles : pc'[k] = IF k = h THEN "retire" ELSE pc[k]
    BY <1>4, <2>1 DEF IInv, TypeOK, Unlink, TakeOut, Linked, dtorVars
  <2>3. Pushed' = Pushed /\ below' = below
    BY <1>4, PushedFrame DEF IInv, KeepsStack
  <2>4. \A z \in Pushed : zombie_node'[z] = zombie_node[z] /\ owner'[z] = owner[z]
    BY <1>4 DEF IInv, TypeOK, Unlink, TakeOut, NewRecord, Pushed
  <2>5. \A n \in deleted \cup {c} : next'[n] = next[n]
    BY <1>4, <2>1 DEF IInv, TypeOK, RetiredOnce, ListShape, Linked, Unlink, TakeOut
  <2>6. next[c] # NULL => next[c] \in Linked
    BY <2>1 DEF IInv, ListShape
  <2>7. \A k \in Handles : k # h => pc[k] # "retire"
    BY <1>4 DEF IInv, WriterInv, Unlink, TakeOut, Writing, Reading
  <2>8. \A z \in Pushed : zombie_node[z] # NULL => zombie_node[z] \in deleted
    BY DEF IInv, RetiredOnce, Pushed
  <2>9. \A z \in Pushed : below[z] \subseteq Pushed
    BY DEF IInv, OrderInv
  <2>10. ASSUME NEW z \in Pushed, Guarded(z)' PROVE Guarded(z)
    BY <2>3, <2>4, <2>9, <2>10 DEF Guarded
  <2> QED BY <2>1, <2>2, <2>3, <2>4, <2>5, <2>6, <2>7, <2>8, <2>10 DEF IInv, SuccessorInv
<1>5. ASSUME NEW h \in Handles, Retire(h) PROVE SuccessorInv'
  <2>1. PICK f \in zombieHeap \ Pushed : f = fresh[h] /\ Pushed' = Pushed \cup {f}
    BY <1>5, PushedRetire DEF IInv
  <2>2. /\ dtor = "none"
        /\ Stack = Pushed
    BY <1>5, PushedFacts DEF IInv, TypeOK, DtorInv, Retire
  <2>3. /\ below'[f] = Pushed
        /\ \A z \in Pushed : below'[z] = below[z]
        /\ UNCHANGED <<dtor, nodeHeap, deleted, next, owner, zombie_node>>
    BY <1>5, <2>1, <2>2 DEF IInv, TypeOK, Retire, PushRecord, Pushed, listVars, recordVars, dtorVars
  <2>4. \A k \in Handles : pc'[k] # "retire"
    BY <1>5 DEF IInv, TypeOK, WriterInv, Retire
  <2>5. PICK c \in deleted : c = cursor[h] /\ zombie_node[f] = c /\ pc[h] = "retire"
    BY <1>5, <2>1 DEF IInv, WriterInv, RetiredOnce, Retire
  <2>6. next[c] # NULL => next[c] \in Linked \cup {c}
    BY <2>2, <2>5 DEF IInv, SuccessorInv
  <2>7. /\ Pushed \subseteq zombieHeap
        /\ \A z \in zombieHeap : zombie_node[z] # NULL => zombie_node[z] \in deleted
        /\ \A y, z \in zombieHeap :
             zombie_node[y] # NULL /\ zombie_node[y] = zombie_node[z] => y = z
    BY DEF IInv, RetiredOnce, Pushed
  <2>8. ASSUME NEW z \in Pushed, Guarded(z)' PROVE Guarded(z)
    BY <2>3, <2>8 DEF Guarded
  <2>9. deleted \subseteq nodeHeap
    BY DEF IInv, RetiredOnce
  <2>10. ASSUME NEW z \in Pushed', zombie_node[z] # NULL, Guarded(z)', next[zombie_node[z]] # NULL
         PROVE  /\ next[zombie_node[z]] \in nodeHeap
                /\ \A y \in Pushed' :
                     zombie_node[y] = next[zombie_node[z]] => y = z \/ z \in below'[y]
    <3>1. CASE z = f
      BY <2>1, <2>5, <2>6, <2>7, <2>9, <2>10, <3>1 DEF Linked
    <3>2. CASE z \in Pushed
      BY <2>1, <2>2, <2>3, <2>8, <2>10, <3>2 DEF IInv, SuccessorInv
    <3> QED BY <2>1, <3>1, <3>2
  <2> QED BY <2>3, <2>4, <2>10 DEF SuccessorInv
<1>6. ASSUME NEW h \in Handles, Unlock(h) \/ WalkOn(h) \/ WalkBlocked(h) \/ WalkLast(h)
                                  \/ ReapEnd(h) \/ Leave(h)
      PROVE  SuccessorInv'
  <2>1. /\ UNCHANGED <<dtor, nodeHeap, deleted, next, zombie_node>>
        /\ \A k \in Handles : pc'[k] = "retire" => pc[k] = "retire" /\ cursor'[k] = cursor[k]
    BY <1>6 DEF IInv, TypeOK, Unlock, WalkOn, WalkBlocked, WalkLast, ReapEnd, Leave,
         UnchangedByWalk, listVars, recordVars, dtorVars
  <2>2. Pushed' = Pushed /\ below' = below
    BY <1>6, PushedFrame DEF IInv, KeepsStack
  <2>3. \A r \in Zombies : owner'[r] = owner[r] \/ owner'[r] = NULL
    BY <1>6 DEF IInv, TypeOK, Unlock, WalkOn, WalkBlocked, WalkLast, ReapEnd, Leave,
         UnchangedByWalk, recordVars
  <2>4. \A z \in Pushed : below[z] \subseteq Zombies
    BY DEF IInv, TypeOK, Pushed
  <2> QED BY <2>1, <2>2, <2>3, <2>4, SuccessorFrame
<1>7. ASSUME NEW h \in Handles, Reap(h) PROVE SuccessorInv'
  <2>1. PICK s \in Pushed : s = scan[h] /\ Pushed' = Pushed \ {s}
    BY <1>7, PushedFacts, PushedReap DEF IInv, Reap
  <2> DEFINE dead == zombie_node[s]
  <2>2. /\ UNCHANGED <<dtor, pc, cursor, owner>>
        /\ nodeHeap' = nodeHeap \ {dead}
        /\ deleted' = deleted \ {dead}
        /\ \A n \in Nodes : n # dead => next'[n] = next[n]
        /\ \A y \in Pushed' : below'[y] = below[y] \ {s} /\ zombie_node'[y] = zombie_node[y]
    BY <1>7, <2>1 DEF IInv, TypeOK, Reap, FreeRecord, FreeNode, Pushed, dtorVars
  <2>3. \A y \in {s} \cup below[s] : owner[y] = NULL
    BY <1>7, <2>1, PushedFacts DEF IInv, WalkInv, WalkOf, Reap
  <2>4. /\ dead # NULL => dead \in deleted
        /\ \A y \in Pushed' : zombie_node[y] # NULL => zombie_node[y] # dead
    BY <2>1 DEF IInv, RetiredOnce, Pushed
  <2>5. ASSUME dtor = "none", NEW k \in Handles, pc[k] = "retire", next'[cursor[k]] # NULL
        PROVE  next'[cursor[k]] \in Linked' \cup {cursor[k]}
    <3>1. cursor[k] \in Nodes /\ cursor[k] # dead
      BY <2>1, <2>5 DEF IInv, TypeOK, WriterInv, RetiredOnce, Pushed, UnderConstruction
    <3>2. next[cursor[k]] \in Linked \cup {cursor[k]}
      BY <2>2, <2>5, <3>1 DEF IInv, SuccessorInv
    <3> QED BY <2>2, <2>4, <2>5, <3>1, <3>2 DEF Linked
  <2>6. ASSUME dtor = "none", NEW z \in Pushed', zombie_node[z] # NULL, Guarded(z)',
               next'[zombie_node[z]] # NULL
        PROVE  /\ next'[zombie_node[z]] \in nodeHeap'
               /\ \A y \in Pushed' :
                    zombie_node[y] = next'[zombie_node[z]] => y = z \/ z \in below'[y]
    <3> DEFINE n == zombie_node[z]
    <3>1. z \in Pushed /\ z # s /\ Guarded(z) /\ z \notin below[s]
      BY <2>1, <2>2, <2>3, <2>6 DEF IInv, OrderInv, Guarded
    <3>2. next'[n] = next[n]
      BY <2>2, <2>4, <2>6, <3>1 DEF IInv, TypeOK, Pushed
    <3>3. /\ next[n] \in nodeHeap
          /\ \A y \in Pushed : zombie_node[y] = next[n] => y = z \/ z \in below[y]
      BY <2>6, <3>1, <3>2 DEF IInv, SuccessorInv
    <3>4. next[n] # dead
      BY <2>1, <3>1, <3>3
    <3> QED BY <2>1, <2>2, <3>1, <3>2, <3>3, <3>4
  <2> QED BY <2>2, <2>5, <2>6 DEF SuccessorInv
<1>8. ASSUME Destructor PROVE SuccessorInv'
  BY <1>8 DEF SuccessorInv, Destructor, Destroy, DestroyNode, DestroyNodesEnd, DestroyZombie,
       DestroyEnd
<1>9. CASE UNCHANGED vars
  BY <1>9 DEF IInv, vars, SuccessorInv, Guarded, Pushed, UnderConstruction, Linked
<1> QED BY <1>1, <1>2, <1>3, <1>4, <1>5, <1>6, <1>7, <1>8, <1>9 DEF Next, Lock, Write, Unlocking

-----------------------------------------------------------------------------
(* The theorems *)

\* IInv holds in every reachable state.
THEOREM Inductive == Spec => []IInv
<1>1. Init => IInv
  BY InitInv
<1>2. IInv /\ [Next]_vars => IInv'
  <2> SUFFICES ASSUME IInv, [Next]_vars PROVE IInv'
    OBVIOUS
  <2>1. TypeOK'
    BY TypeStep DEF IInv
  <2> QED BY <2>1, GuardStep, WriterStep, OrderStep, LinkStep, WalkStep, DtorStep, RetiredStep,
             ShapeStep, CursorStep, SuccessorStep DEF IInv
<1> QED BY <1>1, <1>2, PTL DEF Spec

\* Every variable stays in its domain: no link of the list, the stack or an
\* iterator is anything but an address or nullptr.
THEOREM TypeCorrect == Spec => []TypeOK
<1>1. IInv => TypeOK
  BY DEF IInv
<1> QED BY <1>1, Inductive, PTL

\* While the list exists no iterator, of however many handles, points to memory
\* that has been freed: what cs_rcu_list.h promises its readers.
THEOREM IteratorSafety == Spec => []IteratorsValid
<1>1. IInv => IteratorsValid
  BY DEF IInv, CursorInv, IteratorsValid
<1> QED BY <1>1, Inductive, PTL

\* unlock() of any handle reads only records that are allocated, whatever the
\* other handles push and free while it walks.
THEOREM WalkerSafety == Spec => []WalkersValid
<1>1. IInv => WalkersValid
  <2> SUFFICES ASSUME IInv, NEW h \in Handles, scan[h] # NULL PROVE scan[h] \in zombieHeap
    BY DEF WalkersValid
  <2>1. pc[h] \in {"walk", "reap"} /\ scan[h] \in below[m_zombie[h]]
    BY DEF IInv, WalkInv, WalkOf
  <2> QED BY <2>1, PushedFacts DEF IInv, OrderInv, Entered, Pushed
<1> QED BY <1>1, Inductive, PTL

\* An erased node belongs to exactly one record until it is freed with it, so
\* it is freed once, by unlock() or by the destructor.
THEOREM FreedOnce == Spec => []RetiredOnce
<1>1. IInv => RetiredOnce
  BY DEF IInv
<1> QED BY <1>1, Inductive, PTL

\* Between two stores of the writer the list reads the same in both directions
\* and links no erased node.
THEOREM ShapeKept == Spec => []ListShape
<1>1. IInv => ListShape
  BY DEF IInv
<1> QED BY <1>1, Inductive, PTL

=============================================================================
