----------------------------- MODULE ActivateProofs -----------------------------
(***************************************************************************)
(* IInv is an inductive invariant of Activate, for any number of threads,  *)
(* senders, connections and nested activations, and what activate() does   *)
(* when a slot destroys its sender follows.                                *)
(***************************************************************************)
EXTENDS ActivateInv, SequenceTheorems, FiniteSetTheorems, WellFoundedInduction, TLAPS

\* A set of numbers that is not empty has a least one.
LEMMA Least ==
  ASSUME NEW T \in SUBSET Nat, T # {}
  PROVE  \E n \in T : \A m \in T : n <= m
<1> DEFINE R == OpToRel(<, Nat)
<1>1. IsWellFoundedOn(R, Nat)
  BY NatLessThanWellFounded
<1>2. PICK n \in T : \A m \in T : ~(<<m, n>> \in R)
  <2> HIDE DEF R
  <2> QED BY <1>1, WFMin
<1>3. \A m \in T : ~(m < n)
  BY <1>2 DEF OpToRel
<1> QED BY <1>3

\* What Without() computes from the first n elements.
IsRest(g, n, seq, E) ==
  g = [k \in 0 .. n |-> IF k = 0 THEN <<>>
                        ELSE IF seq[k] \in E THEN g[k - 1] ELSE Append(g[k - 1], seq[k])]

\* Each element is kept or left out.
KeepsOrNot(g, n, seq, E) ==
  /\ g[0] = <<>>
  /\ \A k \in 1 .. n : g[k] = IF seq[k] \in E THEN g[k - 1] ELSE Append(g[k - 1], seq[k])

\* That is what the recursion says.
LEMMA RestAt ==
  ASSUME NEW seq, NEW E, NEW n \in Nat, NEW g, IsRest(g, n, seq, E)
  PROVE  KeepsOrNot(g, n, seq, E)
<1>1. \A k \in 0 .. n : g[k] = IF k = 0 THEN <<>>
                               ELSE IF seq[k] \in E THEN g[k - 1] ELSE Append(g[k - 1], seq[k])
  BY DEF IsRest
<1> QED BY <1>1 DEF KeepsOrNot

\* Without() has such a function to choose.
LEMMA WithoutIs ==
  ASSUME NEW seq \in Seq(Conns), NEW E
  PROVE  \E rest : KeepsOrNot(rest, Len(seq), seq, E) /\ Without(seq, E) = rest[Len(seq)]
<1>a. Len(seq) \in Nat
  OBVIOUS
<1>1. \A n \in 0 .. Len(seq) : \E g : IsRest(g, n, seq, E)
  <2> DEFINE T == {n \in 0 .. Len(seq) : ~\E g : IsRest(g, n, seq, E)}
  <2> SUFFICES ASSUME T # {} PROVE FALSE
    OBVIOUS
  <2>0. T \in SUBSET Nat
    BY <1>a
  <2>1. PICK n \in T : \A m \in T : n <= m
    <3> HIDE DEF T
    <3> QED BY <2>0, Least
  <2>2. IsRest([k \in 0 .. 0 |-> <<>>], 0, seq, E)
    BY DEF IsRest
  <2>3. n # 0 /\ n \in 1 .. Len(seq) /\ n - 1 \in 0 .. Len(seq) /\ n - 1 \notin T
    BY <2>1, <2>2
  <2>4. PICK g : IsRest(g, n - 1, seq, E)
    BY <2>3
  <2> DEFINE h == [k \in 0 .. n |-> IF k < n THEN g[k]
                                    ELSE IF seq[n] \in E THEN g[n - 1] ELSE Append(g[n - 1], seq[n])]
  <2>5. \A k \in 0 .. n - 1 : h[k] = g[k]
    BY <2>3
  <2>6. \A k \in 0 .. n : h[k] = IF k = 0 THEN <<>>
                                ELSE IF seq[k] \in E THEN h[k - 1] ELSE Append(h[k - 1], seq[k])
    <3>0. n - 1 \in Nat
      BY <2>3
    <3>1. KeepsOrNot(g, n - 1, seq, E)
      BY <3>0, <2>4, RestAt
    <3>2. ASSUME NEW k \in 0 .. n - 1, k # 0 PROVE h[k - 1] = g[k - 1]
      BY <2>3, <2>5, <3>2
    <3>3. h[n] = IF seq[n] \in E THEN h[n - 1] ELSE Append(h[n - 1], seq[n])
      BY <2>3, <2>5
    <3> HIDE DEF h
    <3>4. \A k \in 1 .. n - 1 : h[k] = IF seq[k] \in E THEN h[k - 1] ELSE Append(h[k - 1], seq[k])
      BY <2>3, <2>5, <3>1, <3>2 DEF KeepsOrNot
    <3>5. h[0] = <<>>
      BY <2>3, <2>5, <3>1 DEF KeepsOrNot
    <3> QED BY <2>3, <3>3, <3>4, <3>5
  <2>7. IsRest(h, n, seq, E)
    BY <2>6 DEF IsRest
  <2> QED BY <2>1, <2>7
<1>2. PICK rest : IsRest(rest, Len(seq), seq, E) /\ Without(seq, E) = rest[Len(seq)]
  <2>1. Without(seq, E) = (CHOOSE g : IsRest(g, Len(seq), seq, E))[Len(seq)]
    BY DEF Without, IsRest
  <2>2. \E g : IsRest(g, Len(seq), seq, E)
    BY <1>a, <1>1
  <2> QED BY <2>1, <2>2
<1>b. KeepsOrNot(rest, Len(seq), seq, E)
  BY <1>a, <1>2, RestAt
<1> QED BY <1>2, <1>b

\* Erasing elements leaves a list of connections.
LEMMA WithoutTyped ==
  ASSUME NEW seq \in Seq(Conns), NEW E
  PROVE  Without(seq, E) \in Seq(Conns)
<1>a. Len(seq) \in Nat
  OBVIOUS
<1>2. PICK rest : KeepsOrNot(rest, Len(seq), seq, E) /\ Without(seq, E) = rest[Len(seq)]
  BY WithoutIs
<1>b. KeepsOrNot(rest, Len(seq), seq, E)
  BY <1>2
<1>3. \A k \in 0 .. Len(seq) : rest[k] \in Seq(Conns)
  <2> DEFINE T == {k \in 0 .. Len(seq) : rest[k] \notin Seq(Conns)}
  <2> SUFFICES ASSUME T # {} PROVE FALSE
    OBVIOUS
  <2>0. T \in SUBSET Nat
    BY <1>a
  <2>1. PICK n \in T : \A m \in T : n <= m
    <3> HIDE DEF T
    <3> QED BY <2>0, Least
  <2>2. n # 0
    BY <1>b, <2>1, EmptySeq DEF KeepsOrNot
  <2>3. n \in 1 .. Len(seq) /\ n - 1 \notin T /\ n - 1 \in 0 .. Len(seq)
    BY <2>1, <2>2
  <2>4. rest[n] = IF seq[n] \in E THEN rest[n - 1] ELSE Append(rest[n - 1], seq[n])
    BY <1>b, <2>3 DEF KeepsOrNot
  <2>5. rest[n - 1] \in Seq(Conns) /\ seq[n] \in Conns
    BY <2>3, ElementOfSeq
  <2>6. rest[n] \in Seq(Conns)
    BY <2>4, <2>5
  <2> QED BY <2>1, <2>6
<1> QED BY <1>a, <1>2, <1>3

-----------------------------------------------------------------------------
(* The stacks *)

ListsTyped ==
  /\ list \in [Senders -> Seq(Conns)]
  /\ conn \in [Conns -> {Blank} \cup [snd : Senders, sig : Signals, rcv : Receivers]]
  /\ erased \subseteq Conns
  /\ trail \in [Conns -> Conns \cup {NULL}]

StackTyped == stack \in [Threads -> Seq(Frame)] /\ \A t \in Threads : Len(stack[t]) <= MaxDepth

StateTyped ==
  /\ alive \subseteq Senders \cup Receivers
  /\ gen \in [Senders -> 0 .. MaxGen]
  /\ busy \in [Senders -> Nat]
  /\ beingDestroyed \subseteq Senders
  /\ mutex \in Threads \cup {NULL}
  /\ currentSender \in [Threads -> Senders \cup {NULL}]
  /\ currentSignal \in [Threads -> 0 .. MaxDepth]

\* Together they are TypeOK.
LEMMA TypeGroups == TypeOK <=> ListsTyped /\ StackTyped /\ StateTyped
BY DEF TypeOK, ListsTyped, StackTyped, StateTyped

\* operator++ comes to a connection or to the end.
LEMMA FollowTyped ==
  ASSUME ListsTyped, NEW c
  PROVE  Follow(c) \in Conns \cup {NULL}
<1>1. \A seq : After(c, seq) \in Conns \cup {NULL}
  BY DEF After
<1> QED BY <1>1 DEF Follow, ListsTyped

\* The first connection of a list, if it has one.
LEMMA FirstTyped ==
  ASSUME NEW seq \in Seq(Conns)
  PROVE  First(seq) \in Conns \cup {NULL}
<1>1. seq # <<>> => 1 \in 1 .. Len(seq)
  BY EmptySeq
<1> QED BY <1>1, ElementOfSeq DEF First

\* What is known of the stacks.
Frames ==
  \A t \in Threads :
    /\ Depth(t) \in Nat /\ Depth(t) <= MaxDepth /\ DOMAIN stack[t] = 1 .. Depth(t)
    /\ \A i \in 1 .. Depth(t) : stack[t][i] \in Frame
    /\ stack[t] = <<>> <=> Depth(t) = 0

LEMMA StackTypedFrames ==
  ASSUME NEW st \in [Threads -> Seq(Frame)], NEW t \in Threads
  PROVE  /\ Len(st[t]) \in Nat /\ DOMAIN st[t] = 1 .. Len(st[t])
         /\ \A i \in 1 .. Len(st[t]) : st[t][i] \in Frame
         /\ st[t] = <<>> <=> Len(st[t]) = 0
<1>1. st[t] \in Seq(Frame)
  OBVIOUS
<1> QED BY <1>1, ElementOfSeq, LenProperties, EmptySeq

LEMMA FramesTyped == StackTyped => Frames
BY StackTypedFrames DEF StackTyped, Frames, Depth

LEMMA FramesTypedNext == StackTyped' => Frames'
BY StackTypedFrames DEF StackTyped, Frames, Depth

\* The newest activation of a thread is now at p, and old_activateBusy is n.
Moved(t, p, n) ==
  /\ Depth(t) > 0
  /\ \A u \in Threads : Depth(u)' = Depth(u)
  /\ \A u \in Threads : \A i \in 1 .. Depth(u) :
       u # t \/ i # Depth(t) => stack'[u][i] = stack[u][i]
  /\ LET f == stack[t][Depth(t)]
         g == stack'[t][Depth(t)]
     IN /\ g.snd = f.snd /\ g.gen = f.gen /\ g.at = p /\ g.old = n
        /\ g.priorSender = f.priorSender /\ g.priorSignal = f.priorSignal

\* A step of activate() changes the newest activation.
LEMMA GotoMoves ==
  ASSUME StackTyped, NEW t \in Threads, stack[t] # <<>>, NEW f \in Frame, Goto(t, f),
         f.snd = Top(t).snd, f.gen = Top(t).gen,
         f.priorSender = Top(t).priorSender, f.priorSignal = Top(t).priorSignal
  PROVE  StackTyped' /\ Moved(t, f.at, f.old)
<1>1. /\ Depth(t) \in 1 .. Len(stack[t]) /\ stack[t] \in Seq(Frame) /\ Depth(t) > 0
      /\ stack' = [stack EXCEPT ![t] = [@ EXCEPT ![Depth(t)] = f]]
  BY FramesTyped DEF Goto, StackTyped, Depth, Frames
<1>2. LET q == [stack[t] EXCEPT ![Depth(t)] = f] IN
        /\ q \in Seq(Frame) /\ Len(q) = Len(stack[t])
        /\ \A i \in 1 .. Len(stack[t]) : q[i] = IF i = Depth(t) THEN f ELSE stack[t][i]
  BY <1>1, ExceptSeq
<1>3. /\ stack'[t] \in Seq(Frame) /\ Len(stack'[t]) = Len(stack[t])
      /\ \A i \in 1 .. Len(stack[t]) : stack'[t][i] = IF i = Depth(t) THEN f ELSE stack[t][i]
  BY <1>1, <1>2 DEF StackTyped
<1>4. \A u \in Threads \ {t} : stack'[u] = stack[u]
  BY <1>1 DEF StackTyped
<1>5. stack' \in [Threads -> Seq(Frame)]
  BY <1>1, <1>2 DEF StackTyped
<1>6. \A u \in Threads : Len(stack'[u]) = Len(stack[u])
  BY <1>3, <1>4
<1>7. StackTyped'
  BY <1>5, <1>6 DEF StackTyped
<1>8. \A u \in Threads : Depth(u)' = Depth(u)
  BY <1>6 DEF Depth
<1>9. stack'[t][Depth(t)] = f /\ Top(t) = stack[t][Depth(t)]
  BY <1>1, <1>3 DEF Top
<1>10. ASSUME NEW u \in Threads, NEW i \in 1 .. Depth(u), u # t \/ i # Depth(t)
       PROVE  stack'[u][i] = stack[u][i]
  <2>1. CASE u = t
    BY <1>3, <1>10, <2>1 DEF Depth
  <2>2. CASE u # t
    BY <1>4, <2>2
  <2> QED BY <2>1, <2>2
<1> QED BY <1>1, <1>7, <1>8, <1>9, <1>10 DEF Moved

\* It is gone.
Popped(t) ==
  /\ Depth(t) > 0
  /\ \A u \in Threads : Depth(u)' = IF u = t THEN Depth(u) - 1 ELSE Depth(u)
  /\ \A u \in Threads : \A i \in 1 .. Depth(u)' : stack'[u][i] = stack[u][i]

\* A thread without its newest activation.
LEMMA PopShrinks ==
  ASSUME StackTyped, NEW t \in Threads, stack[t] # <<>>, stack' = [stack EXCEPT ![t] = Front(@)]
  PROVE  StackTyped' /\ Popped(t)
<1>1. /\ Depth(t) \in 1 .. Len(stack[t]) /\ stack[t] \in Seq(Frame) /\ Len(stack[t]) = Depth(t)
      /\ \A i \in 1 .. Depth(t) - 1 : stack[t][i] \in Frame
  BY FramesTyped DEF StackTyped, Depth, Frames
<1> DEFINE q == SubSeq(stack[t], 1, Depth(t) - 1)
<1>2. q \in Seq(Frame) /\ Len(q) = Depth(t) - 1 /\ \A i \in 1 .. Depth(t) - 1 : q[i] = stack[t][i]
  BY <1>1, SubSeqProperties
<1>3. stack' = [stack EXCEPT ![t] = q]
  BY <1>1 DEF Front
<1> HIDE DEF q
<1>4. stack' \in [Threads -> Seq(Frame)] /\ stack'[t] = q /\ \A u \in Threads \ {t} : stack'[u] = stack[u]
  BY <1>2, <1>3 DEF StackTyped
<1>5. \A u \in Threads : Len(stack'[u]) <= MaxDepth
  BY <1>1, <1>2, <1>4, BoundAssumption DEF StackTyped
<1>6. \A u \in Threads : Depth(u)' = IF u = t THEN Depth(u) - 1 ELSE Depth(u)
  BY <1>2, <1>4 DEF Depth
<1>7. ASSUME NEW u \in Threads, NEW i \in 1 .. Depth(u)' PROVE stack'[u][i] = stack[u][i]
  BY <1>2, <1>4, <1>6
<1> QED BY <1>1, <1>4, <1>5, <1>6, <1>7 DEF StackTyped, Popped

\* f is on top.
Pushed(t, f) ==
  /\ \A u \in Threads : Depth(u)' = IF u = t THEN Depth(u) + 1 ELSE Depth(u)
  /\ \A u \in Threads : \A i \in 1 .. Depth(u) : stack'[u][i] = stack[u][i]
  /\ stack'[t][Depth(t) + 1] = f

\* activate() begins.
LEMMA PushGrows ==
  ASSUME StackTyped, NEW t \in Threads, Depth(t) < MaxDepth, NEW f \in Frame,
         stack' = [stack EXCEPT ![t] = Append(@, f)]
  PROVE  StackTyped' /\ Pushed(t, f)
<1>1. stack[t] \in Seq(Frame) /\ Len(stack[t]) = Depth(t) /\ Depth(t) \in Nat
  BY FramesTyped DEF StackTyped, Depth, Frames
<1> DEFINE q == Append(stack[t], f)
<1>2. /\ q \in Seq(Frame) /\ Len(q) = Depth(t) + 1
      /\ \A i \in 1 .. Depth(t) : q[i] = stack[t][i]
      /\ q[Depth(t) + 1] = f
  BY <1>1, AppendProperties
<1>3. stack' = [stack EXCEPT ![t] = q]
  OBVIOUS
<1> HIDE DEF q
<1>4. stack' \in [Threads -> Seq(Frame)] /\ stack'[t] = q /\ \A u \in Threads \ {t} : stack'[u] = stack[u]
  BY <1>2, <1>3 DEF StackTyped
<1>5. \A u \in Threads : Len(stack'[u]) <= MaxDepth
  BY <1>1, <1>2, <1>4, BoundAssumption DEF StackTyped
<1>6. \A u \in Threads : Depth(u)' = IF u = t THEN Depth(u) + 1 ELSE Depth(u)
  BY <1>2, <1>4 DEF Depth
<1>7. ASSUME NEW u \in Threads, NEW i \in 1 .. Depth(u) PROVE stack'[u][i] = stack[u][i]
  BY <1>2, <1>4
<1> QED BY <1>2, <1>4, <1>5, <1>6, <1>7 DEF StackTyped, Pushed

\* Two states of an activation that differ, at most, in its history and in where
\* its loop stands.
Same(f, g) ==
  /\ f.snd = g.snd /\ f.gen = g.gen /\ f.at = g.at /\ f.old = g.old
  /\ f.priorSender = g.priorSender /\ f.priorSignal = g.priorSignal

Kept ==
  /\ \A u \in Threads : Depth(u)' = Depth(u)
  /\ \A u \in Threads : \A i \in 1 .. Depth(u) : Same(stack'[u][i], stack[u][i])

\* connect() and erase() note in the history what they do.
LEMMA HistoryKept ==
  ASSUME StackTyped,
         stack' = [u \in Threads |-> [i \in DOMAIN stack[u] |-> stack'[u][i]]],
         \A u \in Threads : \A i \in DOMAIN stack[u] :
           stack'[u][i] \in Frame /\ Same(stack'[u][i], stack[u][i])
  PROVE  StackTyped' /\ Kept
<1>1. \A u \in Threads : Depth(u) \in Nat /\ DOMAIN stack[u] = 1 .. Depth(u) /\ Depth(u) <= MaxDepth
  BY FramesTyped DEF Frames
<1>2. ASSUME NEW u \in Threads
      PROVE  stack'[u] \in Seq(Frame) /\ Len(stack'[u]) = Depth(u)
  <2>1. stack'[u] = [i \in 1 .. Depth(u) |-> stack'[u][i]]
    BY <1>1
  <2> QED BY <1>1, <2>1
<1>3. stack' = [u \in Threads |-> stack'[u]]
  OBVIOUS
<1>4. StackTyped'
  BY <1>1, <1>2, <1>3 DEF StackTyped
<1>5. \A u \in Threads : Depth(u)' = Depth(u)
  BY <1>2 DEF Depth
<1> QED BY <1>1, <1>4, <1>5 DEF Kept

-----------------------------------------------------------------------------
(* What the steps of activate() have in common *)

\* What does not depend on the point and on old_activateBusy.
LEMMA MovedKeeps ==
  ASSUME Frames, Frames', Nested, OneThread, SameObject, PriorShape,
         NEW t \in Threads, NEW p, NEW n, Moved(t, p, n), UNCHANGED <<alive, gen>>
  PROVE  Nested' /\ OneThread' /\ SameObject' /\ PriorShape'
<1>1. \A u \in Threads : \A i \in 1 .. Depth(u) :
        /\ stack'[u][i].snd = stack[u][i].snd /\ stack'[u][i].gen = stack[u][i].gen
        /\ stack'[u][i].priorSender = stack[u][i].priorSender
        /\ stack'[u][i].priorSignal = stack[u][i].priorSignal
        /\ i # Depth(u) => stack'[u][i].at = stack[u][i].at
  BY DEF Moved, Frames
<1>2. \A u \in Threads : Depth(u) \in Nat /\ Depth(u)' = Depth(u)
                         /\ DOMAIN stack[u] = 1 .. Depth(u) /\ DOMAIN stack'[u] = 1 .. Depth(u)
  BY DEF Moved, Frames
<1>3. Nested'
  <2>1. SUFFICES ASSUME NEW u \in Threads, NEW i \in 1 .. Depth(u) - 1
                 PROVE  stack'[u][i].at = "slot"
    BY <1>2 DEF Nested
  <2>2. i \in 1 .. Depth(u) /\ i # Depth(u)
    BY <1>2
  <2> QED BY <1>1, <2>1, <2>2 DEF Nested
<1>4. OneThread'
  <2>1. SUFFICES ASSUME NEW u \in Threads, NEW v \in Threads, NEW i \in 1 .. Depth(u), NEW j \in 1 .. Depth(v),
                        stack'[u][i].snd = stack'[v][j].snd
                 PROVE  u = v
    BY <1>2 DEF OneThread
  <2>2. stack[u][i].snd = stack[v][j].snd
    BY <1>1, <2>1
  <2> QED BY <2>2 DEF OneThread
<1>5. SameObject'
  BY <1>1, <1>2 DEF SameObject
<1>6. PriorShape'
  <2>1. SUFFICES ASSUME NEW u \in Threads, NEW i \in 1 .. Depth(u)
                 PROVE  /\ stack'[u][i].priorSender = IF i = 1 THEN NULL ELSE stack'[u][i - 1].snd
                        /\ stack'[u][i].priorSignal < i
    BY <1>2 DEF PriorShape
  <2>2. i # 1 => stack'[u][i - 1].snd = stack[u][i - 1].snd
    BY <1>1, <1>2
  <2> QED BY <1>1, <2>1, <2>2 DEF PriorShape
<1> QED BY <1>3, <1>4, <1>5, <1>6

LEMMA MovedOld ==
  ASSUME Frames, Frames', OldShape,
         NEW t \in Threads, NEW p, NEW n, Moved(t, p, n),
         \/ p \in {"loop", "storing"}
         \/ n = Top(t).old /\ Top(t).at \notin {"loop", "storing"}
         \/ n = 0 <=> \A j \in 1 .. Depth(t) - 1 : stack[t][j].snd # Top(t).snd
  PROVE  OldShape'
<1>1. \A u \in Threads : Depth(u) \in Nat /\ Depth(u)' = Depth(u)
  BY DEF Moved, Frames
<1>2. \A u \in Threads : \A i \in 1 .. Depth(u) : stack'[u][i].snd = stack[u][i].snd
  BY DEF Moved, Frames
<1>3. SUFFICES ASSUME NEW u \in Threads, NEW i \in 1 .. Depth(u),
                      stack'[u][i].at \notin {"loop", "storing"}
               PROVE  stack'[u][i].old = 0 <=> \A j \in 1 .. i - 1 : stack'[u][j].snd # stack'[u][i].snd
  BY <1>1 DEF OldShape
<1>4. \A j \in 1 .. i - 1 : stack'[u][j].snd = stack[u][j].snd
  BY <1>1, <1>2
<1>5. stack'[u][i].snd = stack[u][i].snd
  BY <1>2
<1>6. stack'[u][i].old = 0 <=> \A j \in 1 .. i - 1 : stack[u][j].snd # stack[u][i].snd
  <2>1. CASE u # t \/ i # Depth(t)
    BY <1>1, <1>3, <2>1 DEF Moved, OldShape
  <2>2. CASE u = t /\ i = Depth(t)
    BY <1>1, <1>3, <2>2 DEF Moved, OldShape, Top
  <2> QED BY <2>1, <2>2
<1> QED BY <1>4, <1>5, <1>6

LEMMA MovedMarked ==
  ASSUME Frames, Frames', Marked,
         NEW t \in Threads, NEW p, NEW n, Moved(t, p, n), UNCHANGED <<alive, beingDestroyed>>,
         Top(t).snd \in alive \/ p \in {"slot", "check", "catch"}
  PROVE  Marked'
BY DEF Marked, Moved, Frames, Top

LEMMA MovedDrained ==
  ASSUME Frames, Frames', Drained,
         NEW t \in Threads, NEW p, NEW n, Moved(t, p, n), UNCHANGED <<alive, beingDestroyed>>,
         Top(t).snd \in alive \/ n = Top(t).old
  PROVE  Drained'
<1>1. SUFFICES ASSUME NEW s \in beingDestroyed
               PROVE  \E u \in Threads : \E i \in 1 .. Depth(u)' :
                        stack'[u][i].snd = s /\ stack'[u][i].old = 0
  BY DEF Drained
<1>2. PICK u \in Threads : \E i \in 1 .. Depth(u) : stack[u][i].snd = s /\ stack[u][i].old = 0
  BY DEF Drained
<1>a. PICK i \in 1 .. Depth(u) : stack[u][i].snd = s /\ stack[u][i].old = 0
  BY <1>2
<1>3. s \notin alive
  BY DEF Drained
<1>4. i \in 1 .. Depth(u)'
  BY <1>a DEF Moved, Frames
<1>5. stack'[u][i].snd = s /\ stack'[u][i].old = 0
  BY <1>a, <1>3 DEF Moved, Frames, Top
<1> QED BY <1>4, <1>5

\* The other threads are where they were.
LEMMA MovedLocks ==
  ASSUME Frames, Frames', HandlerLocks,
         NEW t \in Threads, NEW p, NEW n, Moved(t, p, n),
         \/ mutex' = t /\ mutex = NULL
         \/ mutex' = mutex /\ p # "handler"
         \/ mutex' = NULL /\ mutex = t /\ p # "handler"
  PROVE  HandlerLocks'
<1>1. NULL \notin Threads
  BY ObjectAssumption
<1> QED BY <1>1 DEF HandlerLocks, Moved, Frames, At, Top

LEMMA MovedCurrent ==
  ASSUME Frames, Frames', CurrentRestored,
         NEW t \in Threads, NEW p, NEW n, Moved(t, p, n),
         \A u \in Threads \ {t} : currentSender'[u] = currentSender[u]
                                  /\ currentSignal'[u] = currentSignal[u],
         currentSignal'[t] <= Depth(t),
         p \in {"catch", "handler"} \/ currentSender'[t] = Top(t).snd
  PROVE  CurrentRestored'
BY DEF CurrentRestored, Moved, Frames, Top

LEMMA MovedCounted ==
  ASSUME Frames, Frames', Nested, OneThread, Counted,
         NEW t \in Threads, NEW p, NEW n, Moved(t, p, n), UNCHANGED alive,
         \A s \in Senders \ {Top(t).snd} : busy'[s] = busy[s],
         p \notin {"store", "storing"} \/ n = busy'[Top(t).snd]
  PROVE  Counted'
<1>1. SUFFICES ASSUME NEW u \in Threads, NEW i \in 1 .. Depth(u)', stack'[u][i].snd \in alive,
                      stack'[u][i].at \in {"store", "storing"}
               PROVE  stack'[u][i].old = busy'[stack'[u][i].snd]
  BY DEF Counted
<1>2. i \in 1 .. Depth(u) /\ Depth(t) \in 1 .. Depth(t)
  BY <1>1 DEF Moved, Frames
<1>3. CASE u = t /\ i = Depth(t)
  BY <1>1, <1>3 DEF Moved, Top
<1>4. CASE u # t \/ i # Depth(t)
  <2>1. stack'[u][i] = stack[u][i] /\ stack[u][i] \in Frame
    BY <1>2, <1>4 DEF Moved, Frames
  <2>2. u # t
    BY <1>1, <1>2, <1>4, <2>1 DEF Nested, Frames
  <2>3. stack[u][i].snd # Top(t).snd
    BY <1>2, <2>2 DEF OneThread, Top
  <2>4. stack[u][i].snd \in Senders
    BY <2>1 DEF Frame
  <2> QED BY <1>1, <1>2, <2>1, <2>3, <2>4 DEF Counted
<1> QED BY <1>3, <1>4

-----------------------------------------------------------------------------
(* m_activateBusy *)

\* The activation i of thread u is at a slot, and its sender s exists.
Inside(u, i, s) ==
  /\ i \in 1 .. Depth(u)
  /\ LET f == stack[u][i] IN f.snd = s /\ Intact(f) /\ f.at \notin {"loop", "store"}

LEMMA DeliveringInside ==
  Frames => \A s : Delivering(s) = {p \in Threads \X (1 .. MaxDepth) : Inside(p[1], p[2], s)}
BY DEF Delivering, Inside, Frames

LEMMA DeliveringInsideNext ==
  Frames' => \A s : Delivering(s)' = {p \in Threads \X (1 .. MaxDepth) : Inside(p[1], p[2], s)'}
BY DEF Delivering, Inside, Frames

LEMMA DeliveringFinite == Frames => \A s : IsFiniteSet(Delivering(s))
<1>1. IsFiniteSet(Threads) /\ MaxDepth \in Nat
  BY ObjectAssumption, BoundAssumption
<1>2. IsFiniteSet(1 .. MaxDepth)
  BY <1>1, FS_Interval
<1>3. IsFiniteSet(Threads \X (1 .. MaxDepth))
  BY <1>1, <1>2, FS_Product
<1> QED BY <1>3, FS_Subset, DeliveringInside

\* A slot begins.
LEMMA OneMore ==
  ASSUME Frames, Frames', NEW s, NEW t \in Threads, NEW k \in 1 .. MaxDepth, ~Inside(t, k, s),
         \A u \in Threads : \A i \in 1 .. MaxDepth :
           Inside(u, i, s)' <=> Inside(u, i, s) \/ (u = t /\ i = k)
  PROVE  Cardinality(Delivering(s)') = Cardinality(Delivering(s)) + 1
<1>1. Delivering(s)' = Delivering(s) \cup {<<t, k>>}
  <2> DEFINE P == Threads \X (1 .. MaxDepth)
  <2>1. ASSUME NEW p \in P PROVE Inside(p[1], p[2], s)' <=> Inside(p[1], p[2], s) \/ p = <<t, k>>
    OBVIOUS
  <2>2. <<t, k>> \in P
    OBVIOUS
  <2> QED BY <2>1, <2>2, DeliveringInside, DeliveringInsideNext
<1>2. <<t, k>> \notin Delivering(s)
  BY DeliveringInside
<1> QED BY <1>1, <1>2, DeliveringFinite, FS_AddElement

\* It ends.
LEMMA OneLess ==
  ASSUME Frames, Frames', NEW s, NEW t \in Threads, NEW k \in 1 .. MaxDepth, Inside(t, k, s),
         \A u \in Threads : \A i \in 1 .. MaxDepth :
           Inside(u, i, s)' <=> Inside(u, i, s) /\ ~(u = t /\ i = k)
  PROVE  /\ Cardinality(Delivering(s)') = Cardinality(Delivering(s)) - 1
         /\ Cardinality(Delivering(s)') \in Nat
<1>1. Delivering(s)' = Delivering(s) \ {<<t, k>>}
  <2> DEFINE P == Threads \X (1 .. MaxDepth)
  <2>1. ASSUME NEW p \in P PROVE Inside(p[1], p[2], s)' <=> Inside(p[1], p[2], s) /\ p # <<t, k>>
    OBVIOUS
  <2> QED BY <2>1, DeliveringInside, DeliveringInsideNext
<1>2. <<t, k>> \in Delivering(s)
  BY DeliveringInside
<1>3. IsFiniteSet(Delivering(s)) /\ IsFiniteSet(Delivering(s)')
  BY <1>1, DeliveringFinite, FS_RemoveElement
<1> QED BY <1>1, <1>2, <1>3, FS_RemoveElement, FS_CardinalityType

LEMMA SameDelivering ==
  ASSUME Frames, Frames', NEW s,
         \A u \in Threads : \A i \in 1 .. MaxDepth : Inside(u, i, s)' <=> Inside(u, i, s)
  PROVE  Delivering(s)' = Delivering(s)
<1>1. \A p \in Threads \X (1 .. MaxDepth) : Inside(p[1], p[2], s)' <=> Inside(p[1], p[2], s)
  OBVIOUS
<1> QED BY <1>1, DeliveringInside, DeliveringInsideNext

LEMMA BusyKept ==
  ASSUME Frames, Frames', BusyCount,
         \A s \in Senders \cap alive' :
           /\ s \in alive /\ busy'[s] = busy[s]
           /\ \A u \in Threads : \A i \in 1 .. MaxDepth : Inside(u, i, s)' <=> Inside(u, i, s)
  PROVE  BusyCount'
<1>1. \A s \in Senders \cap alive' : Delivering(s)' = Delivering(s)
  BY SameDelivering
<1> QED BY <1>1 DEF BusyCount

\* The counter of a sender that exists is 0 when none of its activations is at a slot.
LEMMA BusyZero ==
  ASSUME Frames, BusyCount, NEW s \in Senders \cap alive
  PROVE  busy[s] = 0 <=> \A u \in Threads : \A i \in 1 .. Depth(u) : ~Inside(u, i, s)
<1>1. busy[s] = 0 <=> Delivering(s) = {}
  BY DeliveringFinite, FS_EmptySet DEF BusyCount
<1>2. Delivering(s) = {} <=> \A u \in Threads : \A i \in 1 .. MaxDepth : ~Inside(u, i, s)
  <2>1. ASSUME NEW u \in Threads, NEW i \in 1 .. MaxDepth PROVE Inside(u, i, s) => <<u, i>> \in Delivering(s)
    BY DeliveringInside
  <2>2. ASSUME NEW p \in Delivering(s)
        PROVE  p[1] \in Threads /\ p[2] \in 1 .. MaxDepth /\ Inside(p[1], p[2], s)
    BY DeliveringInside
  <2> QED BY <2>1, <2>2
<1>3. \A u \in Threads : \A i \in 1 .. MaxDepth : Inside(u, i, s) => i \in 1 .. Depth(u)
  BY DEF Inside
<1>4. \A u \in Threads : \A i \in 1 .. Depth(u) : i \in 1 .. MaxDepth
  BY BoundAssumption DEF Frames
<1> QED BY <1>1, <1>2, <1>3, <1>4

LEMMA MovedBusy ==
  ASSUME Frames, Frames', BusyCount,
         NEW t \in Threads, NEW p, NEW n, Moved(t, p, n), UNCHANGED <<alive, gen, busy>>,
         p \in {"loop", "store"} <=> Top(t).at \in {"loop", "store"}
  PROVE  BusyCount'
<1>1. ASSUME NEW s, NEW u \in Threads, NEW i \in 1 .. Depth(u)
      PROVE  Inside(u, i, s)' <=> Inside(u, i, s)
  <2>1. i \in 1 .. Depth(u)'
    BY DEF Moved
  <2>2. stack'[u][i].snd = stack[u][i].snd /\ Intact(stack[u][i])' = Intact(stack[u][i])
    BY DEF Moved, Intact, Frames
  <2>3. stack'[u][i].at \in {"loop", "store"} <=> stack[u][i].at \in {"loop", "store"}
    BY DEF Moved, Top
  <2> QED BY <2>1, <2>2, <2>3 DEF Inside
<1>2. \A s : \A u \in Threads : \A i \in 1 .. MaxDepth : Inside(u, i, s)' <=> Inside(u, i, s)
  BY <1>1 DEF Inside, Moved
<1> QED BY <1>2, BusyKept

-----------------------------------------------------------------------------
(* The steps *)

\* IInv without TypeOK.
Shape == /\ Nested /\ OneThread /\ SameObject /\ HandlerLocks /\ OldShape /\ Counted
         /\ BusyCount /\ Marked /\ Drained /\ PriorShape /\ CurrentRestored

LEMMA InvGroups == IInv <=> ListsTyped /\ StackTyped /\ StateTyped /\ Shape
BY TypeGroups DEF IInv, Shape

\* Steps that only change lists, history and receivers.
LEMMA QuietStep ==
  ASSUME Frames, Frames', Shape, StateTyped, Kept, Senders \cap alive' = Senders \cap alive,
         UNCHANGED <<gen, busy, beingDestroyed, mutex, currentSender, currentSignal>>
  PROVE  Shape'
<1>1. \A u \in Threads : Depth(u) \in Nat /\ Depth(u)' = Depth(u) /\ Depth(u) <= MaxDepth
  BY DEF Kept, Frames
<1>2. \A u \in Threads : \A i \in 1 .. Depth(u) : Same(stack'[u][i], stack[u][i])
  BY DEF Kept
<1>3. \A u \in Threads : \A i \in 1 .. Depth(u) :
        stack[u][i].snd \in Senders /\ (stack[u][i].snd \in alive' <=> stack[u][i].snd \in alive)
  BY DEF Frames, Frame
<1>4. Nested'
  BY <1>1, <1>2 DEF Nested, Same, Shape
<1>5. OneThread'
  <2>1. SUFFICES ASSUME NEW u \in Threads, NEW v \in Threads, NEW i \in 1 .. Depth(u), NEW j \in 1 .. Depth(v),
                        stack'[u][i].snd = stack'[v][j].snd
                 PROVE  u = v
    BY <1>1 DEF OneThread
  <2>2. stack[u][i].snd = stack[v][j].snd
    BY <1>2, <2>1 DEF Same
  <2> QED BY <2>2 DEF OneThread, Shape
<1>6. SameObject'
  BY <1>1, <1>2, <1>3 DEF SameObject, Same, Shape
<1>7. HandlerLocks'
  BY <1>1, <1>2 DEF HandlerLocks, At, Top, Frames, Same, Shape
<1>8. OldShape'
  <2>1. SUFFICES ASSUME NEW u \in Threads, NEW i \in 1 .. Depth(u), stack'[u][i].at \notin {"loop", "storing"}
                 PROVE  stack'[u][i].old = 0 <=> \A j \in 1 .. i - 1 : stack'[u][j].snd # stack'[u][i].snd
    BY <1>1 DEF OldShape
  <2>2. \A j \in 1 .. i - 1 : stack'[u][j].snd = stack[u][j].snd
    BY <1>1, <1>2 DEF Same
  <2>3. Same(stack'[u][i], stack[u][i])
    BY <1>2
  <2>4. stack[u][i].old = 0 <=> \A j \in 1 .. i - 1 : stack[u][j].snd # stack[u][i].snd
    BY <2>1, <2>3 DEF OldShape, Shape, Same
  <2> QED BY <2>2, <2>3, <2>4 DEF Same
<1>9. Counted'
  BY <1>1, <1>2, <1>3 DEF Counted, Same, Shape
<1>10. BusyCount'
  <2>1. ASSUME NEW s \in Senders, NEW u \in Threads, NEW i \in 1 .. Depth(u)
        PROVE  Inside(u, i, s)' <=> Inside(u, i, s)
    BY <1>1, <1>2, <1>3 DEF Inside, Intact, Same
  <2>2. \A s \in Senders : \A u \in Threads : \A i \in 1 .. MaxDepth : Inside(u, i, s)' <=> Inside(u, i, s)
    BY <1>1, <2>1 DEF Inside
  <2> QED BY <2>2, BusyKept DEF Shape
<1>11. Marked'
  BY <1>1, <1>2, <1>3 DEF Marked, Same, Shape
<1>12. Drained'
  BY <1>1, <1>2 DEF Drained, Same, Shape, StateTyped
<1>13. PriorShape'
  <2>1. SUFFICES ASSUME NEW u \in Threads, NEW i \in 1 .. Depth(u)
                 PROVE  /\ stack'[u][i].priorSender = IF i = 1 THEN NULL ELSE stack'[u][i - 1].snd
                        /\ stack'[u][i].priorSignal < i
    BY <1>1 DEF PriorShape
  <2>2. i # 1 => stack'[u][i - 1].snd = stack[u][i - 1].snd
    BY <1>1, <1>2 DEF Same
  <2> QED BY <1>2, <2>1, <2>2 DEF PriorShape, Same, Shape
<1>14. CurrentRestored'
  BY <1>1, <1>2 DEF CurrentRestored, Top, Frames, Same, Shape
<1> QED BY <1>4, <1>5, <1>6, <1>7, <1>8, <1>9, <1>10, <1>11, <1>12, <1>13, <1>14 DEF Shape

\* activate() ends: the lists are not touched any more.
LEMMA PopStep ==
  ASSUME Frames, Frames', Shape, StateTyped, NEW t \in Threads, Popped(t), RestoreCurrent(t),
         UNCHANGED <<alive, gen, busy, mutex>>,
         ~\E s \in Senders \cap alive : Inside(t, Depth(t), s),
         \/ UNCHANGED beingDestroyed /\ (Top(t).snd \in alive \/ Top(t).old # 0)
         \/ /\ beingDestroyed' = beingDestroyed \ {Top(t).snd}
            /\ \A j \in 1 .. Depth(t) - 1 : stack[t][j].snd # Top(t).snd
  PROVE  Shape'
<1>1. \A u \in Threads : Depth(u) \in Nat /\ Depth(u) <= MaxDepth
                         /\ Depth(u)' = IF u = t THEN Depth(u) - 1 ELSE Depth(u)
  BY DEF Popped, Frames
<1>2. \A u \in Threads : \A i \in 1 .. Depth(u)' : i \in 1 .. Depth(u) /\ stack'[u][i] = stack[u][i]
  BY <1>1 DEF Popped
<1>3. Depth(t) > 0 /\ Top(t) = stack[t][Depth(t)] /\ Depth(t) \in 1 .. Depth(t)
  BY <1>1 DEF Popped, Top
<1>4. Nested'
  BY <1>1, <1>2 DEF Nested, Shape
<1>5. OneThread'
  BY <1>2 DEF OneThread, Shape
<1>6. SameObject'
  BY <1>2 DEF SameObject, Shape
<1>7. HandlerLocks'
  <2>1. SUFFICES ASSUME NEW u \in Threads, At(u, "handler")' PROVE mutex = u
    BY DEF HandlerLocks
  <2>2. Depth(u)' \in 1 .. Depth(u)' /\ stack[u][Depth(u)'].at = "handler"
    BY <1>1, <1>2, <2>1 DEF At, Top, Frames
  <2>3. u # t
    BY <1>1, <1>2, <2>2 DEF Nested, Shape
  <2> QED BY <1>1, <1>2, <2>2, <2>3 DEF HandlerLocks, At, Top, Frames, Shape
<1>8. OldShape'
  <2>1. SUFFICES ASSUME NEW u \in Threads, NEW i \in 1 .. Depth(u)', stack'[u][i].at \notin {"loop", "storing"}
                 PROVE  stack'[u][i].old = 0 <=> \A j \in 1 .. i - 1 : stack'[u][j].snd # stack'[u][i].snd
    BY DEF OldShape
  <2>2. \A j \in 1 .. i - 1 : stack'[u][j].snd = stack[u][j].snd
    BY <1>1, <1>2
  <2>3. stack'[u][i] = stack[u][i] /\ i \in 1 .. Depth(u)
    BY <1>2
  <2>4. stack[u][i].old = 0 <=> \A j \in 1 .. i - 1 : stack[u][j].snd # stack[u][i].snd
    BY <2>1, <2>3 DEF OldShape, Shape
  <2> QED BY <2>2, <2>3, <2>4
<1>9. Counted'
  BY <1>2 DEF Counted, Shape
<1>10. BusyCount'
  <2>1. ASSUME NEW s \in Senders \cap alive, NEW u \in Threads, NEW i \in 1 .. MaxDepth
        PROVE  Inside(u, i, s)' <=> Inside(u, i, s)
    <3>1. CASE i \in 1 .. Depth(u)'
      BY <1>2, <3>1 DEF Inside, Intact
    <3>2. CASE i \notin 1 .. Depth(u)' /\ u = t /\ i = Depth(t)
      BY <3>2 DEF Inside
    <3>3. CASE i \notin 1 .. Depth(u)
      BY <1>2, <3>3 DEF Inside
    <3> QED BY <1>1, <3>1, <3>2, <3>3
  <2> QED BY <2>1, BusyKept DEF Shape
<1>11. Marked'
  <2>1. SUFFICES ASSUME NEW u \in Threads, NEW i \in 1 .. Depth(u)', stack[u][i].snd \notin alive
                 PROVE  stack[u][i].snd \in beingDestroyed' /\ stack[u][i].at \in {"slot", "check", "catch"}
    BY <1>2 DEF Marked
  <2>2. stack[u][i].snd \in beingDestroyed /\ stack[u][i].at \in {"slot", "check", "catch"}
    BY <1>2, <2>1 DEF Marked, Shape
  <2>3. CASE UNCHANGED beingDestroyed
    BY <2>2, <2>3
  <2>4. CASE \A j \in 1 .. Depth(t) - 1 : stack[t][j].snd # Top(t).snd
    <3>1. stack[u][i].snd # Top(t).snd
      <4>1. CASE u = t
        BY <1>1, <2>4, <4>1
      <4>2. CASE u # t
        BY <1>2, <1>3, <4>2 DEF OneThread, Shape
      <4> QED BY <4>1, <4>2
    <3> QED BY <2>2, <3>1
  <2> QED BY <2>3, <2>4
<1>12. Drained'
  <2>1. SUFFICES ASSUME NEW s \in beingDestroyed'
                 PROVE  s \notin alive /\ \E u \in Threads : \E i \in 1 .. Depth(u)' :
                                            stack'[u][i].snd = s /\ stack'[u][i].old = 0
    BY DEF Drained
  <2>2. s \in beingDestroyed
    BY <2>1
  <2>3. PICK u \in Threads : \E i \in 1 .. Depth(u) : stack[u][i].snd = s /\ stack[u][i].old = 0
    BY <2>2 DEF Drained, Shape
  <2>4. PICK i \in 1 .. Depth(u) : stack[u][i].snd = s /\ stack[u][i].old = 0
    BY <2>3
  <2>5. s \notin alive
    BY <2>2 DEF Drained, Shape
  <2>6. ~(u = t /\ i = Depth(t))
    BY <1>3, <2>1, <2>4, <2>5
  <2>7. i \in 1 .. Depth(u)'
    BY <1>1, <2>6
  <2> QED BY <1>2, <2>4, <2>5, <2>7
<1>13. PriorShape'
  <2>1. SUFFICES ASSUME NEW u \in Threads, NEW i \in 1 .. Depth(u)'
                 PROVE  /\ stack'[u][i].priorSender = IF i = 1 THEN NULL ELSE stack'[u][i - 1].snd
                        /\ stack'[u][i].priorSignal < i
    BY DEF PriorShape
  <2>2. i # 1 => stack'[u][i - 1] = stack[u][i - 1]
    BY <1>1, <1>2
  <2> QED BY <1>2, <2>1, <2>2 DEF PriorShape, Shape
<1>14. CurrentRestored'
  <2>1. SUFFICES ASSUME NEW u \in Threads
                 PROVE  /\ Depth(u)' = 0 => currentSender'[u] = NULL
                        /\ Depth(u)' > 0 /\ stack'[u][Depth(u)'].at \in {"loop", "store", "slot", "check", "leave", "storing"}
                             => currentSender'[u] = stack'[u][Depth(u)'].snd
                        /\ currentSignal'[u] <= Depth(u)'
    BY <1>1 DEF CurrentRestored, Top, Frames
  <2>2. CASE u = t
    <3>1. /\ Top(t).priorSender = IF Depth(t) = 1 THEN NULL ELSE stack[t][Depth(t) - 1].snd
          /\ Top(t).priorSignal < Depth(t)
          /\ Top(t).priorSignal \in 0 .. MaxDepth
      BY <1>3 DEF PriorShape, Shape, Frames, Frame
    <3>2. currentSender'[t] = Top(t).priorSender /\ currentSignal'[t] = Top(t).priorSignal
      BY DEF RestoreCurrent, StateTyped
    <3>3. Depth(t)' = Depth(t) - 1 /\ (Depth(t)' > 0 => stack'[t][Depth(t)'] = stack[t][Depth(t) - 1])
      BY <1>1, <1>2
    <3> QED BY <1>1, <1>3, <2>2, <3>1, <3>2, <3>3, BoundAssumption
  <2>3. CASE u # t
    <3>1. currentSender'[u] = currentSender[u] /\ currentSignal'[u] = currentSignal[u]
      BY <2>3 DEF RestoreCurrent, StateTyped
    <3>2. Depth(u)' = Depth(u) /\ (Depth(u) > 0 => stack'[u][Depth(u)] = stack[u][Depth(u)])
      BY <1>1, <1>2, <2>3
    <3> QED BY <3>1, <3>2 DEF CurrentRestored, Top, Frames, Shape
  <2> QED BY <2>2, <2>3
<1> QED BY <1>4, <1>5, <1>6, <1>7, <1>8, <1>9, <1>10, <1>11, <1>12, <1>13, <1>14 DEF Shape

\* activate() begins.
LEMMA PushStep ==
  ASSUME Frames, Frames', Shape, StateTyped, NEW t \in Threads, NEW s \in Senders, NEW f, Pushed(t, f),
         Alone(t, s), Depth(t) > 0 => Top(t).at = "slot", s \in alive,
         f.snd = s, f.gen = gen[s], f.at = "loop",
         f.priorSender = currentSender[t], f.priorSignal = currentSignal[t],
         currentSender' = [currentSender EXCEPT ![t] = s],
         currentSignal' = [currentSignal EXCEPT ![t] = Depth(t) + 1],
         UNCHANGED <<alive, gen, busy, beingDestroyed, mutex>>
  PROVE  Shape'
<1>1. \A u \in Threads : Depth(u) \in Nat /\ Depth(u) <= MaxDepth
                         /\ Depth(u)' = IF u = t THEN Depth(u) + 1 ELSE Depth(u)
  BY DEF Pushed, Frames
<1>2. \A u \in Threads : \A i \in 1 .. Depth(u) : stack'[u][i] = stack[u][i]
  BY DEF Pushed
<1>3. stack'[t][Depth(t) + 1] = f
  BY DEF Pushed
<1>4. \A u \in Threads : \A i \in 1 .. Depth(u)' : i \in 1 .. Depth(u) \/ (u = t /\ i = Depth(t) + 1)
  BY <1>1
<1>5. \A u \in Threads : \A i \in 1 .. Depth(u) : stack[u][i].snd = s => u = t
  BY DEF Alone, Frames
<1>6. Nested'
  <2>1. SUFFICES ASSUME NEW u \in Threads, NEW i \in 1 .. Depth(u)' - 1 PROVE stack'[u][i].at = "slot"
    BY DEF Nested
  <2>2. i \in 1 .. Depth(u) /\ (i = Depth(u) => u = t)
    BY <1>1
  <2>3. i # Depth(u) => i \in 1 .. Depth(u) - 1
    BY <1>1, <2>2
  <2> QED BY <1>1, <1>2, <2>2, <2>3 DEF Nested, Shape, Top
<1>7. OneThread'
  <2>1. SUFFICES ASSUME NEW u \in Threads, NEW v \in Threads, NEW i \in 1 .. Depth(u)', NEW j \in 1 .. Depth(v)',
                        stack'[u][i].snd = stack'[v][j].snd
                 PROVE  u = v
    BY DEF OneThread
  <2>2. CASE i \in 1 .. Depth(u) /\ j \in 1 .. Depth(v)
    BY <1>2, <2>1, <2>2 DEF OneThread, Shape
  <2>3. CASE i \notin 1 .. Depth(u)
    BY <1>2, <1>3, <1>4, <1>5, <2>1, <2>3
  <2>4. CASE j \notin 1 .. Depth(v)
    BY <1>2, <1>3, <1>4, <1>5, <2>1, <2>4
  <2> QED BY <2>2, <2>3, <2>4
<1>8. SameObject'
  BY <1>2, <1>3, <1>4 DEF SameObject, Shape
<1>9. HandlerLocks'
  <2>1. SUFFICES ASSUME NEW u \in Threads, At(u, "handler")' PROVE mutex = u
    BY DEF HandlerLocks
  <2>2. Depth(u)' > 0 /\ stack'[u][Depth(u)'].at = "handler"
    BY <1>1, <2>1 DEF At, Top, Frames
  <2>3. u # t
    BY <1>1, <1>3, <2>2
  <2>4. Depth(u)' = Depth(u) /\ stack[u][Depth(u)].at = "handler" /\ Depth(u) > 0
    BY <1>1, <1>2, <2>2, <2>3
  <2> QED BY <2>4 DEF HandlerLocks, At, Top, Frames, Shape
<1>10. OldShape'
  <2>1. SUFFICES ASSUME NEW u \in Threads, NEW i \in 1 .. Depth(u)', stack'[u][i].at \notin {"loop", "storing"}
                 PROVE  stack'[u][i].old = 0 <=> \A j \in 1 .. i - 1 : stack'[u][j].snd # stack'[u][i].snd
    BY DEF OldShape
  <2>2. i \in 1 .. Depth(u)
    BY <1>3, <1>4, <2>1
  <2>3. stack'[u][i] = stack[u][i] /\ \A j \in 1 .. i - 1 : stack'[u][j].snd = stack[u][j].snd
    BY <1>1, <1>2, <2>2
  <2>4. stack[u][i].old = 0 <=> \A j \in 1 .. i - 1 : stack[u][j].snd # stack[u][i].snd
    BY <2>1, <2>2, <2>3 DEF OldShape, Shape
  <2> QED BY <2>3, <2>4
<1>11. Counted'
  BY <1>2, <1>3, <1>4 DEF Counted, Shape
<1>12. BusyCount'
  <2>1. ASSUME NEW x, NEW u \in Threads, NEW i \in 1 .. MaxDepth PROVE Inside(u, i, x)' <=> Inside(u, i, x)
    <3>1. CASE i \in 1 .. Depth(u)
      BY <1>1, <1>2, <3>1 DEF Inside, Intact
    <3>2. CASE i \notin 1 .. Depth(u)
      BY <1>3, <1>4, <3>2 DEF Inside
    <3> QED BY <3>1, <3>2
  <2> QED BY <2>1, BusyKept DEF Shape
<1>13. Marked'
  BY <1>2, <1>3, <1>4 DEF Marked, Shape
<1>14. Drained'
  <2>1. \A u \in Threads : \A i \in 1 .. Depth(u) : i \in 1 .. Depth(u)' /\ stack'[u][i] = stack[u][i]
    BY <1>1, <1>2
  <2> QED BY <2>1 DEF Drained, Shape
<1>15. PriorShape'
  <2>1. SUFFICES ASSUME NEW u \in Threads, NEW i \in 1 .. Depth(u)'
                 PROVE  /\ stack'[u][i].priorSender = IF i = 1 THEN NULL ELSE stack'[u][i - 1].snd
                        /\ stack'[u][i].priorSignal < i
    BY DEF PriorShape
  <2>2. i # 1 => stack'[u][i - 1] = stack[u][i - 1]
    BY <1>1, <1>2
  <2>3. CASE i \in 1 .. Depth(u)
    BY <1>2, <2>2, <2>3 DEF PriorShape, Shape
  <2>4. CASE u = t /\ i = Depth(t) + 1
    <3>1. currentSender[t] = IF Depth(t) = 0 THEN NULL ELSE stack[t][Depth(t)].snd
      BY <1>1 DEF CurrentRestored, Top, Frames, Shape
    <3>2. currentSignal[t] <= Depth(t) /\ currentSignal[t] \in 0 .. MaxDepth
      BY DEF CurrentRestored, StateTyped, Shape
    <3> QED BY <1>1, <1>3, <2>2, <2>4, <3>1, <3>2, BoundAssumption
  <2> QED BY <1>4, <2>3, <2>4
<1>16. CurrentRestored'
  <2>1. SUFFICES ASSUME NEW u \in Threads
                 PROVE  /\ Depth(u)' = 0 => currentSender'[u] = NULL
                        /\ Depth(u)' > 0 /\ stack'[u][Depth(u)'].at \in {"loop", "store", "slot", "check", "leave", "storing"}
                             => currentSender'[u] = stack'[u][Depth(u)'].snd
                        /\ currentSignal'[u] <= Depth(u)'
    BY <1>1 DEF CurrentRestored, Top, Frames
  <2>2. CASE u = t
    <3>1. currentSender'[t] = s /\ currentSignal'[t] = Depth(t) + 1
      BY DEF StateTyped
    <3> QED BY <1>1, <1>3, <2>2, <3>1
  <2>3. CASE u # t
    <3>1. currentSender'[u] = currentSender[u] /\ currentSignal'[u] = currentSignal[u]
      BY <2>3 DEF StateTyped
    <3>2. Depth(u)' = Depth(u) /\ (Depth(u) > 0 => stack'[u][Depth(u)] = stack[u][Depth(u)])
      BY <1>1, <1>2, <2>3
    <3> QED BY <3>1, <3>2 DEF CurrentRestored, Top, Frames, Shape
  <2> QED BY <2>2, <2>3
<1> QED BY <1>6, <1>7, <1>8, <1>9, <1>10, <1>11, <1>12, <1>13, <1>14, <1>15, <1>16 DEF Shape

\* A sender is destroyed by its own slot, or when nobody activates it.
LEMMA DestroyStep ==
  ASSUME Frames, Shape, StateTyped, NEW t \in Threads, NEW s \in Senders, UserCode(t), Alone(t, s),
         DestroySender(t, s)
  PROVE  Shape'
<1>1. \A u \in Threads : Depth(u) \in Nat /\ Depth(u) <= MaxDepth /\ Depth(u)' = Depth(u)
  BY DEF Frames, DestroySender, Depth
<1>2. /\ stack' = stack /\ busy' = busy /\ mutex' = mutex
      /\ currentSender' = currentSender /\ currentSignal' = currentSignal
      /\ alive' = alive \ {s} /\ s \in alive
      /\ \A x \in Senders \ {s} : gen'[x] = gen[x]
      /\ beingDestroyed' = beingDestroyed \cup (IF busy[s] > 0 THEN {s} ELSE {})
      /\ busy[s] > 0 => mutex = NULL
  BY DEF DestroySender, InActivation, StateTyped
<1>3. \A u \in Threads : \A i \in 1 .. Depth(u) : stack[u][i].snd = s => u = t
  BY DEF Alone, Frames
<1>4. \A i \in 1 .. Depth(t) - 1 : stack[t][i].at = "slot"
  BY DEF Nested, Shape
<1>5. Depth(t) > 0 => stack[t][Depth(t)].at \in {"slot", "handler"}
  BY DEF UserCode, At, Top, Frames
<1>6. \A i \in 1 .. Depth(t) : stack[t][i].at \in {"slot", "handler"}
  BY <1>1, <1>4, <1>5
<1>7. \A i \in 1 .. Depth(t) : stack[t][i].snd = s => Inside(t, i, s)
  BY <1>2, <1>6 DEF Inside, Intact, SameObject, Shape
<1>8. busy[s] \in Nat /\ (busy[s] = 0 <=> \A u \in Threads : \A i \in 1 .. Depth(u) : ~Inside(u, i, s))
  BY <1>2, BusyZero DEF StateTyped, Shape
<1>9. (\E i \in 1 .. Depth(t) : stack[t][i].snd = s) <=> busy[s] > 0
  <2>1. \A u \in Threads : \A i \in 1 .. Depth(u) : Inside(u, i, s) => u = t /\ stack[t][i].snd = s
    BY <1>3 DEF Inside
  <2> QED BY <1>7, <1>8, <2>1
<1>10. busy[s] > 0 => \A i \in 1 .. Depth(t) : stack[t][i].at = "slot"
  <2>1. t # NULL /\ (Depth(t) > 0 => stack[t] # <<>>)
    BY ObjectAssumption DEF Frames
  <2>2. busy[s] > 0 /\ Depth(t) > 0 => stack[t][Depth(t)].at # "handler"
    BY <1>2, <2>1 DEF HandlerLocks, At, Top, Shape
  <2>3. \A i \in 1 .. Depth(t) : i \in 1 .. Depth(t) - 1 \/ (i = Depth(t) /\ Depth(t) > 0)
    BY <1>1
  <2> QED BY <1>4, <1>5, <2>2, <2>3
<1>11. Frames'
  BY <1>1, <1>2 DEF Frames
<1>12. Nested' /\ OneThread' /\ PriorShape' /\ OldShape'
  BY <1>2 DEF Nested, OneThread, PriorShape, OldShape, Shape, Depth
<1>13. SameObject' /\ Counted'
  <2>1. \A u \in Threads : \A i \in 1 .. Depth(u) : stack[u][i].snd \in Senders
    BY DEF Frames, Frame
  <2> QED BY <1>1, <1>2, <2>1 DEF SameObject, Counted, Shape
<1>14. HandlerLocks' /\ CurrentRestored'
  BY <1>1, <1>2 DEF HandlerLocks, CurrentRestored, At, Top, Shape
<1>15. BusyCount'
  <2>1. \A x \in Senders \cap alive' : x \in alive /\ x # s
    BY <1>2
  <2>2. \A x \in Senders \cap alive' : \A u \in Threads : \A i \in 1 .. MaxDepth :
          Inside(u, i, x)' <=> Inside(u, i, x)
    BY <1>1, <1>2, <2>1 DEF Inside, Intact
  <2> QED BY <1>2, <1>11, <2>1, <2>2, BusyKept DEF Shape
<1>16. Marked'
  <2>1. SUFFICES ASSUME NEW u \in Threads, NEW i \in 1 .. Depth(u), stack[u][i].snd \notin alive'
                 PROVE  stack[u][i].snd \in beingDestroyed' /\ stack[u][i].at \in {"slot", "check", "catch"}
    BY <1>1, <1>2 DEF Marked
  <2>2. CASE stack[u][i].snd = s
    BY <1>2, <1>3, <1>9, <1>10, <2>2
  <2>3. CASE stack[u][i].snd # s
    BY <1>2, <2>1, <2>3 DEF Marked, Shape
  <2> QED BY <2>2, <2>3
<1>17. Drained'
  <2>1. SUFFICES ASSUME NEW x \in beingDestroyed'
                 PROVE  x \notin alive' /\ \E u \in Threads : \E i \in 1 .. Depth(u) :
                                             stack[u][i].snd = x /\ stack[u][i].old = 0
    BY <1>1, <1>2 DEF Drained
  <2>2. CASE x \in beingDestroyed
    BY <1>2, <2>2 DEF Drained, Shape
  <2>3. CASE x = s /\ busy[s] > 0
    <3> DEFINE T == {i \in 1 .. Depth(t) : stack[t][i].snd = s}
    <3>1. T \in SUBSET Nat /\ T # {}
      BY <1>9, <2>3
    <3>2. PICK i \in T : \A j \in T : i <= j
      <4> HIDE DEF T
      <4> QED BY <3>1, Least
    <3>3. i \in 1 .. Depth(t) /\ stack[t][i].snd = s /\ stack[t][i].at = "slot"
      BY <1>10, <2>3, <3>2
    <3>4. \A j \in 1 .. i - 1 : stack[t][j].snd # stack[t][i].snd
      BY <1>1, <3>2
    <3>5. stack[t][i].old = 0
      BY <3>3, <3>4 DEF OldShape, Shape
    <3> QED BY <1>2, <2>3, <3>3, <3>5
  <2> QED BY <1>2, <2>1, <2>2, <2>3
<1> QED BY <1>12, <1>13, <1>14, <1>15, <1>16, <1>17 DEF Shape

\* A sender is built where nobody activates one.
LEMMA CreateStep ==
  ASSUME Frames, Shape, StateTyped, NEW t \in Threads, NEW s \in Senders,
         Unused(s), Create(t, s)
  PROVE  Shape'
<1>1. \A u \in Threads : Depth(u) \in Nat /\ Depth(u) <= MaxDepth /\ Depth(u)' = Depth(u)
  BY DEF Frames, Create, Depth
<1>2. /\ stack' = stack /\ gen' = gen /\ mutex' = mutex /\ beingDestroyed' = beingDestroyed
      /\ currentSender' = currentSender /\ currentSignal' = currentSignal
      /\ alive' = alive \cup {s}
      /\ \A x \in Senders \ {s} : busy'[x] = busy[x]
      /\ busy'[s] = 0
  BY DEF Create, StateTyped
<1>3. \A u \in Threads : \A i \in 1 .. Depth(u) : stack[u][i].snd # s
  BY DEF Unused, Activations, Frames
<1>4. Frames'
  BY <1>1, <1>2 DEF Frames
<1>5. Nested' /\ OneThread' /\ PriorShape' /\ OldShape'
  BY <1>1, <1>2 DEF Nested, OneThread, PriorShape, OldShape, Shape
<1>6. SameObject' /\ Counted' /\ Marked'
  <2>1. \A u \in Threads : \A i \in 1 .. Depth(u) : stack[u][i].snd \in Senders
    BY DEF Frames, Frame
  <2> QED BY <1>1, <1>2, <1>3, <2>1 DEF SameObject, Counted, Marked, Shape
<1>7. HandlerLocks' /\ CurrentRestored'
  BY <1>1, <1>2 DEF HandlerLocks, CurrentRestored, At, Top, Shape
<1>8. Drained'
  BY <1>1, <1>2, <1>3 DEF Drained, Shape
<1>9. BusyCount'
  <2>1. ASSUME NEW x \in Senders \cap alive', x # s PROVE busy'[x] = Cardinality(Delivering(x)')
    <3>1. \A u \in Threads : \A i \in 1 .. MaxDepth : Inside(u, i, x)' <=> Inside(u, i, x)
      BY <1>1, <1>2, <2>1 DEF Inside, Intact
    <3>2. Delivering(x)' = Delivering(x)
      BY <1>4, <3>1, SameDelivering
    <3> QED BY <1>2, <2>1, <3>2 DEF BusyCount, Shape
  <2>2. Delivering(s)' = {}
    <3>1. \A p \in Threads \X (1 .. MaxDepth) : ~Inside(p[1], p[2], s)'
      BY <1>1, <1>2, <1>3 DEF Inside
    <3> QED BY <1>4, <3>1, DeliveringInsideNext
  <2> QED BY <1>2, <2>1, <2>2, FS_EmptySet DEF BusyCount
<1> QED BY <1>5, <1>6, <1>7, <1>8, <1>9 DEF Shape

-----------------------------------------------------------------------------
(* What each step of activate() does to the newest activation *)

LEMMA TopTyped ==
  ASSUME Frames, NEW t \in Threads, stack[t] # <<>>
  PROVE  Top(t) \in Frame /\ Top(t) = stack[t][Depth(t)] /\ Depth(t) \in 1 .. Depth(t) /\ Depth(t) > 0
<1>1. Depth(t) > 0 /\ Top(t) = stack[t][Depth(t)]
  BY DEF Frames, Top
<1> QED BY <1>1 DEF Frames

\* Steps that only change the point.
LEMMA PointMoves ==
  ASSUME StackTyped, NEW t \in Threads, stack[t] # <<>>, NEW p \in Point,
         Goto(t, [Top(t) EXCEPT !.at = p])
  PROVE  StackTyped' /\ Moved(t, p, Top(t).old)
<1> DEFINE f == [Top(t) EXCEPT !.at = p]
<1>1. Top(t) \in Frame
  BY TopTyped, FramesTyped
<1>2. /\ f \in Frame /\ f.at = p /\ f.old = Top(t).old /\ f.snd = Top(t).snd /\ f.gen = Top(t).gen
      /\ f.priorSender = Top(t).priorSender /\ f.priorSignal = Top(t).priorSignal
  BY <1>1 DEF Frame
<1> HIDE DEF f
<1>3. Goto(t, f)
  BY DEF f
<1> QED BY <1>2, <1>3, GotoMoves

LEMMA VisitMoves ==
  ASSUME StackTyped, StateTyped, NEW t \in Threads, Visit(t)
  PROVE  StackTyped' /\ Moved(t, "store", busy[Top(t).snd])
<1> DEFINE f == [Top(t) EXCEPT !.at = "store", !.old = busy[Top(t).snd],
                               !.due = @ \ {Top(t).cur}, !.may = @ \ {Top(t).cur}]
<1>1. stack[t] # <<>> /\ Top(t) \in Frame /\ busy[Top(t).snd] \in Nat
  BY TopTyped, FramesTyped DEF Visit, At, StateTyped, Frame
<1>2. /\ f \in Frame /\ f.at = "store" /\ f.old = busy[Top(t).snd]
      /\ f.snd = Top(t).snd /\ f.gen = Top(t).gen
      /\ f.priorSender = Top(t).priorSender /\ f.priorSignal = Top(t).priorSignal
  BY <1>1 DEF Frame, Point
<1>3. Goto(t, f)
  BY DEF Visit
<1> HIDE DEF f
<1> QED BY <1>1, <1>2, <1>3, GotoMoves

LEMMA SkipKeeps ==
  ASSUME StackTyped, ListsTyped, NEW t \in Threads, Skip(t)
  PROVE  StackTyped' /\ Kept
<1> DEFINE f == [Top(t) EXCEPT !.cur = Follow(Top(t).cur)]
<1>1. stack[t] # <<>> /\ Top(t) \in Frame 
  BY TopTyped, FramesTyped DEF Skip, At, Frame
<1>a. Follow(Top(t).cur) \in Conns \cup {NULL}
  BY <1>1, FollowTyped
<1>2. /\ f \in Frame /\ f.at = Top(t).at /\ f.old = Top(t).old
      /\ f.snd = Top(t).snd /\ f.gen = Top(t).gen
      /\ f.priorSender = Top(t).priorSender /\ f.priorSignal = Top(t).priorSignal
  BY <1>1, <1>a DEF Frame
<1>3. Goto(t, f)
  BY DEF Skip
<1> HIDE DEF f
<1>4. StackTyped' /\ Moved(t, Top(t).at, Top(t).old)
  BY <1>1, <1>2, <1>3, GotoMoves
<1>5. Top(t) = stack[t][Depth(t)]
  BY DEF Top
<1> QED BY <1>4, <1>5 DEF Moved, Kept, Same

LEMMA LeaveMoves ==
  ASSUME StackTyped, StateTyped, NEW t \in Threads, Leave(t)
  PROVE  StackTyped' /\ Moved(t, "storing", busy[Top(t).snd])
<1> DEFINE f == [Top(t) EXCEPT !.at = "storing", !.old = busy[Top(t).snd]]
<1>1. stack[t] # <<>> /\ Top(t) \in Frame /\ busy[Top(t).snd] \in Nat
  BY TopTyped, FramesTyped DEF Leave, At, StateTyped, Frame
<1>2. /\ f \in Frame /\ f.at = "storing" /\ f.old = busy[Top(t).snd]
      /\ f.snd = Top(t).snd /\ f.gen = Top(t).gen
      /\ f.priorSender = Top(t).priorSender /\ f.priorSignal = Top(t).priorSignal
  BY <1>1 DEF Frame, Point
<1>3. Goto(t, f)
  BY DEF Leave
<1> HIDE DEF f
<1> QED BY <1>1, <1>2, <1>3, GotoMoves

LEMMA ContinueMoves ==
  ASSUME StackTyped, ListsTyped, NEW t \in Threads, Continue(t)
  PROVE  StackTyped' /\ Moved(t, "loop", 0)
<1> DEFINE f == [Top(t) EXCEPT !.at = "loop", !.cur = Follow(Top(t).cur), !.old = 0]
<1>1. stack[t] # <<>> /\ Top(t) \in Frame /\ Follow(Top(t).cur) \in Conns \cup {NULL}
  BY TopTyped, FramesTyped, FollowTyped DEF Continue, At
<1>2. /\ f \in Frame /\ f.at = "loop" /\ f.old = 0 /\ f.snd = Top(t).snd /\ f.gen = Top(t).gen
      /\ f.priorSender = Top(t).priorSender /\ f.priorSignal = Top(t).priorSignal
  BY <1>1 DEF Frame, Point
<1>3. Goto(t, f)
  BY DEF Continue
<1> HIDE DEF f
<1> QED BY <1>1, <1>2, <1>3, GotoMoves

-----------------------------------------------------------------------------
(* Every step keeps IInv *)

LEMMA VisitStep ==
  ASSUME ListsTyped, StackTyped, StateTyped, Shape, NEW t \in Threads, Visit(t)
  PROVE  StackTyped' /\ StateTyped' /\ Shape'
<1>1. Frames /\ Frames' /\ StackTyped' /\ Moved(t, "store", busy[Top(t).snd])
  BY VisitMoves, FramesTyped, FramesTypedNext
<1>2. /\ Top(t) \in Frame /\ Top(t) = stack[t][Depth(t)] /\ Depth(t) \in 1 .. Depth(t)
      /\ Top(t).at = "loop" /\ Intact(Top(t))
      /\ UNCHANGED <<alive, gen, busy, beingDestroyed, mutex, currentSender, currentSignal>>
  BY <1>1, TopTyped DEF Visit, At
<1>3. Top(t).snd \in Senders \cap alive
  BY <1>2 DEF Frame, Intact
<1>4. Nested' /\ OneThread' /\ SameObject' /\ PriorShape'
  BY <1>1, <1>2, MovedKeeps DEF Shape
<1>5. HandlerLocks' /\ Marked' /\ BusyCount'
  BY <1>1, <1>2, <1>3, MovedLocks, MovedMarked, MovedBusy DEF Shape
<1>6. Drained'
  BY <1>1, <1>2, <1>3, MovedDrained DEF Shape
<1>7. Counted'
  BY <1>1, <1>2, <1>3, MovedCounted DEF Shape
<1>8. CurrentRestored'
  BY <1>1, <1>2, MovedCurrent DEF CurrentRestored, Frames, Shape
<1>9. OldShape'
  <2>1. \A u \in Threads : \A i \in 1 .. Depth(u) :
          Inside(u, i, Top(t).snd) <=> u = t /\ i \in 1 .. Depth(t) - 1 /\ stack[t][i].snd = Top(t).snd
    <3> SUFFICES ASSUME NEW u \in Threads, NEW i \in 1 .. Depth(u)
                 PROVE  Inside(u, i, Top(t).snd) <=>
                          u = t /\ i \in 1 .. Depth(t) - 1 /\ stack[t][i].snd = Top(t).snd
      OBVIOUS
    <3>1. CASE u # t
      BY <1>2, <3>1 DEF Inside, OneThread, Shape
    <3>2. CASE u = t /\ i = Depth(t)
      BY <1>2, <3>2 DEF Inside, Frames
    <3>3. CASE u = t /\ i # Depth(t)
      <4>1. i \in 1 .. Depth(t) - 1 /\ stack[t][i].at = "slot"
        BY <1>1, <3>3 DEF Frames, Nested, Shape
      <4> QED BY <1>3, <3>3, <4>1 DEF Inside, Intact, SameObject, Shape
    <3> QED BY <3>1, <3>2, <3>3
  <2>2. \A i \in 1 .. Depth(t) - 1 : i \in 1 .. Depth(t)
    BY <1>1 DEF Frames
  <2>3. busy[Top(t).snd] = 0 <=> \A j \in 1 .. Depth(t) - 1 : stack[t][j].snd # Top(t).snd
    <3>1. busy[Top(t).snd] = 0 <=> \A u \in Threads : \A i \in 1 .. Depth(u) : ~Inside(u, i, Top(t).snd)
      BY <1>1, <1>3, BusyZero DEF Shape
    <3> QED BY <2>1, <2>2, <3>1
  <2> QED BY <1>1, <2>3, MovedOld DEF Shape
<1>10. StateTyped'
  BY <1>2 DEF StateTyped
<1> QED BY <1>1, <1>4, <1>5, <1>6, <1>7, <1>8, <1>9, <1>10 DEF Shape

LEMMA DeliverStep ==
  ASSUME ListsTyped, StackTyped, StateTyped, Shape, NEW t \in Threads, Deliver(t)
  PROVE  StackTyped' /\ StateTyped' /\ Shape'
<1>1. PICK p \in {"slot", "check"} : Goto(t, [Top(t) EXCEPT !.at = p])
  BY DEF Deliver
<1>2. Frames /\ Frames' /\ StackTyped' /\ Moved(t, p, Top(t).old)
  BY <1>1, PointMoves, FramesTyped, FramesTypedNext DEF Deliver, At, Point
<1>3. /\ Top(t) \in Frame /\ Top(t) = stack[t][Depth(t)] /\ Depth(t) \in 1 .. Depth(t)
      /\ Top(t).at = "store" /\ Intact(Top(t))
      /\ busy' = [busy EXCEPT ![Top(t).snd] = Top(t).old + 1]
      /\ UNCHANGED <<alive, gen, beingDestroyed, mutex, currentSender, currentSignal>>
  BY <1>2, TopTyped DEF Deliver, At
<1>a. PICK s : s = Top(t).snd
  OBVIOUS
<1>4. s \in Senders \cap alive /\ Top(t).old \in Nat
  BY <1>3, <1>a DEF Frame, Intact
<1>5. Top(t).old = busy[s]
  BY <1>3, <1>4, <1>a DEF Counted, Shape
<1>6. busy'[s] = busy[s] + 1 /\ \A x \in Senders \ {s} : busy'[x] = busy[x]
  BY <1>3, <1>4, <1>5, <1>a DEF StateTyped
<1>7. Nested' /\ OneThread' /\ SameObject' /\ PriorShape'
  BY <1>2, <1>3, MovedKeeps DEF Shape
<1>8. HandlerLocks' /\ Marked'
  BY <1>2, <1>3, <1>4, <1>a, MovedLocks, MovedMarked DEF Shape
<1>9. Drained'
  BY <1>2, <1>3, <1>4, <1>a, MovedDrained DEF Shape
<1>10. Counted'
  BY <1>2, <1>3, <1>6, <1>a, MovedCounted DEF Shape
<1>11. CurrentRestored'
  BY <1>2, <1>3, MovedCurrent DEF CurrentRestored, Frames, Shape
<1>12. OldShape'
  BY <1>2, <1>3, MovedOld DEF Shape
<1>13. BusyCount'
  <2>1. Depth(t) \in 1 .. MaxDepth /\ ~Inside(t, Depth(t), s)
    BY <1>2, <1>3, <1>4, <1>a, BoundAssumption DEF Inside, Frames
  <2>2. \A x : \A u \in Threads : \A i \in 1 .. MaxDepth :
          Inside(u, i, x)' <=> Inside(u, i, x) \/ (x = s /\ u = t /\ i = Depth(t))
    <3> SUFFICES ASSUME NEW x, NEW u \in Threads, NEW i \in 1 .. MaxDepth
                 PROVE  Inside(u, i, x)' <=> Inside(u, i, x) \/ (x = s /\ u = t /\ i = Depth(t))
      OBVIOUS
    <3>1. CASE u = t /\ i = Depth(t)
      BY <1>2, <1>3, <1>a, <3>1 DEF Inside, Intact, Moved
    <3>2. CASE ~(u = t /\ i = Depth(t))
      BY <1>2, <1>3, <1>a, <3>2 DEF Inside, Intact, Moved
    <3> QED BY <3>1, <3>2
  <2>3. ASSUME NEW x \in Senders \cap alive, x # s PROVE Delivering(x)' = Delivering(x)
    <3>1. \A u \in Threads : \A i \in 1 .. MaxDepth : Inside(u, i, x)' <=> Inside(u, i, x)
      BY <2>2, <2>3
    <3> QED BY <1>2, <3>1, SameDelivering
  <2>4. Cardinality(Delivering(s)') = Cardinality(Delivering(s)) + 1
    BY <1>2, <2>1, <2>2, OneMore
  <2> QED BY <1>3, <1>4, <1>6, <2>3, <2>4 DEF BusyCount, Shape
<1>14. StateTyped'
  BY <1>3, <1>4, <1>a DEF StateTyped
<1> QED BY <1>2, <1>7, <1>8, <1>9, <1>10, <1>11, <1>12, <1>13, <1>14 DEF Shape

LEMMA ContinueStep ==
  ASSUME ListsTyped, StackTyped, StateTyped, Shape, NEW t \in Threads, Continue(t)
  PROVE  StackTyped' /\ StateTyped' /\ Shape'
<1>2. Frames /\ Frames' /\ StackTyped' /\ Moved(t, "loop", 0)
  BY ContinueMoves, FramesTyped, FramesTypedNext
<1>3. /\ Top(t) \in Frame /\ Top(t) = stack[t][Depth(t)] /\ Depth(t) \in 1 .. Depth(t)
      /\ Top(t).at = "storing" /\ Intact(Top(t))
      /\ busy' = [busy EXCEPT ![Top(t).snd] = Top(t).old - 1]
      /\ UNCHANGED <<alive, gen, beingDestroyed, mutex, currentSender, currentSignal>>
  BY <1>2, TopTyped DEF Continue, At
<1>a. PICK s : s = Top(t).snd
  OBVIOUS
<1>4. s \in Senders \cap alive /\ Top(t).old \in Nat
  BY <1>3, <1>a DEF Frame, Intact
<1>5. Top(t).old = busy[s]
  BY <1>3, <1>4, <1>a DEF Counted, Shape
<1>6. busy'[s] = busy[s] - 1 /\ \A x \in Senders \ {s} : busy'[x] = busy[x]
  BY <1>3, <1>4, <1>5, <1>a DEF StateTyped
<1>7. Nested' /\ OneThread' /\ SameObject' /\ PriorShape'
  BY <1>2, <1>3, MovedKeeps DEF Shape
<1>8. HandlerLocks' /\ Marked'
  BY <1>2, <1>3, <1>4, <1>a, MovedLocks, MovedMarked DEF Shape
<1>9. Drained'
  BY <1>2, <1>3, <1>4, <1>a, MovedDrained DEF Shape
<1>10. Counted'
  BY <1>2, <1>3, <1>6, <1>a, MovedCounted DEF Shape
<1>11. CurrentRestored'
  BY <1>2, <1>3, MovedCurrent DEF CurrentRestored, Frames, Shape
<1>12. OldShape'
  BY <1>2, <1>3, MovedOld DEF Shape
<1>13. BusyCount' /\ busy'[s] \in Nat
  <2>1. Depth(t) \in 1 .. MaxDepth /\ Inside(t, Depth(t), s)
    BY <1>2, <1>3, <1>4, <1>a, BoundAssumption DEF Inside, Frames
  <2>2. \A x : \A u \in Threads : \A i \in 1 .. MaxDepth :
          Inside(u, i, x)' <=> Inside(u, i, x) /\ ~(x = s /\ u = t /\ i = Depth(t))
    <3> SUFFICES ASSUME NEW x, NEW u \in Threads, NEW i \in 1 .. MaxDepth
                 PROVE  Inside(u, i, x)' <=> Inside(u, i, x) /\ ~(x = s /\ u = t /\ i = Depth(t))
      OBVIOUS
    <3>1. CASE u = t /\ i = Depth(t)
      BY <1>2, <1>3, <1>a, <3>1 DEF Inside, Intact, Moved
    <3>2. CASE ~(u = t /\ i = Depth(t))
      BY <1>2, <1>3, <1>a, <3>2 DEF Inside, Intact, Moved
    <3> QED BY <3>1, <3>2
  <2>3. ASSUME NEW x \in Senders \cap alive, x # s PROVE Delivering(x)' = Delivering(x)
    <3>1. \A u \in Threads : \A i \in 1 .. MaxDepth : Inside(u, i, x)' <=> Inside(u, i, x)
      BY <2>2, <2>3
    <3> QED BY <1>2, <3>1, SameDelivering
  <2>4. Cardinality(Delivering(s)') = Cardinality(Delivering(s)) - 1 /\ Cardinality(Delivering(s)') \in Nat
    BY <1>2, <2>1, <2>2, OneLess
  <2> QED BY <1>3, <1>4, <1>6, <2>3, <2>4 DEF BusyCount, Shape
<1>14. StateTyped'
  BY <1>3, <1>4, <1>6, <1>13, <1>a DEF StateTyped
<1> QED BY <1>2, <1>7, <1>8, <1>9, <1>10, <1>11, <1>12, <1>13, <1>14 DEF Shape

\* A step from the slot to the end of the iteration.
LEMMA PointStep ==
  ASSUME Frames, Frames', StateTyped, Shape, NEW t \in Threads, NEW p, NEW n, Moved(t, p, n),
         UNCHANGED <<alive, gen, busy, beingDestroyed>>,
         Top(t).at \in {"slot", "check", "catch", "handler", "leave"},
         \/ p = "storing" /\ n = busy[Top(t).snd]
         \/ p \in {"check", "catch", "handler", "leave"} /\ n = Top(t).old,
         Top(t).snd \in alive \/ p \in {"check", "catch"},
         \/ mutex' = t /\ mutex = NULL
         \/ mutex' = mutex /\ p # "handler"
         \/ mutex' = NULL /\ mutex = t /\ p # "handler",
         \A u \in Threads \ {t} : currentSender'[u] = currentSender[u]
                                  /\ currentSignal'[u] = currentSignal[u],
         currentSignal'[t] <= Depth(t),
         p \in {"catch", "handler"} \/ currentSender'[t] = Top(t).snd
  PROVE  Shape'
<1>1. Nested' /\ OneThread' /\ SameObject' /\ PriorShape'
  BY MovedKeeps DEF Shape
<1>2. HandlerLocks'
  BY MovedLocks DEF Shape
<1>3. Marked'
  BY MovedMarked DEF Shape
<1>4. BusyCount'
  BY MovedBusy DEF Shape
<1>5. Drained'
  BY MovedDrained DEF Shape
<1>6. Counted'
  BY MovedCounted DEF Shape
<1>7. CurrentRestored'
  BY MovedCurrent DEF Shape
<1>8. OldShape'
  BY MovedOld DEF Shape
<1> QED BY <1>1, <1>2, <1>3, <1>4, <1>5, <1>6, <1>7, <1>8 DEF Shape

LEMMA IterationEnds ==
  ASSUME ListsTyped, StackTyped, StateTyped, Shape, NEW t \in Threads,
         Returning(t) \/ Check(t) \/ Handle(t) \/ Leave(t)
  PROVE  StackTyped' /\ StateTyped' /\ Shape'
<1>0. stack[t] # <<>> /\ Frames
  BY FramesTyped DEF Returning, Return, Throw, Handled, Check, Handle, Leave, At
<1>1. /\ Top(t) \in Frame /\ Top(t) = stack[t][Depth(t)] /\ Depth(t) \in 1 .. Depth(t)
      /\ Top(t).snd \in Senders
      /\ Top(t).priorSender \in Senders \cup {NULL}
      /\ Top(t).priorSignal \in 0 .. MaxDepth
  BY <1>0, TopTyped DEF Frame
<1>a. /\ currentSignal[t] <= Depth(t)
      /\ Top(t).at \in {"slot", "check", "leave"} => currentSender[t] = Top(t).snd
  BY <1>0 DEF CurrentRestored, Shape
<1>b. Top(t).priorSignal < Depth(t)
  BY <1>1 DEF PriorShape, Shape
<1>c. Top(t).snd \in alive \/ (Top(t).snd \in beingDestroyed /\ Top(t).at \in {"slot", "check", "catch"})
  BY <1>1 DEF Marked, Shape
<1>2. CASE Return(t)
  <2>1. StackTyped' /\ Moved(t, "check", Top(t).old)
    BY <1>0, <1>2, PointMoves DEF Return, Point
  <2>2. Top(t).at = "slot" /\ UNCHANGED <<alive, gen, busy, beingDestroyed, mutex, currentSender, currentSignal>>
    BY <1>2 DEF Return, At
  <2>3. StateTyped'
    BY <2>2 DEF StateTyped
  <2> QED BY <1>0, <1>1, <1>a, <1>b, <1>c, <2>1, <2>2, <2>3, FramesTypedNext, PointStep
<1>3. CASE Throw(t)
  <2>1. StackTyped' /\ Moved(t, "catch", Top(t).old)
    BY <1>0, <1>3, PointMoves DEF Throw, Point
  <2>2. /\ Top(t).at = "slot" /\ UNCHANGED <<alive, gen, busy, beingDestroyed, mutex>>
        /\ RestoreCurrent(t)
    BY <1>3 DEF Throw, At
  <2>3. StateTyped'
    BY <1>1, <2>2 DEF StateTyped, RestoreCurrent
  <2>4. /\ \A u \in Threads \ {t} : currentSender'[u] = currentSender[u] /\ currentSignal'[u] = currentSignal[u]
        /\ currentSignal'[t] = Top(t).priorSignal
    BY <2>2 DEF RestoreCurrent, StateTyped
  <2>5. currentSignal'[t] <= Depth(t)
    BY <1>0, <1>1, <1>a, <1>b, <1>c, <2>4, BoundAssumption DEF Frames
  <2> QED BY <1>0, <1>1, <1>a, <1>b, <1>c, <2>1, <2>2, <2>3, <2>4, <2>5, FramesTypedNext, PointStep
<1>4. CASE Handled(t)
  <2>1. StackTyped' /\ Moved(t, "leave", Top(t).old)
    BY <1>0, <1>4, PointMoves DEF Handled, Point
  <2>2. /\ Top(t).at = "handler" /\ UNCHANGED <<alive, gen, busy, beingDestroyed, currentSignal>>
        /\ mutex' = NULL /\ currentSender' = [currentSender EXCEPT ![t] = Top(t).snd]
    BY <1>4 DEF Handled, At
  <2>3. StateTyped'
    BY <1>1, <2>2 DEF StateTyped
  <2>4. /\ \A u \in Threads \ {t} : currentSender'[u] = currentSender[u]
        /\ currentSender'[t] = Top(t).snd
    BY <2>2 DEF StateTyped
  <2>5. mutex = t
    BY <1>0, <2>2 DEF HandlerLocks, At, Shape
  <2> QED BY <1>0, <1>1, <1>a, <1>b, <1>c, <2>1, <2>2, <2>3, <2>4, <2>5, FramesTypedNext, PointStep
<1>5. CASE Check(t)
  <2>1. StackTyped' /\ Moved(t, "leave", Top(t).old)
    BY <1>0, <1>5, PointMoves DEF Check, Point
  <2>2. /\ Top(t).at = "check" /\ Top(t).snd \notin beingDestroyed
        /\ UNCHANGED <<alive, gen, busy, beingDestroyed, mutex, currentSender, currentSignal>>
    BY <1>5 DEF Check, At
  <2>3. StateTyped'
    BY <2>2 DEF StateTyped
  <2> QED BY <1>0, <1>1, <1>a, <1>b, <1>c, <2>1, <2>2, <2>3, FramesTypedNext, PointStep
<1>6. CASE Handle(t)
  <2>1. StackTyped' /\ Moved(t, "handler", Top(t).old)
    BY <1>0, <1>6, PointMoves DEF Handle, Point
  <2>2. /\ Top(t).at = "catch" /\ Top(t).snd \notin beingDestroyed /\ mutex = NULL /\ mutex' = t
        /\ UNCHANGED <<alive, gen, busy, beingDestroyed, currentSender, currentSignal>>
    BY <1>6 DEF Handle, At
  <2>3. StateTyped'
    BY <2>2 DEF StateTyped
  <2> QED BY <1>0, <1>1, <1>a, <1>b, <1>c, <2>1, <2>2, <2>3, FramesTypedNext, PointStep
<1>7. CASE Leave(t)
  <2>1. StackTyped' /\ Moved(t, "storing", busy[Top(t).snd])
    BY <1>7, LeaveMoves
  <2>2. /\ Top(t).at = "leave" /\ Top(t).snd \in alive
        /\ UNCHANGED <<alive, gen, busy, beingDestroyed, mutex, currentSender, currentSignal>>
    BY <1>7 DEF Leave, At, Intact
  <2>3. StateTyped'
    BY <2>2 DEF StateTyped
  <2> QED BY <1>0, <1>1, <1>a, <1>b, <1>c, <2>1, <2>2, <2>3, FramesTypedNext, PointStep
<1> QED BY <1>2, <1>3, <1>4, <1>5, <1>6, <1>7 DEF Returning

LEMMA AbandonStep ==
  ASSUME ListsTyped, StackTyped, StateTyped, Shape, NEW t \in Threads, Abandon(t)
  PROVE  StackTyped' /\ StateTyped' /\ Shape'
<1>0. stack[t] # <<>> /\ Frames
  BY FramesTyped DEF Abandon, At
<1>1. /\ Top(t) \in Frame /\ Top(t) = stack[t][Depth(t)] /\ Depth(t) \in 1 .. Depth(t)
      /\ Top(t).snd \in beingDestroyed /\ Top(t).snd \notin alive
      /\ Top(t).at \in {"check", "catch"}
      /\ UNCHANGED <<alive, gen, busy, mutex>> /\ RestoreCurrent(t)
  BY <1>0, TopTyped DEF Abandon, At, Drained, Shape
<1>2. StackTyped' /\ Popped(t)
  BY <1>0, PopShrinks DEF Abandon, Pop
<1>3. Frames'
  BY <1>2, FramesTypedNext
<1>4. ~\E s \in Senders \cap alive : Inside(t, Depth(t), s)
  BY <1>1 DEF Inside
<1>5. \/ UNCHANGED beingDestroyed /\ Top(t).old # 0
      \/ /\ beingDestroyed' = beingDestroyed \ {Top(t).snd}
         /\ \A j \in 1 .. Depth(t) - 1 : stack[t][j].snd # Top(t).snd
  <2>1. CASE Top(t).old = 0
    <3>1. \A j \in 1 .. Depth(t) - 1 : stack[t][j].snd # Top(t).snd
      BY <1>1, <2>1 DEF OldShape, Shape
    <3> QED BY <2>1, <3>1 DEF Abandon
  <2>2. CASE Top(t).old # 0
    BY <2>2 DEF Abandon
  <2> QED BY <2>1, <2>2
<1>6. Shape'
  BY <1>0, <1>1, <1>2, <1>3, <1>4, <1>5, PopStep
<1>7. StateTyped'
  BY <1>1, <1>5 DEF StateTyped, RestoreCurrent, Frame
<1> QED BY <1>2, <1>6, <1>7

LEMMA FinishStep ==
  ASSUME ListsTyped, StackTyped, StateTyped, Shape, NEW t \in Threads, Finish(t)
  PROVE  StackTyped' /\ StateTyped' /\ Shape'
<1>0. stack[t] # <<>> /\ Frames
  BY FramesTyped DEF Finish, At
<1>1. /\ Top(t) \in Frame /\ Top(t) = stack[t][Depth(t)] /\ Depth(t) \in 1 .. Depth(t)
      /\ Top(t).at = "loop" /\ Top(t).snd \in alive
      /\ UNCHANGED <<alive, gen, busy, mutex, beingDestroyed>> /\ RestoreCurrent(t)
  BY <1>0, TopTyped DEF Finish, At, Marked, Shape
<1>2. StackTyped' /\ Popped(t)
  BY <1>0, PopShrinks DEF Finish, Pop
<1>3. Frames'
  BY <1>2, FramesTypedNext
<1>4. ~\E s \in Senders \cap alive : Inside(t, Depth(t), s)
  BY <1>1 DEF Inside
<1>6. Shape'
  BY <1>0, <1>1, <1>2, <1>3, <1>4, PopStep
<1>7. StateTyped'
  BY <1>1 DEF StateTyped, RestoreCurrent, Frame
<1> QED BY <1>2, <1>6, <1>7

LEMMA EmitStep ==
  ASSUME ListsTyped, StackTyped, StateTyped, Shape, NEW t \in Threads, NEW s \in Senders, NEW sig \in Signals,
         Alone(t, s), ~At(t, "handler"), Emit(t, s, sig)
  PROVE  StackTyped' /\ StateTyped' /\ Shape'
<1> DEFINE f == [snd |-> s, gen |-> gen[s], sig |-> sig, at |-> "loop", cur |-> First(list[s]),
                 old |-> 0, priorSender |-> currentSender[t], priorSignal |-> currentSignal[t],
                 due |-> Of(s, sig), may |-> Of(s, sig)]
<1>0. Frames
  BY FramesTyped
<1>1. Of(s, sig) \subseteq Conns
  <2>1. list[s] \in Seq(Conns)
    BY DEF ListsTyped
  <2>2. \A i \in DOMAIN list[s] : list[s][i] \in Conns
    BY <2>1, LenProperties, ElementOfSeq
  <2> QED BY <2>2 DEF Of, Range
<1>2. f \in Frame
  BY <1>1, FirstTyped DEF Frame, Point, ListsTyped, StateTyped
<1>3. stack' = [stack EXCEPT ![t] = Append(@, f)] /\ Depth(t) < MaxDepth
  BY DEF Emit
<1>4. /\ f.snd = s /\ f.gen = gen[s] /\ f.at = "loop"
      /\ f.priorSender = currentSender[t] /\ f.priorSignal = currentSignal[t]
  OBVIOUS
<1> HIDE DEF f
<1>5. StackTyped' /\ Pushed(t, f)
  BY <1>2, <1>3, PushGrows
<1>6. Frames'
  BY <1>5, FramesTypedNext
<1>7. /\ s \in alive
      /\ Depth(t) > 0 => Top(t).at = "slot"
      /\ currentSender' = [currentSender EXCEPT ![t] = s]
      /\ currentSignal' = [currentSignal EXCEPT ![t] = Depth(t) + 1]
      /\ UNCHANGED <<alive, gen, busy, beingDestroyed, mutex>>
  BY <1>0 DEF Emit, UserCode, At, Frames
<1>8. Shape'
  BY <1>0, <1>4, <1>5, <1>6, <1>7, PushStep
<1>9. Depth(t) + 1 \in 0 .. MaxDepth
  BY <1>0, <1>3, BoundAssumption DEF Frames
<1>10. StateTyped'
  BY <1>7, <1>9 DEF StateTyped
<1> QED BY <1>5, <1>8, <1>10

-----------------------------------------------------------------------------
(* connect(), disconnect() and the destructors *)

LEMMA LinkedTyped ==
  ASSUME ListsTyped, NEW s \in Senders
  PROVE  Linked(s) \subseteq Conns
<1>1. list[s] \in Seq(Conns)
  BY DEF ListsTyped
<1>2. \A i \in DOMAIN list[s] : list[s][i] \in Conns
  BY <1>1, LenProperties, ElementOfSeq
<1> QED BY <1>2 DEF Linked, Range

LEMMA ForgetTyped ==
  ASSUME ListsTyped, NEW E, Forget(E), list' \in [Senders -> Seq(Conns)]
  PROVE  ListsTyped'
BY DEF ListsTyped, Forget

LEMMA EraseKeeps ==
  ASSUME ListsTyped, StackTyped, NEW E \in SUBSET Conns, Erase(E)
  PROVE  ListsTyped' /\ StackTyped' /\ Kept
<1>1. list' \in [Senders -> Seq(Conns)]
  <2>1. \A s \in Senders : Without(list[s], E) \in Seq(Conns)
    BY WithoutTyped DEF ListsTyped
  <2> QED BY <2>1 DEF Erase
<1>2. PICK kept \in SUBSET E :
        /\ erased' = erased \cup kept
        /\ trail' = [c \in Conns |-> IF c \in kept THEN Follow(c) ELSE trail[c]]
        /\ conn' = [c \in Conns |-> IF c \in E \ kept THEN Blank ELSE conn[c]]
  BY DEF Erase
<1>3. erased' \subseteq Conns
  BY <1>2 DEF ListsTyped
<1>4. trail' \in [Conns -> Conns \cup {NULL}]
  BY <1>2, FollowTyped DEF ListsTyped
<1>5. conn' \in [Conns -> {Blank} \cup [snd : Senders, sig : Signals, rcv : Receivers]]
  BY <1>2 DEF ListsTyped
<1>6. /\ stack' = [u \in Threads |-> [i \in DOMAIN stack[u] |-> stack'[u][i]]]
      /\ \A u \in Threads : \A i \in DOMAIN stack[u] :
           stack'[u][i] = [stack[u][i] EXCEPT !.due = stack[u][i].due \ E]
  BY DEF Erase
<1>7. \A f \in Frame : LET g == [f EXCEPT !.due = f.due \ E] IN g \in Frame /\ Same(g, f)
  BY DEF Frame, Same
<1>8. \A u \in Threads : \A i \in DOMAIN stack[u] : stack[u][i] \in Frame
  BY FramesTyped DEF Frames
<1>9. ASSUME NEW u \in Threads, NEW i \in DOMAIN stack[u]
      PROVE  stack'[u][i] \in Frame /\ Same(stack'[u][i], stack[u][i])
  <2>1. PICK f \in Frame : f = stack[u][i]
    BY <1>8
  <2>2. stack'[u][i] = [f EXCEPT !.due = f.due \ E]
    BY <1>6, <2>1
  <2> QED BY <1>7, <2>1, <2>2
<1>10. StackTyped' /\ Kept
  BY <1>6, <1>9, HistoryKept
<1> QED BY <1>1, <1>3, <1>4, <1>5, <1>10 DEF ListsTyped

LEMMA ConnectKeeps ==
  ASSUME ListsTyped, StackTyped, NEW t \in Threads, NEW s \in Senders, NEW sig \in Signals,
         NEW r \in Receivers, Connect(t, s, sig, r)
  PROVE  ListsTyped' /\ StackTyped' /\ Kept
<1>1. PICK c \in Conns :
        /\ list' = [list EXCEPT ![s] = Append(@, c)]
        /\ conn' = [conn EXCEPT ![c] = [snd |-> s, sig |-> sig, rcv |-> r]]
        /\ stack' = [u \in Threads |-> [i \in DOMAIN stack[u] |->
             LET f == stack[u][i] IN
             IF f.snd = s /\ f.sig = sig THEN [f EXCEPT !.may = @ \cup {c}] ELSE f]]
  BY DEF Connect
<1>2. list' \in [Senders -> Seq(Conns)]
  <2>1. Append(list[s], c) \in Seq(Conns)
    BY AppendProperties DEF ListsTyped
  <2> QED BY <1>1, <2>1 DEF ListsTyped
<1>3. ListsTyped'
  BY <1>1, <1>2 DEF ListsTyped, Connect
<1>4. /\ stack' = [u \in Threads |-> [i \in DOMAIN stack[u] |-> stack'[u][i]]]
      /\ \A u \in Threads : \A i \in DOMAIN stack[u] :
           stack'[u][i] = IF stack[u][i].snd = s /\ stack[u][i].sig = sig
                          THEN [stack[u][i] EXCEPT !.may = stack[u][i].may \cup {c}]
                          ELSE stack[u][i]
  BY <1>1
<1>5. \A f \in Frame : LET g == [f EXCEPT !.may = f.may \cup {c}] IN g \in Frame /\ Same(g, f)
  BY DEF Frame, Same
<1>6. \A f \in Frame : Same(f, f)
  BY DEF Same
<1>7. \A u \in Threads : \A i \in DOMAIN stack[u] : stack[u][i] \in Frame
  BY FramesTyped DEF Frames
<1>8. \A u \in Threads : \A i \in DOMAIN stack[u] :
        stack'[u][i] \in Frame /\ Same(stack'[u][i], stack[u][i])
  BY <1>4, <1>5, <1>6, <1>7
<1>9. StackTyped' /\ Kept
  BY <1>4, <1>8, HistoryKept
<1> QED BY <1>3, <1>9

LEMMA UserStepKeeps ==
  ASSUME ListsTyped, StackTyped, StateTyped, Shape, NEW t \in Threads, UserStep(t)
  PROVE  ListsTyped' /\ StackTyped' /\ StateTyped' /\ Shape'
<1>0. Frames
  BY FramesTyped
<1>1. CASE \E s \in Senders, sig \in Signals, r \in Receivers : Connect(t, s, sig, r)
  <2>1. ListsTyped' /\ StackTyped' /\ Kept
    BY <1>1, ConnectKeeps
  <2>2. UNCHANGED <<alive, gen, busy, beingDestroyed, mutex, currentSender, currentSignal>>
    BY <1>1 DEF Connect
  <2>3. Shape'
    BY <1>0, <2>1, <2>2, FramesTypedNext, QuietStep
  <2> QED BY <2>1, <2>2, <2>3 DEF StateTyped
<1>2. CASE \E s \in Senders, sig \in Signals \cup {NULL}, r \in Receivers \cup {NULL} :
             Disconnect(t, s, sig, r)
  <2>1. PICK s \in Senders : \E sig \in Signals \cup {NULL}, r \in Receivers \cup {NULL} : Disconnect(t, s, sig, r)
    BY <1>2
  <2>2. PICK sig, r : Disconnect(t, s, sig, r)
    BY <2>1
  <2>3. Matching(s, sig, r) \subseteq Conns
    BY LinkedTyped DEF Matching
  <2>4. ListsTyped' /\ StackTyped' /\ Kept
    BY <2>2, <2>3, EraseKeeps DEF Disconnect
  <2>5. UNCHANGED <<alive, gen, busy, beingDestroyed, mutex, currentSender, currentSignal>>
    BY <2>2 DEF Disconnect
  <2>6. Shape'
    BY <1>0, <2>4, <2>5, FramesTypedNext, QuietStep
  <2> QED BY <2>4, <2>5, <2>6 DEF StateTyped
<1>3. CASE \E r \in Receivers :
             /\ Orderly(r)
             /\ \A c \in Conns : conn[c].rcv = r => Alone(t, conn[c].snd)
             /\ DestroyReceiver(t, r)
  <2>1. PICK r \in Receivers : DestroyReceiver(t, r)
    BY <1>3
  <2>2. Received(r) \subseteq Conns
    BY LinkedTyped DEF Received
  <2>3. ListsTyped' /\ StackTyped' /\ Kept
    BY <2>1, <2>2, EraseKeeps DEF DestroyReceiver
  <2>4. /\ UNCHANGED <<gen, busy, beingDestroyed, mutex, currentSender, currentSignal>>
        /\ alive' = alive \ {r}
    BY <2>1 DEF DestroyReceiver
  <2>5. Senders \cap alive' = Senders \cap alive
    BY <2>4, ObjectAssumption
  <2>6. Shape'
    BY <1>0, <2>3, <2>4, <2>5, FramesTypedNext, QuietStep
  <2> QED BY <2>3, <2>4, <2>6 DEF StateTyped
<1>4. CASE \E s \in Senders : Alone(t, s) /\ DestroySender(t, s)
  <2>1. PICK s \in Senders : Alone(t, s) /\ DestroySender(t, s)
    BY <1>4
  <2>2. UserCode(t)
    BY <2>1 DEF DestroySender
  <2>3. Shape'
    BY <1>0, <2>1, <2>2, DestroyStep
  <2>4. list' \in [Senders -> Seq(Conns)]
    BY <2>1, EmptySeq DEF DestroySender, ListsTyped
  <2>5. ListsTyped'
    BY <2>1, <2>4, ForgetTyped DEF DestroySender
  <2>6. StackTyped'
    BY <2>1 DEF DestroySender, StackTyped
  <2>7. gen' \in [Senders -> 0 .. MaxGen]
    <3>1. gen[s] \in 0 .. MaxGen /\ gen[s] < MaxGen
      BY <2>1 DEF DestroySender, StateTyped
    <3>2. gen[s] + 1 \in 0 .. MaxGen
      BY <3>1, BoundAssumption
    <3> QED BY <2>1, <3>2 DEF DestroySender, StateTyped
  <2>8. StateTyped'
    BY <2>1, <2>7 DEF DestroySender, StateTyped
  <2> QED BY <2>3, <2>5, <2>6, <2>8
<1>5. CASE \E s \in Senders : Unused(s) /\ Create(t, s)
  <2>1. PICK s \in Senders : Unused(s) /\ Create(t, s)
    BY <1>5
  <2>2. Shape'
    BY <1>0, <2>1, CreateStep
  <2>3. ListsTyped' /\ StackTyped'
    BY <2>1 DEF Create, ListsTyped, StackTyped, listVars
  <2>4. StateTyped'
    BY <2>1 DEF Create, StateTyped
  <2> QED BY <2>2, <2>3, <2>4
<1>6. CASE \E s \in Senders, sig \in Signals : Alone(t, s) /\ ~At(t, "handler") /\ Emit(t, s, sig)
  <2>1. PICK s \in Senders, sig \in Signals : Alone(t, s) /\ ~At(t, "handler") /\ Emit(t, s, sig)
    BY <1>6
  <2>2. ListsTyped'
    BY <2>1 DEF Emit, ListsTyped, listVars
  <2> QED BY <2>1, <2>2, EmitStep
<1> QED BY <1>1, <1>2, <1>3, <1>4, <1>5, <1>6 DEF UserStep

LEMMA ActivatingKeeps ==
  ASSUME ListsTyped, StackTyped, StateTyped, Shape, NEW t \in Threads, Activating(t) \/ Returning(t)
  PROVE  ListsTyped' /\ StackTyped' /\ StateTyped' /\ Shape'
<1>0. Frames
  BY FramesTyped
<1>1. CASE Skip(t)
  <2>1. StackTyped' /\ Kept
    BY <1>1, SkipKeeps
  <2>2. UNCHANGED <<alive, gen, listVars, busy, beingDestroyed, mutex, currentSender, currentSignal>>
    BY <1>1 DEF Skip
  <2>3. Shape'
    BY <1>0, <2>1, <2>2, FramesTypedNext, QuietStep
  <2> QED BY <2>1, <2>2, <2>3 DEF StateTyped, ListsTyped, listVars
<1>2. CASE Visit(t) \/ Deliver(t) \/ Continue(t)
  <2>1. ListsTyped'
    BY <1>2 DEF Visit, Deliver, Continue, ListsTyped, listVars
  <2> QED BY <1>2, <2>1, VisitStep, DeliverStep, ContinueStep
<1>3. CASE Returning(t) \/ Check(t) \/ Handle(t) \/ Leave(t)
  <2>1. ListsTyped'
    BY <1>3 DEF Returning, Return, Throw, Handled, Check, Handle, Leave, ListsTyped, listVars
  <2> QED BY <1>3, <2>1, IterationEnds
<1>4. CASE Abandon(t) \/ Finish(t)
  <2>1. Pop(t)
    BY <1>4 DEF Abandon, Finish
  <2>2. ListsTyped'
    BY <2>1, ForgetTyped DEF Pop, ListsTyped
  <2> QED BY <1>4, <2>2, AbandonStep, FinishStep
<1> QED BY <1>1, <1>2, <1>3, <1>4 DEF Activating

-----------------------------------------------------------------------------
(* The theorems *)

LEMMA InitInv == Init => IInv
<1> SUFFICES ASSUME Init PROVE IInv
  OBVIOUS
<1>1. ListsTyped
  BY EmptySeq DEF Init, ListsTyped
<1>2. \A t \in Threads : stack[t] = <<>> /\ Depth(t) = 0
  BY EmptySeq DEF Init, Depth
<1>3. StackTyped
  BY <1>2, EmptySeq, BoundAssumption DEF Init, StackTyped, Depth
<1>4. StateTyped
  BY BoundAssumption DEF Init, StateTyped
<1>5. \A s \in Senders : Delivering(s) = {}
  BY <1>2, EmptySeq DEF Delivering
<1>6. BusyCount
  BY <1>5, FS_EmptySet DEF BusyCount, Init
<1>7. Shape
  BY <1>2, <1>6 DEF Shape, Nested, OneThread, SameObject, HandlerLocks, OldShape, Counted, Marked, Drained,
                    PriorShape, CurrentRestored, At, Init
<1> QED BY <1>1, <1>3, <1>4, <1>7, InvGroups

LEMMA StepInv == IInv /\ [Next]_vars => IInv'
<1> SUFFICES ASSUME IInv, [Next]_vars PROVE IInv'
  OBVIOUS
<1>1. ListsTyped /\ StackTyped /\ StateTyped /\ Shape
  BY InvGroups
<1>2. CASE UNCHANGED vars
  <2>1. ListsTyped' /\ StackTyped' /\ StateTyped'
    BY <1>1, <1>2 DEF vars, listVars, ListsTyped, StackTyped, StateTyped
  <2>2. Kept
    BY <1>2 DEF vars, Kept, Same, Depth
  <2>3. Shape'
    BY <1>1, <1>2, <2>1, <2>2, FramesTyped, FramesTypedNext, QuietStep DEF vars
  <2> QED BY <2>1, <2>3 DEF ListsTyped, StackTyped, StateTyped, Shape, IInv, TypeOK
<1>3. CASE Next
  <2>1. ListsTyped' /\ StackTyped' /\ StateTyped' /\ Shape'
    BY <1>1, <1>3, UserStepKeeps, ActivatingKeeps DEF Next
  <2> QED BY <2>1 DEF ListsTyped, StackTyped, StateTyped, Shape, IInv, TypeOK
<1> QED BY <1>2, <1>3

\* IInv is an invariant: activations nest in one thread, m_activateBusy counts the
\* slots that they are in, and what they remember and beingDestroyed agree on who
\* finds out that the sender is gone, and who takes it out.
THEOREM Invariant == Spec => []IInv
BY InitInv, StepInv, PTL DEF Spec

\* The state is typed.
THEOREM TypeCorrect == Spec => []TypeOK
<1>1. IInv => TypeOK
  BY DEF IInv
<1> QED BY <1>1, Invariant, PTL

\* activate() does not touch the list or the counter of a sender that a slot, however
\* deeply nested, has destroyed: provided that no two threads activate it (Alone), and that
\* no new sender gets its address while the activations of the old one run (Unused).
THEOREM NotTouched == Spec => []SenderNotTouched
<1>1. IInv => SenderNotTouched
  <2> SUFFICES ASSUME IInv, NEW t \in Threads, stack[t] # <<>>,
                      Top(t).at \in {"loop", "store", "leave", "storing"}
               PROVE  Intact(Top(t))
    BY DEF SenderNotTouched
  <2>1. Top(t) = stack[t][Depth(t)] /\ Depth(t) \in 1 .. Depth(t)
    BY FramesTyped, TopTyped, InvGroups
  <2> QED BY <2>1 DEF IInv, Marked, SameObject, Intact
<1> QED BY <1>1, Invariant, PTL

\* m_activateBusy is the number of slots that the activations of a sender are in.
THEOREM CounterRight == Spec => []BusyCount
<1>1. IInv => BusyCount
  BY DEF IInv
<1> QED BY <1>1, Invariant, PTL

\* sender() in a slot is the sender that called it, and outside nullptr; and what the current
\* signal points to belongs to no activation that has ended.
THEOREM SenderRestored == Spec => []CurrentRestored
<1>1. IInv => CurrentRestored
  BY DEF IInv
<1> QED BY <1>1, Invariant, PTL

\* An address is in beingDestroyed only as long as there is the activation that takes
\* it out.
THEOREM DrainedInTheEnd == Spec => []BeingDestroyedDrained
<1>1. IInv => BeingDestroyedDrained
  <2> SUFFICES ASSUME IInv, NEW s \in beingDestroyed
               PROVE  \E f \in Activations : f.snd = s /\ ~Intact(f) /\ f.old = 0
                                             /\ f.at \in {"slot", "check", "catch"}
    BY DEF BeingDestroyedDrained
  <2>1. PICK t \in Threads : \E i \in 1 .. Depth(t) : stack[t][i].snd = s /\ stack[t][i].old = 0
    BY DEF IInv, Drained
  <2>2. PICK i \in 1 .. Depth(t) : stack[t][i].snd = s /\ stack[t][i].old = 0
    BY <2>1
  <2>3. s \notin alive
    BY DEF IInv, Drained
  <2>4. stack[t][i] \in Activations
    <3>1. i \in DOMAIN stack[t]
      BY FramesTyped, InvGroups DEF Frames
    <3> QED BY <3>1 DEF Activations
  <2>5. stack[t][i].at \in {"slot", "check", "catch"} /\ ~Intact(stack[t][i])
    BY <2>2, <2>3 DEF IInv, Marked, Intact
  <2> QED BY <2>2, <2>4, <2>5
<1> QED BY <1>1, Invariant, PTL

=============================================================================
