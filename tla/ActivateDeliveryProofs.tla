------------------------- MODULE ActivateDeliveryProofs -------------------------
(***************************************************************************)
(* Where activate() stands in a list that changes under it, and what it    *)
(* has still to come to: the receivers it calls exist, and an emission     *)
(* calls what Delivery promises, for any number of threads, objects,       *)
(* connections and nested activations.                                     *)
(***************************************************************************)
EXTENDS ActivateDelivery, ActivateProofs

-----------------------------------------------------------------------------
(* The order of a list *)

\* The elements of a list of connections.
LEMMA RangeIs ==
  ASSUME NEW seq \in Seq(Conns)
  PROVE  /\ Len(seq) \in Nat
         /\ \A x : x \in Range(seq) <=> \E i \in 1 .. Len(seq) : seq[i] = x
         /\ Range(seq) \subseteq Conns
<1>1. DOMAIN seq = 1 .. Len(seq) /\ Len(seq) \in Nat /\ \A i \in 1 .. Len(seq) : seq[i] \in Conns
  BY LenProperties, ElementOfSeq
<1> QED BY <1>1 DEF Range

\* push_back() puts a connection after all others.
LEMMA AppendOrder ==
  ASSUME NEW seq \in Seq(Conns), NEW x \in Conns
  PROVE  /\ Append(seq, x) \in Seq(Conns)
         /\ Range(Append(seq, x)) = Range(seq) \cup {x}
         /\ \A a, b : Precedes(Append(seq, x), a, b) <=> Precedes(seq, a, b) \/ (a \in Range(seq) /\ b = x)
<1> DEFINE w == Append(seq, x)
           n == Len(seq)
<1>1. /\ w \in Seq(Conns) /\ n \in Nat /\ Len(w) = n + 1
      /\ \A i \in 1 .. n : w[i] = seq[i]
      /\ w[n + 1] = x
  BY AppendProperties
<1> HIDE DEF w
<1>2. /\ \A y : y \in Range(w) <=> \E i \in 1 .. n + 1 : w[i] = y
      /\ \A y : y \in Range(seq) <=> \E i \in 1 .. n : seq[i] = y
  BY <1>1, RangeIs
<1>3. \A i : i \in 1 .. n + 1 <=> i \in 1 .. n \/ i = n + 1
  BY <1>1
<1>4. Range(w) = Range(seq) \cup {x}
  BY <1>1, <1>2, <1>3
<1>5. ASSUME NEW a, NEW b PROVE Precedes(w, a, b) <=> Precedes(seq, a, b) \/ (a \in Range(seq) /\ b = x)
  <2>1. ASSUME Precedes(w, a, b) PROVE Precedes(seq, a, b) \/ (a \in Range(seq) /\ b = x)
    <3>1. PICK i \in 1 .. n + 1, j \in 1 .. n + 1 : i < j /\ w[i] = a /\ w[j] = b
      BY <1>1, <2>1 DEF Precedes
    <3>2. i \in 1 .. n
      BY <1>1, <3>1
    <3>3. CASE j = n + 1
      BY <1>1, <1>2, <3>1, <3>2, <3>3
    <3>4. CASE j \in 1 .. n
      BY <1>1, <3>1, <3>2, <3>4 DEF Precedes
    <3> QED BY <1>3, <3>3, <3>4
  <2>2. ASSUME Precedes(seq, a, b) PROVE Precedes(w, a, b)
    <3>1. PICK i \in 1 .. n, j \in 1 .. n : i < j /\ seq[i] = a /\ seq[j] = b
      BY <2>2 DEF Precedes
    <3>2. i \in 1 .. Len(w) /\ j \in 1 .. Len(w) /\ w[i] = a /\ w[j] = b
      BY <1>1, <1>3, <3>1
    <3> QED BY <3>1, <3>2 DEF Precedes
  <2>3. ASSUME a \in Range(seq), b = x PROVE Precedes(w, a, b)
    <3>1. PICK i \in 1 .. n : seq[i] = a
      BY <1>2, <2>3
    <3>2. i \in 1 .. Len(w) /\ n + 1 \in 1 .. Len(w) /\ i < n + 1 /\ w[i] = a /\ w[n + 1] = b
      BY <1>1, <2>3, <3>1
    <3> QED BY <3>2 DEF Precedes
  <2> QED BY <2>1, <2>2, <2>3
<1> QED BY <1>1, <1>4, <1>5 DEF w

\* What comes before n elements of a list, and their order.
UpTo(seq, n, x) == \E i \in 1 .. n : seq[i] = x

OrderUpTo(seq, n, a, b) == \E i, j \in 1 .. n : i < j /\ seq[i] = a /\ seq[j] = b

\* w has those of the first n elements that are not in E, in their order.
KeptUpTo(w, seq, n, E) ==
  /\ w \in Seq(Conns)
  /\ \A x : x \in Range(w) <=> UpTo(seq, n, x) /\ x \notin E
  /\ \A a, b : Precedes(w, a, b) <=> OrderUpTo(seq, n, a, b) /\ a \notin E /\ b \notin E

\* Erasing keeps the order of the others.
LEMMA WithoutOrder ==
  ASSUME NEW seq \in Seq(Conns), NEW E
  PROVE  /\ Without(seq, E) \in Seq(Conns)
         /\ Range(Without(seq, E)) = Range(seq) \ E
         /\ \A a, b : Precedes(Without(seq, E), a, b) <=> Precedes(seq, a, b) /\ a \notin E /\ b \notin E
<1> DEFINE L == Len(seq)
<1>1. L \in Nat /\ \A i \in 1 .. L : seq[i] \in Conns
  BY ElementOfSeq
<1>2. PICK rest : KeepsOrNot(rest, L, seq, E) /\ Without(seq, E) = rest[L]
  BY WithoutIs
<1>3. KeptUpTo(rest[0], seq, 0, E)
  <2>1. rest[0] = <<>> /\ <<>> \in Seq(Conns) /\ Len(<<>>) = 0
    BY <1>2, EmptySeq DEF KeepsOrNot
  <2>2. \A x : x \notin Range(<<>>)
    <3>1. DOMAIN <<>> = {}
      OBVIOUS
    <3> QED BY <3>1 DEF Range
  <2>3. \A a, b : ~Precedes(<<>>, a, b)
    BY <2>1 DEF Precedes
  <2> QED BY <2>1, <2>2, <2>3 DEF KeptUpTo, UpTo, OrderUpTo
<1>4. ASSUME NEW n \in 1 .. L, KeptUpTo(rest[n - 1], seq, n - 1, E) PROVE KeptUpTo(rest[n], seq, n, E)
  <2>0. n \in Nat /\ n - 1 \in Nat /\ seq[n] \in Conns /\ \A i : i \in 1 .. n <=> i \in 1 .. n - 1 \/ i = n
    BY <1>1
  <2>1. /\ rest[n] = IF seq[n] \in E THEN rest[n - 1] ELSE Append(rest[n - 1], seq[n])
    BY <1>2 DEF KeepsOrNot
  <2>2. /\ rest[n - 1] \in Seq(Conns)
        /\ \A x : x \in Range(rest[n - 1]) <=> UpTo(seq, n - 1, x) /\ x \notin E
        /\ \A a, b : Precedes(rest[n - 1], a, b) <=> OrderUpTo(seq, n - 1, a, b) /\ a \notin E /\ b \notin E
    BY <1>4 DEF KeptUpTo
  <2>3. \A x : UpTo(seq, n, x) <=> UpTo(seq, n - 1, x) \/ x = seq[n]
    BY <2>0 DEF UpTo
  <2>4. \A a, b : OrderUpTo(seq, n, a, b) <=> OrderUpTo(seq, n - 1, a, b) \/ (UpTo(seq, n - 1, a) /\ b = seq[n])
    <3>1. ASSUME NEW a, NEW b, OrderUpTo(seq, n, a, b)
          PROVE  OrderUpTo(seq, n - 1, a, b) \/ (UpTo(seq, n - 1, a) /\ b = seq[n])
      <4>1. PICK i \in 1 .. n, j \in 1 .. n : i < j /\ seq[i] = a /\ seq[j] = b
        BY <3>1 DEF OrderUpTo
      <4>2. i \in 1 .. n - 1
        BY <2>0, <4>1
      <4> QED BY <2>0, <4>1, <4>2 DEF OrderUpTo, UpTo
    <3>2. ASSUME NEW a, NEW b, OrderUpTo(seq, n - 1, a, b) PROVE OrderUpTo(seq, n, a, b)
      BY <2>0, <3>2 DEF OrderUpTo
    <3>3. ASSUME NEW a, UpTo(seq, n - 1, a) PROVE OrderUpTo(seq, n, a, seq[n])
      <4>1. PICK i \in 1 .. n - 1 : seq[i] = a
        BY <3>3 DEF UpTo
      <4>2. i \in 1 .. n /\ n \in 1 .. n /\ i < n
        BY <2>0
      <4> QED BY <4>1, <4>2 DEF OrderUpTo
    <3> QED BY <3>1, <3>2, <3>3
  <2>5. CASE seq[n] \in E
    BY <2>1, <2>2, <2>3, <2>4, <2>5 DEF KeptUpTo
  <2>6. CASE seq[n] \notin E
    <3>1. /\ rest[n] \in Seq(Conns)
          /\ Range(rest[n]) = Range(rest[n - 1]) \cup {seq[n]}
          /\ \A a, b : Precedes(rest[n], a, b) <=>
               Precedes(rest[n - 1], a, b) \/ (a \in Range(rest[n - 1]) /\ b = seq[n])
      BY <2>0, <2>1, <2>2, <2>6, AppendOrder
    <3> QED BY <2>2, <2>3, <2>4, <2>6, <3>1 DEF KeptUpTo
  <2> QED BY <2>5, <2>6
<1>5. KeptUpTo(rest[L], seq, L, E)
  <2> DEFINE T == {n \in 0 .. L : ~KeptUpTo(rest[n], seq, n, E)}
  <2> SUFFICES ASSUME T # {} PROVE FALSE
    BY <1>1
  <2>1. T \in SUBSET Nat
    OBVIOUS
  <2>2. PICK n \in T : \A m \in T : n <= m
    <3> HIDE DEF T
    <3> QED BY <2>1, Least
  <2>3. n # 0 /\ n \in 0 .. L /\ ~KeptUpTo(rest[n], seq, n, E)
    BY <1>3, <2>2
  <2>4. n \in 1 .. L /\ n - 1 \in 0 .. L /\ ~(n <= n - 1)
    BY <1>1, <2>3
  <2>5. n - 1 \notin T
    <3> HIDE DEF T
    <3> QED BY <2>2, <2>4
  <2> QED BY <1>4, <2>3, <2>4, <2>5
<1>6. \A x : UpTo(seq, L, x) <=> x \in Range(seq)
  BY RangeIs DEF UpTo
<1>7. \A a, b : OrderUpTo(seq, L, a, b) <=> Precedes(seq, a, b)
  BY DEF OrderUpTo, Precedes
<1>8. Range(rest[L]) = Range(seq) \ E
  BY <1>5, <1>6 DEF KeptUpTo
<1> QED BY <1>2, <1>5, <1>7, <1>8 DEF KeptUpTo

\* operator++ from a linked connection.
LEMMA AfterIs ==
  ASSUME NEW seq \in Seq(Conns), \A x \in Conns : ~Precedes(seq, x, x), NEW c \in Range(seq)
  PROVE  \/ After(c, seq) = NULL /\ \A x : ~Precedes(seq, c, x)
         \/ /\ After(c, seq) \in Range(seq) /\ Precedes(seq, c, After(c, seq))
            /\ \A x : Precedes(seq, c, x) <=> x = After(c, seq) \/ Precedes(seq, After(c, seq), x)
<1> DEFINE n == Len(seq)
           next == {d \in Conns : \E k \in 2 .. n : seq[k - 1] = c /\ seq[k] = d}
<1>1. n \in Nat /\ \A i \in 1 .. n : seq[i] \in Conns
  BY ElementOfSeq
<1>2. \A i, j \in 1 .. n : seq[i] = seq[j] => i = j
  <2> SUFFICES ASSUME NEW i \in 1 .. n, NEW j \in 1 .. n, seq[i] = seq[j], i < j PROVE FALSE
    BY <1>1
  <2>1. Precedes(seq, seq[i], seq[i]) /\ seq[i] \in Conns
    BY <1>1 DEF Precedes
  <2> QED BY <2>1
<1>3. PICK k \in 1 .. n : seq[k] = c
  BY RangeIs
<1>4. ASSUME NEW x PROVE Precedes(seq, c, x) <=> \E j \in 1 .. n : k < j /\ seq[j] = x
  BY <1>2, <1>3 DEF Precedes
<1>5. CASE k = n
  <2>1. next = {}
    <3> SUFFICES ASSUME NEW j \in 2 .. n, seq[j - 1] = c PROVE FALSE
      OBVIOUS
    <3>1. j - 1 \in 1 .. n /\ j - 1 # n
      BY <1>1
    <3> QED BY <1>2, <1>3, <1>5, <3>1
  <2>2. After(c, seq) = NULL
    BY <2>1 DEF After
  <2> QED BY <1>1, <1>4, <1>5, <2>2
<1>6. CASE k # n
  <2>0. k + 1 \in 1 .. n /\ k + 1 \in 2 .. n /\ (k + 1) - 1 = k
    BY <1>1, <1>6
  <2> DEFINE d == seq[k + 1]
  <2>1. next = {d}
    <3>1. d \in next
      BY <1>1, <1>3, <2>0
    <3>2. ASSUME NEW j \in 2 .. n, seq[j - 1] = c PROVE seq[j] = d
      <4>1. j - 1 \in 1 .. n
        BY <1>1
      <4>2. j - 1 = k
        BY <1>2, <1>3, <3>2, <4>1
      <4>3. j = k + 1
        BY <4>2
      <4> QED BY <4>3
    <3> QED BY <3>1, <3>2
  <2>2. After(c, seq) = d
    BY <2>1 DEF After
  <2>3. d \in Range(seq)
    BY <2>0, RangeIs
  <2>4. ASSUME NEW x PROVE Precedes(seq, d, x) <=> \E j \in 1 .. n : k + 1 < j /\ seq[j] = x
    BY <1>2, <2>0 DEF Precedes
  <2>5. \A j \in 1 .. n : k < j <=> j = k + 1 \/ k + 1 < j
    BY <1>1
  <2>6. k < k + 1
    BY <1>1
  <2> HIDE DEF d
  <2>7. ASSUME NEW x PROVE Precedes(seq, c, x) <=> x = d \/ Precedes(seq, d, x)
    <3>1. Precedes(seq, c, x) <=> \E j \in 1 .. n : (j = k + 1 \/ k + 1 < j) /\ seq[j] = x
      BY <1>4, <2>5
    <3>2. Precedes(seq, d, x) <=> \E j \in 1 .. n : k + 1 < j /\ seq[j] = x
      BY <2>4
    <3> QED BY <2>0, <3>1, <3>2 DEF d
  <2> QED BY <2>2, <2>3, <2>7
<1> QED BY <1>5, <1>6

\* The beginning of the loop.
LEMMA FirstIs ==
  ASSUME NEW seq \in Seq(Conns)
  PROVE  \/ First(seq) = NULL /\ Range(seq) = {}
         \/ First(seq) \in Range(seq) /\ \A x \in Range(seq) : x = First(seq) \/ Precedes(seq, First(seq), x)
<1>1. CASE seq = <<>>
  <2>1. DOMAIN <<>> = {}
    OBVIOUS
  <2> QED BY <1>1, <2>1 DEF First, Range
<1>2. CASE seq # <<>>
  <2>1. 1 \in 1 .. Len(seq) /\ First(seq) = seq[1] /\ Len(seq) \in Nat
    BY <1>2, EmptySeq DEF First
  <2>2. ASSUME NEW x \in Range(seq), x # seq[1] PROVE Precedes(seq, seq[1], x)
    <3>1. PICK j \in 1 .. Len(seq) : seq[j] = x
      BY RangeIs
    <3>2. 1 < j
      BY <2>1, <2>2, <3>1
    <3> QED BY <2>1, <3>1, <3>2 DEF Precedes
  <2> QED BY <2>1, <2>2, RangeIs
<1> QED BY <1>1, <1>2

\* Both ends of an order are in the list.
LEMMA PrecedesIn ==
  ASSUME NEW seq \in Seq(Conns), NEW a, NEW b, Precedes(seq, a, b)
  PROVE  a \in Range(seq) /\ b \in Range(seq)
BY RangeIs DEF Precedes

-----------------------------------------------------------------------------
(* Where operator++ leads *)

\* A list of connections is one.
LEMMA LinkedIs ==
  ASSUME ListsTyped, NEW s \in Senders
  PROVE  /\ list[s] \in Seq(Conns) /\ Linked(s) \subseteq Conns /\ NULL \notin Linked(s)
         /\ \A c, d : Precedes(list[s], c, d) => c \in Linked(s) /\ d \in Linked(s)
<1>1. list[s] \in Seq(Conns)
  BY DEF ListsTyped
<1>2. Linked(s) \subseteq Conns /\ NULL \notin Conns
  BY <1>1, RangeIs, ObjectAssumption DEF Linked
<1> QED BY <1>1, <1>2, PrecedesIn DEF Linked

\* An address where a connection is.
LEMMA ConnIs ==
  ASSUME ListsTyped, NEW c \in Conns, conn[c] # Blank
  PROVE  conn[c].snd \in Senders /\ conn[c].sig \in Signals /\ conn[c].rcv \in Receivers
BY DEF ListsTyped

\* A connection of a list is at an address of that sender.
LEMMA InList ==
  ASSUME ListsTyped, ListShape, NEW s \in Senders, NEW c \in Linked(s)
  PROVE  c \in Conns /\ conn[c] # Blank /\ conn[c].snd = s /\ c \notin erased /\ conn[c].rcv \in alive
<1>1. Blank.snd = NULL /\ s # NULL
  BY ObjectAssumption DEF Blank
<1> QED BY <1>1, LinkedIs DEF ListShape

\* One step, and what is beyond.
LEMMA FollowIs ==
  ASSUME ListsTyped, ListShape, NEW B, Reaches(B), NEW c \in Conns, conn[c] # Blank
  PROVE  /\ \/ Follow(c) = NULL
            \/ Follow(c) \in Conns /\ conn[Follow(c)] # Blank /\ conn[Follow(c)].snd = conn[c].snd
         /\ \A d \in Conns :
              <<c, d>> \in B <=> Follow(c) # NULL /\ (d = Follow(c) \/ <<Follow(c), d>> \in B)
<1>1. NULL \notin Conns
  BY ObjectAssumption
<1>2. CASE c \in erased
  <2>1. Follow(c) = trail[c] /\ trail[c] \in Conns \cup {NULL}
    BY <1>2 DEF Follow, ListsTyped
  <2> QED BY <1>1, <1>2, <2>1 DEF ListShape, Reaches
<1>3. CASE c \notin erased
  <2>1. PICK s \in Senders : s = conn[c].snd
    BY ConnIs
  <2>2. c \in Linked(s) /\ Follow(c) = After(c, list[s])
    BY <1>3, <2>1 DEF ListShape, Follow
  <2>3. PICK n : n = Follow(c)
    OBVIOUS
  <2>4. /\ list[s] \in Seq(Conns) /\ c \in Range(list[s]) /\ Linked(s) = Range(list[s])
        /\ \A x \in Conns : ~Precedes(list[s], x, x)
    BY <2>2, LinkedIs DEF ListShape, Linked
  <2>5. \A d \in Conns : <<c, d>> \in B <=> Precedes(list[s], c, d)
    BY <2>2 DEF Reaches
  <2>6. \/ n = NULL /\ \A x : ~Precedes(list[s], c, x)
        \/ /\ n \in Linked(s)
           /\ \A x : Precedes(list[s], c, x) <=> x = n \/ Precedes(list[s], n, x)
    BY <2>2, <2>3, <2>4, AfterIs
  <2>7. CASE n = NULL
    BY <1>1, <2>3, <2>4, <2>5, <2>6, <2>7, LinkedIs
  <2>8. CASE n # NULL
    <3>1. n \in Linked(s) /\ n \in Conns /\ conn[n] # Blank /\ conn[n].snd = s
      BY <2>6, <2>8, InList
    <3>2. \A d \in Conns : <<n, d>> \in B <=> Precedes(list[s], n, d)
      BY <3>1 DEF Reaches
    <3> QED BY <2>1, <2>3, <2>5, <2>6, <2>8, <3>1, <3>2
  <2> QED BY <2>7, <2>8
<1> QED BY <1>2, <1>3

-----------------------------------------------------------------------------
(* What keeps an activation on its way *)

OnWay(f, B) == Stands(f) /\ Safe(f, B) /\ Owes(f, B)

\* What lies beyond a connection.
Beyond(c, B) == {d \in Conns : <<c, d>> \in B}

\* The activations are those on the stacks.
LEMMA ActivationIs ==
  ASSUME Frames
  PROVE  /\ \A f : f \in Activations <=> \E u \in Threads : \E i \in 1 .. Depth(u) : stack[u][i] = f
         /\ \A f \in Activations : f \in Frame
BY DEF Frames, Activations

LEMMA ActivationIsNext ==
  (Frames => /\ \A f : f \in Activations <=> \E u \in Threads : \E i \in 1 .. Depth(u) : stack[u][i] = f
             /\ \A f \in Activations : f \in Frame)'
<1>1. Frames => /\ \A f : f \in Activations <=> \E u \in Threads : \E i \in 1 .. Depth(u) : stack[u][i] = f
                /\ \A f \in Activations : f \in Frame
  BY ActivationIs
<1> QED BY <1>1, PTL

\* What an activation comes to are connections of its sender.
LEMMA ComingIs ==
  ASSUME NEW f, NEW B, Reaches(B), Stands(f)
  PROVE  \A d \in Coming(f, B) : d \in Conns /\ conn[d] # Blank /\ conn[d].snd = f.snd
<1>1. NULL \notin Conns
  BY ObjectAssumption
<1>2. ASSUME NEW d \in Coming(f, B) PROVE d \in Conns /\ conn[d] # Blank /\ conn[d].snd = f.snd
  <2>1. d \in Conns
    BY DEF Coming
  <2>2. f.cur # NULL
    BY <1>1 DEF Coming
  <2>3. f.cur \in Conns /\ conn[f.cur] # Blank /\ conn[f.cur].snd = f.snd
    BY <2>2 DEF Stands
  <2>4. CASE d = f.cur
    BY <2>3, <2>4
  <2>5. CASE <<f.cur, d>> \in B
    BY <2>1, <2>3, <2>5 DEF Reaches
  <2> QED BY <2>4, <2>5 DEF Coming
<1> QED BY <1>2

\* The next iteration.
LEMMA NextIteration ==
  ASSUME ListsTyped, ListShape, NEW B, Reaches(B), NEW f, OnWay(f, B), f.cur # NULL,
         f.due \subseteq Beyond(f.cur, B),
         NEW g, g.snd = f.snd, g.sig = f.sig, g.due = f.due, g.may = f.may,
         g.at = "loop", g.cur = Follow(f.cur)
  PROVE  OnWay(g, B)
<1>1. f.cur \in Conns /\ conn[f.cur] # Blank /\ conn[f.cur].snd = f.snd
  BY DEF OnWay, Stands
<1>2. PICK n : n = Follow(f.cur)
  OBVIOUS
<1>3. /\ n = NULL \/ (n \in Conns /\ conn[n] # Blank /\ conn[n].snd = f.snd)
      /\ \A d \in Conns : <<f.cur, d>> \in B <=> n # NULL /\ (d = n \/ <<n, d>> \in B)
  BY <1>1, <1>2, FollowIs
<1>4. NULL \notin Conns
  BY ObjectAssumption
<1>5. Coming(g, B) = Beyond(f.cur, B)
  BY <1>2, <1>3, <1>4 DEF Coming, Beyond
<1>6. Beyond(f.cur, B) \subseteq Coming(f, B)
  BY DEF Beyond, Coming
<1>7. Stands(g)
  BY <1>2, <1>3 DEF Stands
<1> QED BY <1>5, <1>6, <1>7 DEF OnWay, Safe, Owes

\* Within an iteration only what has been called is no longer owed.
LEMMA SameIteration ==
  ASSUME NEW B, Reaches(B), NEW f, OnWay(f, B), f.cur # NULL,
         NEW g, g.snd = f.snd, g.sig = f.sig, g.cur = f.cur, g.at # "loop",
         \/ f.at # "loop" /\ g.due = f.due /\ g.may = f.may
         \/ f.at = "loop" /\ g.due = f.due \ {f.cur} /\ g.may = f.may \ {f.cur}
  PROVE  OnWay(g, B)
<1>1. f.cur \in Conns /\ <<f.cur, f.cur>> \notin B
  BY DEF OnWay, Stands, Reaches
<1>2. Coming(g, B) = Beyond(f.cur, B) /\ f.cur \notin Beyond(f.cur, B)
  BY <1>1 DEF Coming, Beyond
<1>3. Coming(f, B) = IF f.at = "loop" THEN {f.cur} \cup Beyond(f.cur, B) ELSE Beyond(f.cur, B)
  BY <1>1 DEF Coming, Beyond
<1>4. Stands(g)
  BY DEF OnWay, Stands
<1> QED BY <1>2, <1>3, <1>4 DEF OnWay, Safe, Owes

\* Nothing happens to the connections of its sender.
LEMMA WayKept ==
  ASSUME ListsTyped, NEW f, NEW B, NEW C, Reaches(B), OnWay(f, B),
         \A c \in Conns : conn[c] # Blank /\ conn[c].snd = f.snd =>
           conn'[c] = conn[c] /\ \A d \in Conns : <<c, d>> \in C <=> <<c, d>> \in B,
         f.due \cup f.may \subseteq Conns, f.snd \in Senders,
         list'[f.snd] = list[f.snd],
         \A r \in Receivers : r \in alive => r \in alive'
  PROVE  OnWay(f, C)'
<1>1. NULL \notin Conns /\ Blank.snd = NULL /\ NULL \notin Senders
  BY ObjectAssumption DEF Blank
<1>2. Linked(f.snd)' = Linked(f.snd)
  BY DEF Linked
<1>3. f.cur # NULL => f.cur \in Conns /\ conn[f.cur] # Blank /\ conn[f.cur].snd = f.snd
  BY DEF OnWay, Stands
<1>4. Coming(f, C) = Coming(f, B)
  BY <1>1, <1>3 DEF Coming
<1>5. \A d \in Coming(f, B) : d \in Conns /\ conn[d] # Blank /\ conn'[d] = conn[d] /\ conn[d].rcv \in Receivers
  BY ComingIs, ConnIs DEF OnWay
<1>6. \A c \in f.due \cup f.may : conn'[c] = conn[c]
  BY <1>1 DEF OnWay, Owes
<1>7. Stands(f)'
  BY <1>3 DEF OnWay, Stands
<1>8. Safe(f, C)'
  BY <1>4, <1>5 DEF OnWay, Safe
<1>9. Owes(f, C)'
  BY <1>2, <1>4, <1>5, <1>6 DEF OnWay, Owes
<1> QED BY <1>7, <1>8, <1>9 DEF OnWay

\* One activation goes on, and the lists stay.
LEMMA GotoWalks ==
  ASSUME ListsTyped, StackTyped, ListShape, NEW B \in SUBSET (Conns \X Conns), Reaches(B), Walk(B),
         NEW t \in Threads, stack[t] # <<>>, NEW g, Goto(t, g), g.snd = Top(t).snd,
         UNCHANGED <<alive, listVars>>, g.snd \in alive => OnWay(g, B)
  PROVE  ListShape' /\ Way'
<1>0. Depth(t) \in 1 .. Depth(t) /\ stack[t] \in Seq(Frame) /\ \A u \in Threads : DOMAIN stack[u] = 1 .. Depth(u)
  BY FramesTyped, TopTyped DEF Frames, StackTyped
<1>1. \A u \in Threads : stack'[u] = IF u = t THEN [stack[t] EXCEPT ![Depth(t)] = g] ELSE stack[u]
  BY DEF Goto, StackTyped
<1>2. \A u \in Threads : /\ DOMAIN stack'[u] = DOMAIN stack[u]
                         /\ \A i \in DOMAIN stack[u] :
                              stack'[u][i] = IF u = t /\ i = Depth(t) THEN g ELSE stack[u][i]
  BY <1>0, <1>1
<1>3. \A f \in Activations' : f = g \/ f \in Activations
  BY <1>2 DEF Activations
<1>4. \A f \in Activations : \E h \in Activations' : h.snd = f.snd
  <2> SUFFICES ASSUME NEW f \in Activations PROVE \E h \in Activations' : h.snd = f.snd
    OBVIOUS
  <2>1. PICK u \in Threads : \E i \in DOMAIN stack[u] : stack[u][i] = f
    BY DEF Activations
  <2>2. PICK i \in DOMAIN stack[u] : stack[u][i] = f
    BY <2>1
  <2>3. stack'[u][i] \in Activations'
    BY <1>2, <2>2 DEF Activations
  <2>4. stack'[u][i].snd = f.snd
    BY <1>2, <2>2 DEF Top
  <2> QED BY <2>3, <2>4
<1>5. ListShape'
  <2>1. UNCHANGED <<alive, list, conn, erased, trail>> /\ \A s : Linked(s)' = Linked(s)
    BY DEF listVars, Linked
  <2>2. \A c \in erased : \E f \in Activations' : f.snd = conn[c].snd
    BY <1>4 DEF ListShape
  <2> QED BY <2>1, <2>2 DEF ListShape
<1>6. Reaches(B)'
  BY DEF Reaches, listVars, Linked
<1>7. Walk(B)'
  <2>1. \A f : OnWay(f, B)' <=> OnWay(f, B)
    BY DEF OnWay, Stands, Safe, Owes, Linked, listVars
  <2> SUFFICES ASSUME NEW f \in Activations', f.snd \in alive' PROVE OnWay(f, B)'
    BY DEF Walk, OnWay
  <2>2. OnWay(f, B)
    BY <1>3 DEF Walk, OnWay
  <2> QED BY <2>1, <2>2
<1> QED BY <1>5, <1>6, <1>7 DEF Way

\* The activation that a thread is in.
LEMMA TopWalks ==
  ASSUME StackTyped, NEW B, Walk(B), NEW t \in Threads, stack[t] # <<>>
  PROVE  /\ Top(t) \in Frame /\ Top(t) \in Activations /\ Top(t).snd \in Senders
         /\ Top(t).snd \in alive => OnWay(Top(t), B)
<1>1. Frames
  BY FramesTyped
<1>2. Top(t) \in Activations /\ Top(t) \in Frame
  BY <1>1, TopTyped, ActivationIs
<1> QED BY <1>1, <1>2 DEF Walk, OnWay, Frame

\* A connection of another signal: the activation goes on without having called it.
LEMMA SkipWalks ==
  ASSUME ListsTyped, StackTyped, ListShape, NEW B \in SUBSET (Conns \X Conns), Reaches(B), Walk(B),
         NEW t \in Threads, Skip(t)
  PROVE  ListShape' /\ Way'
<1> DEFINE f == Top(t)
           g == [f EXCEPT !.cur = Follow(f.cur)]
<1>1. /\ stack[t] # <<>> /\ f.at = "loop" /\ f.snd \in alive /\ f.cur # NULL
      /\ conn[f.cur].sig # f.sig /\ Goto(t, g) /\ UNCHANGED <<alive, listVars>>
  BY DEF Skip, At, Intact
<1>2. f \in Frame /\ OnWay(f, B)
  BY <1>1, TopWalks
<1>3. /\ g.snd = f.snd /\ g.sig = f.sig /\ g.due = f.due /\ g.may = f.may /\ g.at = "loop"
      /\ g.cur = Follow(f.cur)
  BY <1>1, <1>2 DEF Frame
<1>4. f.due \subseteq Beyond(f.cur, B)
  BY <1>1, <1>2 DEF OnWay, Owes, Coming, Beyond
<1> HIDE DEF g
<1>5. OnWay(g, B)
  <2> HIDE DEF f
  <2> QED BY <1>1, <1>2, <1>3, <1>4, NextIteration
<1> QED BY <1>1, <1>3, <1>5, GotoWalks

\* It begins to call it.
LEMMA VisitWalks ==
  ASSUME ListsTyped, StackTyped, ListShape, NEW B \in SUBSET (Conns \X Conns), Reaches(B), Walk(B),
         NEW t \in Threads, Visit(t)
  PROVE  ListShape' /\ Way'
<1> DEFINE f == Top(t)
           g == [f EXCEPT !.at = "store", !.old = busy[f.snd], !.due = @ \ {f.cur}, !.may = @ \ {f.cur}]
<1>1. /\ stack[t] # <<>> /\ f.at = "loop" /\ f.snd \in alive /\ f.cur # NULL
      /\ Goto(t, g) /\ UNCHANGED <<alive, listVars>>
  BY DEF Visit, At, Intact
<1>2. f \in Frame /\ OnWay(f, B)
  BY <1>1, TopWalks
<1>3. /\ g.snd = f.snd /\ g.sig = f.sig /\ g.due = f.due \ {f.cur} /\ g.may = f.may \ {f.cur} /\ g.at = "store"
      /\ g.cur = f.cur
  BY <1>1, <1>2 DEF Frame
<1> HIDE DEF g
<1>4. OnWay(g, B)
  <2> HIDE DEF f
  <2> QED BY <1>1, <1>2, <1>3, SameIteration
<1> QED BY <1>1, <1>3, <1>4, GotoWalks

\* It has called it, and goes on.
LEMMA ContinueWalks ==
  ASSUME ListsTyped, StackTyped, ListShape, NEW B \in SUBSET (Conns \X Conns), Reaches(B), Walk(B),
         NEW t \in Threads, Continue(t)
  PROVE  ListShape' /\ Way'
<1> DEFINE f == Top(t)
           g == [f EXCEPT !.at = "loop", !.cur = Follow(f.cur), !.old = 0]
<1>1. /\ stack[t] # <<>> /\ f.at = "storing" /\ f.snd \in alive
      /\ Goto(t, g) /\ UNCHANGED <<alive, listVars>>
  BY DEF Continue, At, Intact
<1>2. f \in Frame /\ OnWay(f, B)
  BY <1>1, TopWalks
<1>3. /\ g.snd = f.snd /\ g.sig = f.sig /\ g.due = f.due /\ g.may = f.may /\ g.at = "loop"
      /\ g.cur = Follow(f.cur)
  BY <1>1, <1>2 DEF Frame
<1>4. f.due \subseteq Beyond(f.cur, B) /\ f.cur # NULL
  <2>1. NULL \notin Conns
    BY ObjectAssumption
  <2> QED BY <1>1, <1>2, <2>1 DEF OnWay, Owes, Stands, Coming, Beyond
<1> HIDE DEF g
<1>5. OnWay(g, B)
  <2> HIDE DEF f
  <2> QED BY <1>1, <1>2, <1>3, <1>4, NextIteration
<1> QED BY <1>1, <1>3, <1>5, GotoWalks


\* The steps of an iteration between the two leave everything but the point and the counter.
LEMMA IterationGoes ==
  ASSUME StackTyped, NEW t \in Threads,
         Deliver(t) \/ Returning(t) \/ Check(t) \/ Handle(t) \/ Leave(t)
  PROVE  /\ stack[t] # <<>> /\ Top(t).at # "loop" /\ UNCHANGED <<alive, gen, listVars>>
         /\ \E g : /\ Goto(t, g) /\ g.snd = Top(t).snd /\ g.gen = Top(t).gen /\ g.sig = Top(t).sig
                  /\ g.cur = Top(t).cur /\ g.at # "loop" /\ g.due = Top(t).due /\ g.may = Top(t).may
<1> DEFINE f == Top(t)
           Goes(g) == /\ Goto(t, g) /\ g.snd = f.snd /\ g.gen = f.gen /\ g.sig = f.sig
                      /\ g.cur = f.cur /\ g.at # "loop" /\ g.due = f.due /\ g.may = f.may
<1>1. stack[t] # <<>> /\ f.at # "loop" /\ UNCHANGED <<alive, gen, listVars>>
  BY DEF Deliver, Returning, Return, Throw, Handled, Check, Handle, Leave, At
<1>2. f \in Frame
  BY <1>1, FramesTyped, TopTyped
<1>3. \E g : Goes(g)
  <2>1. ASSUME NEW p \in Point \ {"loop"}, Goto(t, [f EXCEPT !.at = p]) PROVE \E g : Goes(g)
    <3> DEFINE h == [f EXCEPT !.at = p]
    <3>1. Goes(h)
      BY <1>2, <2>1 DEF Frame
    <3> QED BY <3>1
  <2>2. CASE Leave(t)
    <3> DEFINE h == [f EXCEPT !.at = "storing", !.old = busy[f.snd]]
    <3>1. Goes(h)
      BY <1>2, <2>2 DEF Frame, Leave
    <3> QED BY <3>1
  <2> HIDE DEF Goes
  <2>3. CASE Deliver(t)
    <3>1. PICK p \in {"slot", "check"} : Goto(t, [f EXCEPT !.at = p])
      BY <2>3 DEF Deliver
    <3> QED BY <2>1, <3>1 DEF Point
  <2>4. CASE Return(t)
    BY <2>1, <2>4 DEF Return, Point
  <2>5. CASE Throw(t)
    BY <2>1, <2>5 DEF Throw, Point
  <2>6. CASE Handled(t)
    BY <2>1, <2>6 DEF Handled, Point
  <2>7. CASE Check(t)
    BY <2>1, <2>7 DEF Check, Point
  <2>8. CASE Handle(t)
    BY <2>1, <2>8 DEF Handle, Point
  <2> QED BY <2>2, <2>3, <2>4, <2>5, <2>6, <2>7, <2>8 DEF Returning
<1> QED BY <1>1, <1>3


LEMMA IterationWalks ==
  ASSUME ListsTyped, StackTyped, ListShape, NEW B \in SUBSET (Conns \X Conns), Reaches(B), Walk(B),
         NEW t \in Threads, Deliver(t) \/ Returning(t) \/ Check(t) \/ Handle(t) \/ Leave(t)
  PROVE  ListShape' /\ Way'
<1> DEFINE f == Top(t)
<1>1. stack[t] # <<>> /\ f.at # "loop" /\ UNCHANGED <<alive, listVars>>
  BY IterationGoes
<1>2. f \in Frame /\ (f.snd \in alive => OnWay(f, B)) /\ f.snd \in Senders
  BY <1>1, TopWalks DEF Frame
<1>3. PICK g : /\ Goto(t, g) /\ g.snd = f.snd /\ g.sig = f.sig /\ g.cur = f.cur /\ g.at # "loop"
               /\ g.due = f.due /\ g.may = f.may
  BY IterationGoes
<1>4. f.snd \in alive => f.cur # NULL
  BY <1>1, <1>2, ObjectAssumption DEF OnWay, Stands
<1> HIDE DEF f
<1>5. g.snd \in alive => OnWay(g, B)
  BY <1>1, <1>2, <1>3, <1>4, SameIteration
<1> QED BY <1>1, <1>3, <1>5, GotoWalks DEF f

\* No connection, no list.
LEMMA NothingIn == /\ \A x : x \notin Range(<<>>)
                   /\ \A x, y : ~Precedes(<<>>, x, y)
<1>1. DOMAIN <<>> = {} /\ Len(<<>>) = 0
  OBVIOUS
<1> QED BY <1>1 DEF Range, Precedes

\* Connections of which erase() has been called, or whose sender is gone, are
\* forgotten: for the activations of other senders nothing changes.
LEMMA ForgetWalks ==
  ASSUME ListsTyped, Frames, ListShape, NEW B \in SUBSET (Conns \X Conns), Reaches(B), Walk(B),
         NEW E \in SUBSET Conns, Forget(E),
         \A f \in Activations' : f.snd \in alive' =>
           /\ f \in Activations /\ f.snd \in alive /\ list'[f.snd] = list[f.snd]
           /\ \A c \in E : conn[c].snd # f.snd,
         \A s \in Senders :
           \/ /\ list'[s] = list[s] /\ \A c \in E : c \notin Linked(s)
              /\ s \in alive => s \in alive'
           \/ list'[s] = <<>> /\ \A c \in Conns : conn[c].snd = s => c \in E,
         \A c \in erased \ E : /\ \E f \in Activations' : f.snd = conn[c].snd
                               /\ \A d \in E : conn[d].snd # conn[c].snd,
         \A r \in Receivers : r \in alive => r \in alive'
  PROVE  ListShape' /\ Way'
<1> DEFINE C == {p \in B : p[1] \notin E /\ p[2] \notin E}
<1>1. /\ erased' = erased \ E
      /\ \A c \in Conns : trail'[c] = IF c \in E THEN NULL ELSE trail[c]
      /\ \A c \in Conns : conn'[c] = IF c \in E THEN Blank ELSE conn[c]
  BY DEF Forget
<1>2. C \in SUBSET (Conns \X Conns) /\ \A c, d : <<c, d>> \in C <=> <<c, d>> \in B /\ c \notin E /\ d \notin E
  OBVIOUS
<1> HIDE DEF C
<1>3. erased \subseteq Conns /\ NULL \notin Conns
  BY ObjectAssumption DEF ListsTyped
<1>4. ASSUME NEW s \in Senders, NEW c \in Linked(s)'
      PROVE  c \in Linked(s) /\ list'[s] = list[s] /\ c \in Conns /\ c \notin E
  <2>1. list'[s] # <<>>
    BY <1>4, NothingIn DEF Linked
  <2>2. list'[s] = list[s] /\ c \in Linked(s)
    BY <1>4, <2>1 DEF Linked
  <2>3. c \in Conns /\ conn[c].snd = s
    BY <2>2, InList
  <2> QED BY <2>1, <2>2, <2>3
<1>5. ListShape'
  <2>1. ASSUME NEW s \in Senders, NEW c \in Conns PROVE ~Precedes(list'[s], c, c)
    BY NothingIn DEF ListShape
  <2>2. ASSUME NEW s \in Senders, NEW c \in Linked(s)'
        PROVE  conn'[c].snd = s /\ c \notin erased' /\ conn'[c].rcv \in alive'
    <3>1. c \in Linked(s) /\ c \notin E /\ c \in Conns
      BY <1>4
    <3>2. /\ conn'[c] = conn[c] /\ conn[c].snd = s /\ c \notin erased /\ conn[c].rcv \in alive
          /\ conn[c].rcv \in Receivers
      BY <1>1, <3>1, InList, ConnIs
    <3> QED BY <1>1, <3>2
  <2>3. ASSUME NEW c \in Conns, conn'[c] # Blank
        PROVE  conn'[c].snd \in alive' /\ (c \in erased' \/ c \in Range(list'[conn'[c].snd]))
    <3>1. c \notin E /\ conn'[c] = conn[c] /\ conn[c].snd \in alive /\ conn[c].snd \in Senders
      BY <1>1, <2>3, ConnIs DEF ListShape
    <3>2. conn[c].snd \in alive' /\ list'[conn[c].snd] = list[conn[c].snd]
      BY <3>1
    <3>3. c \in erased \/ c \in Range(list[conn[c].snd])
      BY <2>3, <3>1 DEF ListShape, Linked
    <3> QED BY <1>1, <3>1, <3>2, <3>3
  <2>4. ASSUME NEW c \in erased'
        PROVE  /\ conn'[c] # Blank
               /\ \E f \in Activations' : f.snd = conn'[c].snd
               /\ trail'[c] # NULL => conn'[trail'[c]] # Blank /\ conn'[trail'[c]].snd = conn'[c].snd
    <3>1. /\ c \in erased \ E /\ c \in Conns /\ conn'[c] = conn[c] /\ conn[c] # Blank
          /\ trail'[c] = trail[c] /\ trail[c] \in Conns \cup {NULL}
      BY <1>1, <1>3 DEF ListShape, ListsTyped
    <3>2. trail[c] # NULL => /\ conn[trail[c]] # Blank /\ conn[trail[c]].snd = conn[c].snd
                             /\ trail[c] \notin E /\ trail[c] \in Conns
      BY <3>1 DEF ListShape
    <3> QED BY <1>1, <3>1, <3>2
  <2> QED BY <2>1, <2>2, <2>3, <2>4 DEF ListShape, Linked
<1>6. Reaches(C)'
  <2>1. ASSUME NEW c \in Conns, NEW d \in Conns, <<c, d>> \in C
        PROVE  conn'[c] # Blank /\ conn'[d] # Blank /\ conn'[c].snd = conn'[d].snd
    BY <1>1, <1>2, <2>1 DEF Reaches
  <2>2. ASSUME NEW s \in Senders, NEW c \in Linked(s)', NEW d \in Conns
        PROVE  <<c, d>> \in C <=> Precedes(list'[s], c, d)
    <3>1. c \in Linked(s) /\ list'[s] = list[s] /\ c \notin E
      BY <1>4
    <3>2. <<c, d>> \in B <=> Precedes(list[s], c, d)
      BY <3>1 DEF Reaches
    <3>3. Precedes(list[s], c, d) => d \in Linked(s)'
      BY <3>1, LinkedIs DEF Linked
    <3>4. d \in Linked(s)' => d \notin E
      BY <1>4
    <3> QED BY <1>2, <3>1, <3>2, <3>3, <3>4
  <2>3. ASSUME NEW c \in erased', NEW d \in Conns
        PROVE  <<c, d>> \in C <=> trail'[c] # NULL /\ (d = trail'[c] \/ <<trail'[c], d>> \in C)
    <3>1. c \in erased \ E /\ c \in Conns /\ trail'[c] = trail[c] /\ trail[c] \in Conns \cup {NULL}
      BY <1>1, <1>3 DEF ListsTyped
    <3>2. \A x \in Conns : <<c, x>> \in B <=> trail[c] # NULL /\ (x = trail[c] \/ <<trail[c], x>> \in B)
      BY <3>1 DEF Reaches
    <3>3. \A x \in Conns : <<c, x>> \in B => x \notin E
      BY <3>1 DEF Reaches
    <3> QED BY <1>2, <3>1, <3>2, <3>3
  <2>4. \A c \in Conns : <<c, c>> \notin C
    BY <1>2 DEF Reaches
  <2> QED BY <2>1, <2>2, <2>3, <2>4 DEF Reaches
<1>7. ASSUME NEW f \in Activations', f.snd \in alive' PROVE OnWay(f, C)'
  <2>1. /\ f \in Activations /\ f.snd \in alive /\ (\A c \in E : conn[c].snd # f.snd) /\ f.snd \in Senders
        /\ list'[f.snd] = list[f.snd] /\ OnWay(f, B) /\ f.due \cup f.may \subseteq Conns
    BY <1>7, ActivationIs DEF Walk, OnWay, Frame
  <2>2. ASSUME NEW c \in Conns, conn[c] # Blank, conn[c].snd = f.snd
        PROVE  conn'[c] = conn[c] /\ \A d \in Conns : <<c, d>> \in C <=> <<c, d>> \in B
    BY <1>1, <1>2, <2>1, <2>2 DEF Reaches
  <2> QED BY <2>1, <2>2, WayKept
<1> QED BY <1>2, <1>5, <1>6, <1>7 DEF Way, Walk, OnWay

\* activate() returns: what is forgotten are connections that no activation can stand on.
LEMMA PopForgets ==
  ASSUME StackTyped, NEW t \in Threads, stack[t] # <<>>, Pop(t)
  PROVE  /\ Frames /\ Frames' /\ Popped(t) /\ UNCHANGED list
         /\ \A f \in Activations' : f \in Activations
         /\ \A f \in Activations : f.snd # Top(t).snd => f \in Activations'
         /\ \E E \in SUBSET erased :
              /\ Forget(E)
              /\ \A c \in E : conn[c].snd = Top(t).snd /\ \A f \in Activations' : f.snd # conn[c].snd
              /\ \A c \in erased \ E : conn[c].snd = Top(t).snd => \E f \in Activations' : f.snd = Top(t).snd
<1> DEFINE s == Top(t).snd
           E == {c \in erased : conn[c].snd = s /\ \A f \in Activations' : f.snd # s}
<1>1. stack' = [stack EXCEPT ![t] = Front(@)] /\ UNCHANGED list
  BY DEF Pop
<1>2. Frames /\ Frames' /\ Popped(t)
  BY <1>1, PopShrinks, FramesTyped, FramesTypedNext
<1>3. Forget(E)
  <2> DEFINE others == UNION {{stack'[u][i].snd : i \in DOMAIN stack'[u]} : u \in Threads}
  <2>1. Forget({c \in erased : conn[c].snd = s /\ s \notin others})
    BY <1>1 DEF Pop
  <2>2. s \notin others <=> \A f \in Activations' : f.snd # s
    BY DEF Activations
  <2>3. {c \in erased : conn[c].snd = s /\ s \notin others} = E
    BY <2>2
  <2> HIDE DEF s, E, others
  <2> QED BY <2>1, <2>3
<1>4. ASSUME NEW f \in Activations' PROVE f \in Activations
  <2>1. PICK u \in Threads : \E i \in 1 .. Len(stack'[u]) : stack'[u][i] = f
    BY <1>2, <1>4, ActivationIsNext DEF Depth
  <2>2. PICK i \in 1 .. Len(stack'[u]) : stack'[u][i] = f
    BY <2>1
  <2>3. i \in 1 .. Depth(u) /\ stack[u][i] = f
    BY <1>2, <2>2 DEF Popped, Frames, Depth
  <2> QED BY <1>2, <2>3, ActivationIs
<1>5. ASSUME NEW f \in Activations, f.snd # s PROVE f \in Activations'
  <2>1. PICK u \in Threads : \E i \in 1 .. Depth(u) : stack[u][i] = f
    BY <1>2, ActivationIs
  <2>2. PICK i \in 1 .. Depth(u) : stack[u][i] = f
    BY <2>1
  <2>3. i \in 1 .. Len(stack'[u]) /\ stack'[u][i] = f
    BY <1>2, <1>5, <2>2 DEF Popped, Frames, Depth, Top
  <2> QED BY <1>2, <2>3, ActivationIsNext DEF Depth
<1>6. /\ E \in SUBSET erased
      /\ \A c \in E : conn[c].snd = s /\ \A f \in Activations' : f.snd # conn[c].snd
      /\ \A c \in erased \ E : conn[c].snd = s => \E f \in Activations' : f.snd = s
  OBVIOUS
<1> HIDE DEF E
<1> QED BY <1>1, <1>2, <1>3, <1>4, <1>5, <1>6

LEMMA PopWalks ==
  ASSUME ListsTyped, StackTyped, ListShape, NEW B \in SUBSET (Conns \X Conns), Reaches(B), Walk(B),
         NEW t \in Threads, stack[t] # <<>>, Pop(t), UNCHANGED alive
  PROVE  ListShape' /\ Way'
<1>1. /\ Frames /\ UNCHANGED list /\ \A f \in Activations' : f \in Activations
      /\ \A f \in Activations : f.snd # Top(t).snd => f \in Activations'
  BY PopForgets
<1>2. PICK E \in SUBSET erased :
        /\ Forget(E)
        /\ \A c \in E : conn[c].snd = Top(t).snd /\ \A f \in Activations' : f.snd # conn[c].snd
        /\ \A c \in erased \ E : conn[c].snd = Top(t).snd => \E f \in Activations' : f.snd = Top(t).snd
  BY PopForgets
<1>3. E \in SUBSET Conns
  BY <1>2 DEF ListsTyped
<1>4. \A f \in Activations' : f.snd \in alive' =>
        /\ f \in Activations /\ f.snd \in alive /\ list'[f.snd] = list[f.snd]
        /\ \A c \in E : conn[c].snd # f.snd
  BY <1>1, <1>2
<1>5. \A u \in Senders : list'[u] = list[u] /\ (\A c \in E : c \notin Linked(u)) /\ (u \in alive => u \in alive')
  BY <1>1, <1>2 DEF ListShape
<1>6. ASSUME NEW c \in erased \ E
      PROVE  (\E f \in Activations' : f.snd = conn[c].snd) /\ \A d \in E : conn[d].snd # conn[c].snd
  <2>1. \E f \in Activations' : f.snd = conn[c].snd
    BY <1>1, <1>2 DEF ListShape
  <2> QED BY <1>2, <2>1
<1> QED BY <1>1, <1>2, <1>3, <1>4, <1>5, <1>6, ForgetWalks

\* ~SignalBase.
LEMMA DestroySenderWalks ==
  ASSUME ListsTyped, StackTyped, ListShape, NEW B \in SUBSET (Conns \X Conns), Reaches(B), Walk(B),
         NEW t \in Threads, NEW s \in Senders, DestroySender(t, s)
  PROVE  ListShape' /\ Way'
<1> DEFINE E == {c \in Conns : conn[c].snd = s}
<1>1. /\ Forget(E) /\ alive' = alive \ {s} /\ stack' = stack
      /\ \A u \in Senders : list'[u] = IF u = s THEN <<>> ELSE list[u]
  BY DEF DestroySender, ListsTyped
<1>2. Activations' = Activations /\ \A f \in Activations : f.snd \in Senders
  BY <1>1, FramesTyped, ActivationIs DEF Activations, Frame
<1>3. \A f \in Activations' : f.snd \in alive' =>
        /\ f \in Activations /\ f.snd \in alive /\ list'[f.snd] = list[f.snd]
        /\ \A c \in E : conn[c].snd # f.snd
  BY <1>1, <1>2
<1>4. ASSUME NEW u \in Senders, u # s
      PROVE  list'[u] = list[u] /\ (\A c \in E : c \notin Linked(u)) /\ (u \in alive => u \in alive')
  BY <1>1, <1>4 DEF ListShape
<1>5. list'[s] = <<>> /\ \A c \in Conns : conn[c].snd = s => c \in E
  BY <1>1
<1>6. \A r \in Receivers : r \in alive => r \in alive'
  BY <1>1, ObjectAssumption
<1>7. E \in SUBSET Conns
  OBVIOUS
<1>8. \A c \in erased \ E : /\ \E f \in Activations' : f.snd = conn[c].snd
                            /\ \A d \in E : conn[d].snd # conn[c].snd
  BY <1>2 DEF ListShape, ListsTyped
<1> HIDE DEF E
<1> QED BY <1>1, <1>3, <1>4, <1>5, <1>6, <1>7, <1>8, FramesTyped, ForgetWalks

\* A new sender has no connections.
LEMMA CreateWalks ==
  ASSUME ListsTyped, StackTyped, ListShape, NEW B \in SUBSET (Conns \X Conns), Reaches(B), Walk(B),
         NEW t \in Threads, NEW s \in Senders, Unused(s), Create(t, s)
  PROVE  ListShape' /\ Way'
<1>1. alive' = alive \cup {s} /\ stack' = stack /\ UNCHANGED listVars
  BY DEF Create
<1>2. Activations' = Activations
  BY <1>1 DEF Activations
<1>3. ListShape'
  BY <1>1, <1>2 DEF ListShape, Linked, listVars
<1>4. Reaches(B)'
  BY <1>1 DEF Reaches, Linked, listVars
<1>5. ASSUME NEW f \in Activations', f.snd \in alive' PROVE OnWay(f, B)'
  <2>1. f \in Activations /\ f.snd \in alive /\ f.snd \in Senders /\ f.due \cup f.may \subseteq Conns
    BY <1>1, <1>2, <1>5, FramesTyped, ActivationIs DEF Unused, Frame
  <2> QED BY <1>1, <2>1, WayKept DEF Walk, OnWay, listVars
<1> QED BY <1>3, <1>4, <1>5 DEF Way, Walk, OnWay

\* activate() begins with the whole list ahead.
LEMMA EmitWalks ==
  ASSUME ListsTyped, StackTyped, StateTyped, ListShape, NEW B \in SUBSET (Conns \X Conns), Reaches(B), Walk(B),
         NEW t \in Threads, NEW s \in Senders, NEW sig \in Signals, Emit(t, s, sig)
  PROVE  ListShape' /\ Way'
<1> DEFINE g == [snd |-> s, gen |-> gen[s], sig |-> sig, at |-> "loop", cur |-> First(list[s]),
                 old |-> 0, priorSender |-> currentSender[t], priorSignal |-> currentSignal[t],
                 due |-> Of(s, sig), may |-> Of(s, sig)]
<1>1. stack' = [stack EXCEPT ![t] = Append(@, g)] /\ UNCHANGED <<alive, listVars>> /\ Depth(t) < MaxDepth
  BY DEF Emit
<1>2. list[s] \in Seq(Conns) /\ Linked(s) \subseteq Conns /\ NULL \notin Linked(s)
  BY LinkedIs
<1>3. g \in Frame
  <2>1. First(list[s]) \in Conns \cup {NULL} /\ Of(s, sig) \in SUBSET Conns
    BY <1>2, FirstTyped DEF Of, Linked
  <2>2. gen[s] \in Nat /\ currentSender[t] \in Senders \cup {NULL} /\ currentSignal[t] \in 0 .. MaxDepth
    BY BoundAssumption DEF StateTyped
  <2> QED BY <2>1, <2>2 DEF Frame, Point
<1>4. /\ g.snd = s /\ g.sig = sig /\ g.at = "loop" /\ g.cur = First(list[s])
      /\ g.due = Of(s, sig) /\ g.may = Of(s, sig)
  OBVIOUS
<1> HIDE DEF g
<1>5. Of(s, sig) \subseteq Linked(s) /\ \A c \in Linked(s) : c \in Of(s, sig) <=> conn[c].sig = sig
  BY DEF Of, Linked
<1>6. \A c \in Linked(s) : c \in Conns /\ conn[c] # Blank /\ conn[c].snd = s /\ conn[c].rcv \in alive
  BY InList
<1>7. OnWay(g, B)
  <2>1. CASE First(list[s]) = NULL /\ Linked(s) = {}
    <3>1. Coming(g, B) = {} /\ g.due = {} /\ g.may = {}
      BY <1>4, <1>5, <2>1, ObjectAssumption DEF Coming
    <3> QED BY <1>4, <2>1, <3>1 DEF OnWay, Stands, Safe, Owes
  <2>2. CASE First(list[s]) \in Linked(s)
             /\ \A x \in Linked(s) : x = First(list[s]) \/ Precedes(list[s], First(list[s]), x)
    <3> DEFINE n == First(list[s])
    <3>1. \A d \in Conns : <<n, d>> \in B <=> Precedes(list[s], n, d)
      BY <2>2 DEF Reaches
    <3> HIDE DEF n
    <3>2. \A d : Precedes(list[s], n, d) => d \in Linked(s)
      BY LinkedIs
    <3>3. Coming(g, B) = Linked(s)
      BY <1>2, <1>4, <1>6, <2>2, <3>1, <3>2 DEF Coming, n
    <3> QED BY <1>2, <1>4, <1>5, <1>6, <2>2, <3>3 DEF OnWay, Stands, Safe, Owes
  <2> QED BY <1>2, <2>1, <2>2, FirstIs DEF Linked
<1>8. StackTyped' /\ Pushed(t, g)
  BY <1>1, <1>3, PushGrows
<1>9. Frames /\ Frames'
  BY <1>8, FramesTyped, FramesTypedNext
<1>10. ASSUME NEW f \in Activations' PROVE f = g \/ f \in Activations
  <2>1. PICK u \in Threads : \E i \in 1 .. Len(stack'[u]) : stack'[u][i] = f
    BY <1>9, <1>10, ActivationIsNext DEF Depth
  <2>2. PICK i \in 1 .. Len(stack'[u]) : stack'[u][i] = f
    BY <2>1
  <2>3. i \in 1 .. Depth(u) \/ (u = t /\ i = Depth(t) + 1)
    BY <1>8, <1>9, <2>2 DEF Pushed, Frames, Depth
  <2> QED BY <1>8, <1>9, <2>2, <2>3, ActivationIs DEF Pushed
<1>11. ASSUME NEW f \in Activations PROVE f \in Activations'
  <2>1. PICK u \in Threads : \E i \in 1 .. Depth(u) : stack[u][i] = f
    BY <1>9, ActivationIs
  <2>2. PICK i \in 1 .. Depth(u) : stack[u][i] = f
    BY <2>1
  <2>3. i \in 1 .. Len(stack'[u]) /\ stack'[u][i] = f
    BY <1>8, <1>9, <2>2 DEF Pushed, Frames, Depth
  <2> QED BY <1>9, <2>3, ActivationIsNext DEF Depth
<1>12. ListShape'
  <2>1. \A c \in erased : \E f \in Activations' : f.snd = conn[c].snd
    BY <1>11 DEF ListShape
  <2> QED BY <1>1, <2>1 DEF ListShape, listVars, Linked
<1>13. Reaches(B)'
  BY <1>1 DEF Reaches, listVars, Linked
<1>14. \A f : OnWay(f, B)' <=> OnWay(f, B)
  BY <1>1 DEF OnWay, Stands, Safe, Owes, Linked, listVars
<1>15. ASSUME NEW f \in Activations', f.snd \in alive' PROVE OnWay(f, B)'
  <2>1. OnWay(f, B)
    BY <1>1, <1>7, <1>10, <1>15 DEF Walk, OnWay
  <2> QED BY <1>14, <2>1
<1> QED BY <1>12, <1>13, <1>15 DEF Way, Walk, OnWay

\* connect(): what led to a linked connection of the sender now leads to the new one, too.
LEMMA ConnectWalks ==
  ASSUME ListsTyped, StackTyped, ListShape, NEW B \in SUBSET (Conns \X Conns), Reaches(B), Walk(B),
         NEW t \in Threads, NEW s \in Senders, NEW sig \in Signals, NEW r \in Receivers, Connect(t, s, sig, r)
  PROVE  ListShape' /\ Way'
<1>1. /\ s \in alive /\ r \in alive /\ UNCHANGED <<alive, erased, trail>>
  BY DEF Connect
<1>2. PICK c \in Conns :
        /\ conn[c] = Blank
        /\ list' = [list EXCEPT ![s] = Append(@, c)]
        /\ conn' = [conn EXCEPT ![c] = [snd |-> s, sig |-> sig, rcv |-> r]]
        /\ stack' = [u \in Threads |-> [i \in DOMAIN stack[u] |->
             LET f == stack[u][i] IN
             IF f.snd = s /\ f.sig = sig THEN [f EXCEPT !.may = @ \cup {c}] ELSE f]]
  BY DEF Connect
<1>3. /\ \A u \in Senders : list'[u] = IF u = s THEN Append(list[s], c) ELSE list[u]
      /\ \A d \in Conns : d # c => conn'[d] = conn[d]
      /\ conn'[c].snd = s /\ conn'[c].sig = sig /\ conn'[c].rcv = r /\ conn'[c] # Blank
  <2>1. Blank.snd = NULL /\ s # NULL
    BY ObjectAssumption DEF Blank
  <2>2. conn'[c] = [snd |-> s, sig |-> sig, rcv |-> r]
    BY <1>2 DEF ListsTyped
  <2>3. conn'[c].snd = s /\ conn'[c].sig = sig /\ conn'[c].rcv = r
    BY <2>2
  <2> QED BY <1>2, <2>1, <2>3 DEF ListsTyped
<1>4. /\ Append(list[s], c) \in Seq(Conns)
      /\ Range(list'[s]) = Linked(s) \cup {c}
      /\ \A a, b : Precedes(list'[s], a, b) <=> Precedes(list[s], a, b) \/ (a \in Linked(s) /\ b = c)
  BY <1>3, AppendOrder DEF ListsTyped, Linked
<1>5. c \notin erased /\ \A u \in Senders : c \notin Linked(u)
  BY <1>2, InList DEF ListShape
<1>6. \A u \in Senders : Linked(u)' = IF u = s THEN Linked(s) \cup {c} ELSE Linked(u)
  BY <1>3, <1>4 DEF Linked
<1>7. \A u \in Senders : Linked(u) \subseteq Conns
  BY LinkedIs
<1>8. ASSUME NEW u \in Threads, NEW i \in DOMAIN stack[u]
      PROVE  stack'[u][i] \in Activations' /\ stack'[u][i].snd = stack[u][i].snd
  <2>1. stack'[u][i] \in Activations'
    <3>1. u \in DOMAIN stack' /\ i \in DOMAIN stack'[u]
      BY <1>2
    <3> QED BY <3>1 DEF Activations
  <2>2. PICK f : f = stack[u][i]
    OBVIOUS
  <2>3. f \in Frame
    <3>1. f \in Activations
      BY <2>2 DEF Activations
    <3> QED BY <3>1, FramesTyped, ActivationIs
  <2>4. stack'[u][i] = IF f.snd = s /\ f.sig = sig THEN [f EXCEPT !.may = @ \cup {c}] ELSE f
    BY <1>2, <2>2
  <2>5. stack'[u][i].snd = f.snd
    BY <2>3, <2>4 DEF Frame
  <2> QED BY <2>1, <2>2, <2>5
<1>9. ListShape'
  <2>1. ASSUME NEW u \in Senders
        PROVE  /\ \A d \in Conns : ~Precedes(list'[u], d, d)
               /\ \A d \in Linked(u)' : conn'[d].snd = u /\ d \notin erased' /\ conn'[d].rcv \in alive'
    BY <1>1, <1>3, <1>4, <1>5, <1>6, <1>7 DEF ListShape
  <2>2. ASSUME NEW d \in Conns, conn'[d] # Blank
        PROVE  conn'[d].snd \in alive' /\ (d \in erased' \/ d \in Range(list'[conn'[d].snd]))
    <3>1. CASE d = c
      BY <1>1, <1>3, <1>4, <3>1
    <3>2. CASE d # c
      <4>1. conn'[d] = conn[d] /\ conn[d].snd \in alive /\ conn[d].snd \in Senders
            /\ (d \in erased \/ d \in Linked(conn[d].snd))
        BY <1>3, <2>2, <3>2, ConnIs DEF ListShape
      <4> QED BY <1>1, <1>6, <4>1 DEF Linked
    <3> QED BY <3>1, <3>2
  <2>3. ASSUME NEW d \in erased'
        PROVE  /\ conn'[d] # Blank
               /\ \E f \in Activations' : f.snd = conn'[d].snd
               /\ trail'[d] # NULL => conn'[trail'[d]] # Blank /\ conn'[trail'[d]].snd = conn'[d].snd
    <3>1. /\ d \in erased /\ d \in Conns /\ d # c /\ conn'[d] = conn[d] /\ conn[d] # Blank
          /\ trail'[d] = trail[d] /\ trail[d] \in Conns \cup {NULL}
      BY <1>1, <1>3, <1>5 DEF ListShape, ListsTyped
    <3>2. PICK f \in Activations : f.snd = conn[d].snd
      BY <3>1 DEF ListShape
    <3>3. \E g \in Activations' : g.snd = f.snd
      BY <1>8 DEF Activations
    <3>4. trail[d] # NULL => trail[d] # c /\ conn[trail[d]] # Blank /\ conn[trail[d]].snd = conn[d].snd
      BY <1>2, <3>1 DEF ListShape
    <3> QED BY <1>3, <3>1, <3>2, <3>3, <3>4
  <2> QED BY <2>1, <2>2, <2>3 DEF ListShape, Linked
<1> DEFINE Before(x) == x \in Linked(s) \/ \E y \in Linked(s) : <<x, y>> \in B
<1>10. PICK C \in SUBSET (Conns \X Conns) :
         \A x, d \in Conns : <<x, d>> \in C <=> <<x, d>> \in B \/ (Before(x) /\ d = c)
  <2> DEFINE D == B \cup {p \in Conns \X Conns : Before(p[1]) /\ p[2] = c}
  <2>1. D \in SUBSET (Conns \X Conns)
    OBVIOUS
  <2>2. \A x, d \in Conns : <<x, d>> \in D <=> <<x, d>> \in B \/ (Before(x) /\ d = c)
    OBVIOUS
  <2> QED BY <2>1, <2>2
<1>11. \A x \in Conns : Before(x) => x # c /\ conn[x] # Blank /\ conn[x].snd = s
  <2>1. \A x \in Conns, y \in Conns : <<x, y>> \in B => conn[x] # Blank /\ conn[x].snd = conn[y].snd
    BY DEF Reaches
  <2> QED BY <1>2, <2>1, InList
<1>12. \A x, d \in Conns : <<x, d>> \in B => x # c /\ d # c
  BY <1>2 DEF Reaches
<1>13. Reaches(C)'
  <2>1. ASSUME NEW x \in Conns, NEW d \in Conns, <<x, d>> \in C
        PROVE  conn'[x] # Blank /\ conn'[d] # Blank /\ conn'[x].snd = conn'[d].snd
    <3>1. CASE <<x, d>> \in B
      BY <1>3, <1>12, <3>1 DEF Reaches
    <3>2. CASE Before(x) /\ d = c
      <4> HIDE DEF Before
      <4> QED BY <1>3, <1>11, <3>2
    <3> QED BY <1>10, <2>1, <3>1, <3>2
  <2>2. ASSUME NEW u \in Senders, NEW x \in Linked(u)', NEW d \in Conns
        PROVE  <<x, d>> \in C <=> Precedes(list'[u], x, d)
    <3>0. x \in Conns
      BY <1>6, <1>7
    <3>1. CASE x = c
      <4>1. u = s /\ ~Precedes(list'[s], c, d)
        <5>1. u = s
          BY <1>5, <1>6, <3>1
        <5>2. ~Precedes(list[s], c, d) /\ c \notin Linked(s)
          BY <1>5, LinkedIs
        <5> QED BY <1>4, <5>1, <5>2
      <4>2. <<c, d>> \notin C
        <5> HIDE DEF Before
        <5> QED BY <1>10, <1>11, <1>12
      <4> QED BY <3>1, <4>1, <4>2
    <3>2. CASE x # c
      <4>1. x \in Linked(u) /\ (<<x, d>> \in B <=> Precedes(list[u], x, d))
        BY <1>6, <3>2 DEF Reaches
      <4>2. CASE u = s
        <5>1. Before(x)
          BY <4>1, <4>2
        <5> HIDE DEF Before
        <5> QED BY <1>4, <1>10, <3>0, <4>1, <4>2, <5>1
      <4>3. CASE u # s
        <5>1. ~Before(x)
          <6> HIDE DEF Before
          <6> QED BY <1>11, <3>0, <4>1, <4>3, InList
        <5> HIDE DEF Before
        <5> QED BY <1>3, <1>10, <3>0, <4>1, <4>3, <5>1
      <4> QED BY <4>2, <4>3
    <3> QED BY <3>1, <3>2
  <2>3. ASSUME NEW x \in erased', NEW d \in Conns
        PROVE  <<x, d>> \in C <=> trail'[x] # NULL /\ (d = trail'[x] \/ <<trail'[x], d>> \in C)
    <3>1. /\ x \in erased /\ x \in Conns /\ trail'[x] = trail[x] /\ trail[x] \in Conns \cup {NULL}
          /\ NULL \notin Conns
      BY <1>1, ObjectAssumption DEF ListsTyped
    <3>2. \A y \in Conns : <<x, y>> \in B <=> trail[x] # NULL /\ (y = trail[x] \/ <<trail[x], y>> \in B)
      BY <3>1 DEF Reaches
    <3>3. x \notin Linked(s)
      BY <3>1 DEF ListShape
    <3>4. Before(x) <=> trail[x] # NULL /\ Before(trail[x])
      BY <1>7, <3>2, <3>3
    <3> HIDE DEF Before
    <3> QED BY <1>10, <3>1, <3>2, <3>4
  <2>4. \A x \in Conns : <<x, x>> \notin C
    <3> HIDE DEF Before
    <3> QED BY <1>10, <1>11 DEF Reaches
  <2> HIDE DEF Before
  <2> QED BY <2>1, <2>2, <2>3, <2>4 DEF Reaches
<1>14. ASSUME NEW x \in Conns, NEW d \in Conns, x # c, d # c PROVE <<x, d>> \in C <=> <<x, d>> \in B
  <2> HIDE DEF Before
  <2> QED BY <1>10, <1>14
<1>15. ASSUME NEW d \in Conns PROVE <<d, c>> \in C => conn[d].snd = s /\ d # c
  <2> HIDE DEF Before
  <2> QED BY <1>10, <1>11, <1>12
<1> HIDE DEF Before
<1>16. ASSUME NEW f \in Frame, OnWay(f, B), f.snd \in alive,
              NEW g, g = IF f.snd = s /\ f.sig = sig THEN [f EXCEPT !.may = @ \cup {c}] ELSE f
       PROVE  OnWay(g, C)'
  <2>0. f.snd \in Senders /\ f.due \subseteq Conns /\ f.may \subseteq Conns
    BY <1>16 DEF Frame
  <2>1. /\ g.snd = f.snd /\ g.sig = f.sig /\ g.at = f.at /\ g.cur = f.cur /\ g.due = f.due
        /\ g.may = IF f.snd = s /\ f.sig = sig THEN f.may \cup {c} ELSE f.may
    BY <1>16 DEF Frame
  <2>2. f.cur # c /\ c \notin f.due /\ c \notin f.may
    <3>1. Blank.snd = NULL /\ NULL \notin Senders /\ c # NULL
      BY ObjectAssumption DEF Blank
    <3> QED BY <1>2, <1>16, <2>0, <3>1 DEF OnWay, Owes, Stands
  <2>3. Linked(f.snd) \subseteq Linked(f.snd)'
    BY <1>6, <2>0
  <2>4. f.cur # NULL => f.cur \in Conns /\ conn[f.cur] # Blank /\ conn[f.cur].snd = f.snd
    BY <1>16 DEF OnWay, Stands
  <2>5. \A d \in Conns : d # c => (d \in Coming(g, C) <=> d \in Coming(f, B))
    BY <1>14, <2>1, <2>2, <2>4 DEF Coming
  <2>6. Coming(g, C) \subseteq Conns /\ \A d \in Coming(f, B) : d \in Conns /\ d # c
    BY <1>2, <1>16, ComingIs DEF OnWay, Coming
  <2>7. c \in Coming(g, C) => f.snd = s
    BY <1>15, <2>1, <2>2, <2>4 DEF Coming
  <2>8. Stands(g)'
    BY <1>3, <1>16, <2>1, <2>2 DEF OnWay, Stands
  <2>9. Safe(g, C)'
    BY <1>1, <1>3, <1>16, <2>1, <2>5, <2>6 DEF OnWay, Safe
  <2>10. Owes(g, C)'
    <3>1. g.due \subseteq Coming(g, C) \cap Linked(g.snd)'
      BY <1>16, <2>0, <2>1, <2>2, <2>3, <2>5 DEF OnWay, Owes
    <3>2. \A d \in g.due \cup g.may : conn'[d].snd = g.snd /\ conn'[d].sig = g.sig
      BY <1>3, <1>16, <2>0, <2>1, <2>2 DEF OnWay, Owes
    <3>3. ASSUME NEW d \in Coming(g, C), conn'[d].sig = g.sig PROVE d \in g.may
      <4>1. CASE d = c
        BY <1>3, <2>1, <2>7, <3>3, <4>1
      <4>2. CASE d # c
        <5>1. d \in Conns /\ d \in Coming(f, B) /\ conn'[d] = conn[d]
          BY <1>3, <2>5, <2>6, <4>2
        <5> QED BY <1>16, <2>1, <3>3, <5>1 DEF OnWay, Owes
      <4> QED BY <4>1, <4>2
    <3> QED BY <3>1, <3>2, <3>3 DEF Owes
  <2> QED BY <2>8, <2>9, <2>10 DEF OnWay
<1>17. ASSUME NEW g \in Activations', g.snd \in alive' PROVE OnWay(g, C)'
  <2>1. PICK u \in Threads : \E i \in DOMAIN stack'[u] : stack'[u][i] = g
    BY <1>17 DEF Activations
  <2>2. PICK i \in DOMAIN stack'[u] : stack'[u][i] = g
    BY <2>1
  <2> DEFINE f == stack[u][i]
  <2>3. i \in DOMAIN stack[u] /\ g = IF f.snd = s /\ f.sig = sig THEN [f EXCEPT !.may = @ \cup {c}] ELSE f
    BY <1>2, <2>2
  <2>4. f \in Activations
    BY <2>3 DEF Activations
  <2>5. f \in Frame
    BY <2>4, FramesTyped, ActivationIs
  <2> HIDE DEF f
  <2>6. g.snd = f.snd
    BY <2>3, <2>5 DEF Frame
  <2>7. OnWay(f, B) /\ f.snd \in alive
    BY <1>1, <1>17, <2>4, <2>6 DEF Walk, OnWay
  <2> QED BY <1>16, <2>3, <2>5, <2>7
<1> QED BY <1>9, <1>10, <1>13, <1>17 DEF Way, Walk, OnWay

\* Of two different connections of a list only one comes before the other.
LEMMA NotBefore ==
  ASSUME NEW seq \in Seq(Conns), \A x \in Conns : ~Precedes(seq, x, x), NEW a, NEW b,
         Precedes(seq, a, b), Precedes(seq, b, a)
  PROVE  FALSE
<1> DEFINE n == Len(seq)
<1>1. n \in Nat /\ \A i \in 1 .. n : seq[i] \in Conns
  BY ElementOfSeq
<1>2. PICK i, j \in 1 .. n : i < j /\ seq[i] = a /\ seq[j] = b
  BY DEF Precedes
<1>3. PICK k, l \in 1 .. n : k < l /\ seq[k] = b /\ seq[l] = a
  BY DEF Precedes
<1>4. CASE k < j
  BY <1>1, <1>2, <1>3, <1>4 DEF Precedes
<1>5. CASE ~(k < j)
  <2>1. i < l
    BY <1>1, <1>2, <1>3, <1>5
  <2> QED BY <1>1, <1>2, <1>3, <2>1 DEF Precedes
<1> QED BY <1>4, <1>5

\* A way over finitely many connections that never leads back comes to an end.
GoesOn(C, T) == \A x \in T : \E n \in T : \A y \in Conns : <<x, y>> \in C <=> y = n \/ <<n, y>> \in C

NoLoop(C) == \A x \in Conns : <<x, x>> \notin C

LEMMA WayEnds ==
  ASSUME NEW C, NoLoop(C), NEW T \in SUBSET Conns, GoesOn(C, T)
  PROVE  T = {}
<1> SUFFICES ASSUME T # {} PROVE FALSE
  OBVIOUS
<1>1. \A x : IsFiniteSet(Beyond(x, C)) /\ Cardinality(Beyond(x, C)) \in Nat
  BY ObjectAssumption, FS_Subset, FS_CardinalityType DEF Beyond
<1> DEFINE Sizes == {Cardinality(Beyond(x, C)) : x \in T}
<1>2. Sizes \in SUBSET Nat /\ Sizes # {}
  BY <1>1
<1>3. PICK m \in Sizes : \A k \in Sizes : m <= k
  <2> HIDE DEF Sizes
  <2> QED BY <1>2, Least
<1>4. PICK x \in T : m = Cardinality(Beyond(x, C))
  BY <1>3
<1>5. PICK n \in T : \A y \in Conns : <<x, y>> \in C <=> y = n \/ <<n, y>> \in C
  BY DEF GoesOn
<1>6. Beyond(n, C) \subseteq Beyond(x, C) /\ n \in Beyond(x, C) /\ n \notin Beyond(n, C)
  BY <1>5 DEF Beyond, NoLoop
<1>7. Cardinality(Beyond(n, C)) \in Sizes
  OBVIOUS
<1>8. m <= Cardinality(Beyond(n, C))
  <2> HIDE DEF Sizes
  <2> QED BY <1>3, <1>7
<1> QED BY <1>1, <1>4, <1>6, <1>8, FS_Subset

\* What erasing some connections does.
LEMMA EraseIs ==
  ASSUME ListsTyped, StackTyped, ListShape, NEW E \in SUBSET Conns, Erase(E),
         \A c \in E : \E s \in Senders : c \in Linked(s)
  PROVE  /\ erased \subseteq erased' /\ erased' \subseteq erased \cup E
         /\ \A c \in Conns : c \in E => c \notin erased /\ conn[c] # Blank
         /\ \A c \in Conns : conn'[c] = IF c \in E \ erased' THEN Blank ELSE conn[c]
         /\ \A c \in erased' : trail'[c] = Follow(c) /\ \E f \in Activations : f.snd = conn[c].snd
         /\ \A c \in E, f \in Activations : f.snd = conn[c].snd => c \in erased'
         /\ \A s \in Senders :
              /\ Linked(s)' = Linked(s) \ E
              /\ \A a, b : Precedes(list'[s], a, b) <=> Precedes(list[s], a, b) /\ a \notin E /\ b \notin E
         /\ \A f \in Activations : \E g \in Activations' : g.snd = f.snd
         /\ \A g \in Activations' : \E f \in Activations :
              /\ g.snd = f.snd /\ g.sig = f.sig /\ g.at = f.at /\ g.cur = f.cur /\ g.may = f.may
              /\ g.due = f.due \ E
<1> DEFINE kept == {c \in E : \E f \in Activations : f.snd = conn[c].snd}
<1>1. /\ \A s \in Senders : list'[s] = Without(list[s], E)
      /\ erased' = erased \cup kept
      /\ \A c \in Conns : trail'[c] = IF c \in kept THEN Follow(c) ELSE trail[c]
      /\ \A c \in Conns : conn'[c] = IF c \in E \ kept THEN Blank ELSE conn[c]
      /\ stack' = [u \in Threads |-> [i \in DOMAIN stack[u] |-> [stack[u][i] EXCEPT !.due = @ \ E]]]
  BY DEF Erase
<1>2. kept \subseteq E /\ \A c \in E : c \in kept <=> \E f \in Activations : f.snd = conn[c].snd
  OBVIOUS
<1> HIDE DEF kept
<1>3. \A c \in E : c \notin erased /\ conn[c] # Blank
  BY InList
<1>4. \A s \in Senders :
        /\ Linked(s)' = Linked(s) \ E
        /\ \A a, b : Precedes(list'[s], a, b) <=> Precedes(list[s], a, b) /\ a \notin E /\ b \notin E
  BY <1>1, WithoutOrder DEF ListsTyped, Linked
<1>5. ASSUME NEW c \in erased' PROVE trail'[c] = Follow(c) /\ \E f \in Activations : f.snd = conn[c].snd
  BY <1>1, <1>2, <1>3 DEF Follow, ListShape, ListsTyped
<1>6. ASSUME NEW u \in Threads, NEW i \in DOMAIN stack[u], NEW f, f = stack[u][i]
      PROVE  \E g \in Activations' : /\ g = stack'[u][i]
                                     /\ g.snd = f.snd /\ g.sig = f.sig /\ g.at = f.at /\ g.cur = f.cur
                                     /\ g.may = f.may /\ g.due = f.due \ E
  <2>1. PICK g : g = stack'[u][i]
    OBVIOUS
  <2>2. g = [f EXCEPT !.due = @ \ E] /\ i \in DOMAIN stack'[u]
    BY <1>1, <1>6, <2>1
  <2>3. f \in Frame
    <3>1. f \in Activations
      BY <1>6 DEF Activations
    <3> QED BY <3>1, FramesTyped, ActivationIs
  <2>4. /\ g.snd = f.snd /\ g.sig = f.sig /\ g.at = f.at /\ g.cur = f.cur
        /\ g.may = f.may /\ g.due = f.due \ E
    BY <2>2, <2>3 DEF Frame
  <2>5. g \in Activations'
    <3>1. Activations' = UNION {{stack'[v][j] : j \in DOMAIN stack'[v]} : v \in Threads}
      BY DEF Activations
    <3>2. g \in {stack'[u][j] : j \in DOMAIN stack'[u]}
      BY <2>1, <2>2
    <3> QED BY <3>1, <3>2
  <2> QED BY <2>1, <2>4, <2>5
<1>7. ASSUME NEW f \in Activations PROVE \E g \in Activations' : g.snd = f.snd
  <2>1. PICK u \in Threads : \E i \in DOMAIN stack[u] : stack[u][i] = f
    BY DEF Activations
  <2> QED BY <1>6, <2>1
<1>8. ASSUME NEW g \in Activations'
      PROVE  \E f \in Activations :
               /\ g.snd = f.snd /\ g.sig = f.sig /\ g.at = f.at /\ g.cur = f.cur /\ g.may = f.may
               /\ g.due = f.due \ E
  <2>1. PICK u \in Threads : \E i \in DOMAIN stack'[u] : stack'[u][i] = g
    BY DEF Activations
  <2>2. PICK i \in DOMAIN stack'[u] : stack'[u][i] = g
    BY <2>1
  <2>3. i \in DOMAIN stack[u]
    BY <1>1, <2>2
  <2>4. PICK f : f = stack[u][i]
    OBVIOUS
  <2>5. f \in Activations
    BY <2>3, <2>4 DEF Activations
  <2>6. /\ g.snd = f.snd /\ g.sig = f.sig /\ g.at = f.at /\ g.cur = f.cur
        /\ g.may = f.may /\ g.due = f.due \ E
    BY <1>6, <2>2, <2>3, <2>4
  <2> QED BY <2>5, <2>6
<1> QED BY <1>1, <1>2, <1>3, <1>4, <1>5, <1>7, <1>8

\* C is what is left of a way B: what has been erased is still come to, but not by way of a
\* connection that is linked.
Remains(B, C, E) ==
  \A x, d \in Conns : <<x, d>> \in C <=>
    /\ <<x, d>> \in B /\ x \notin E \ erased' /\ d \notin E \ erased'
    /\ d \in E => \A z \in Conns : z = x \/ <<x, z>> \in B =>
                    z \in erased' \/ <<z, d>> \notin B

LEMMA RemainsIs ==
  ASSUME NEW B \in SUBSET (Conns \X Conns), NEW E
  PROVE  \E C \in SUBSET (Conns \X Conns) : Remains(B, C, E)
<1> DEFINE Stays(x, d) ==
             /\ x \notin E \ erased' /\ d \notin E \ erased'
             /\ d \in E => \A z \in Conns : z = x \/ <<x, z>> \in B =>
                             z \in erased' \/ <<z, d>> \notin B
           C == {p \in B : Stays(p[1], p[2])}
<1>1. \A x, d \in Conns : <<x, d>> \in C <=> <<x, d>> \in B /\ Stays(x, d)
  BY DEF Stays
<1>2. Remains(B, C, E)
  <2> HIDE DEF C
  <2> QED BY <1>1 DEF Remains
<1>3. C \in SUBSET (Conns \X Conns)
  OBVIOUS
<1> QED BY <1>2, <1>3

\* Erasing keeps the shape of the lists, and leaves a way.
LEMMA EraseReaches ==
  ASSUME ListsTyped, StackTyped, ListShape, NEW B \in SUBSET (Conns \X Conns), Reaches(B),
         NEW E \in SUBSET Conns, Erase(E), \A c \in E : \E s \in Senders : c \in Linked(s),
         \A s \in Senders : s \in alive <=> s \in alive',
         \A s \in Senders : \A c \in Linked(s) \ E : conn[c].rcv \in alive',
         NEW C \in SUBSET (Conns \X Conns), Remains(B, C, E)
  PROVE  ListShape' /\ Reaches(C)'
<1>1. /\ erased \subseteq erased' /\ erased' \subseteq erased \cup E
      /\ \A c \in Conns : c \in E => c \notin erased /\ conn[c] # Blank
      /\ \A c \in Conns : conn'[c] = IF c \in E \ erased' THEN Blank ELSE conn[c]
      /\ \A c \in erased' : trail'[c] = Follow(c) /\ \E f \in Activations : f.snd = conn[c].snd
      /\ \A c \in E, f \in Activations : f.snd = conn[c].snd => c \in erased'
      /\ \A f \in Activations : \E g \in Activations' : g.snd = f.snd
  BY EraseIs
<1>2. \A s \in Senders :
        /\ Linked(s)' = Linked(s) \ E
        /\ \A a, b : Precedes(list'[s], a, b) <=> Precedes(list[s], a, b) /\ a \notin E /\ b \notin E
  BY EraseIs
<1>3. erased \subseteq Conns /\ erased' \subseteq Conns /\ NULL \notin Conns
  BY <1>1, ObjectAssumption DEF ListsTyped
<1>4. \A c \in erased' : conn[c] # Blank
  BY <1>1 DEF ListShape
<1>5. ASSUME NEW c \in erased'
      PROVE  /\ \/ Follow(c) = NULL
                \/ /\ Follow(c) \in Conns /\ conn[Follow(c)] # Blank /\ conn[Follow(c)].snd = conn[c].snd
                   /\ Follow(c) \notin E \ erased'
             /\ \A d \in Conns : <<c, d>> \in B <=> Follow(c) # NULL /\ (d = Follow(c) \/ <<Follow(c), d>> \in B)
  <2>1. /\ \/ Follow(c) = NULL
           \/ Follow(c) \in Conns /\ conn[Follow(c)] # Blank /\ conn[Follow(c)].snd = conn[c].snd
        /\ \A d \in Conns : <<c, d>> \in B <=> Follow(c) # NULL /\ (d = Follow(c) \/ <<Follow(c), d>> \in B)
    BY <1>3, <1>4, FollowIs
  <2>2. ASSUME Follow(c) \in E, conn[Follow(c)].snd = conn[c].snd PROVE Follow(c) \in erased'
    BY <1>1, <2>2
  <2> QED BY <2>1, <2>2
<1>6. ListShape'
  <2>1. ASSUME NEW s \in Senders
        PROVE  /\ \A d \in Conns : ~Precedes(list'[s], d, d)
               /\ \A d \in Linked(s)' : conn'[d].snd = s /\ d \notin erased' /\ conn'[d].rcv \in alive'
    <3>1. \A d \in Conns : ~Precedes(list'[s], d, d)
      BY <1>2 DEF ListShape
    <3>2. ASSUME NEW d \in Linked(s)' PROVE conn'[d].snd = s /\ d \notin erased' /\ conn'[d].rcv \in alive'
      <4>1. d \in Linked(s) /\ d \notin E
        BY <1>2
      <4>2. d \in Conns /\ conn[d].snd = s /\ d \notin erased
        BY <4>1, InList
      <4> QED BY <1>1, <4>1, <4>2
    <3> QED BY <3>1, <3>2
  <2>2. ASSUME NEW d \in Conns, conn'[d] # Blank
        PROVE  conn'[d].snd \in alive' /\ (d \in erased' \/ d \in Range(list'[conn'[d].snd]))
    <3>1. /\ conn'[d] = conn[d] /\ conn[d].snd \in alive /\ conn[d].snd \in Senders
          /\ (d \in erased \/ d \in Linked(conn[d].snd))
          /\ d \in E => d \in erased'
      BY <1>1, <2>2, ConnIs DEF ListShape
    <3>2. d \in erased' \/ d \in Linked(conn[d].snd)'
      BY <1>1, <1>2, <3>1
    <3> QED BY <3>1, <3>2 DEF Linked
  <2>3. ASSUME NEW c \in erased'
        PROVE  /\ conn'[c] # Blank
               /\ \E f \in Activations' : f.snd = conn'[c].snd
               /\ trail'[c] # NULL => conn'[trail'[c]] # Blank /\ conn'[trail'[c]].snd = conn'[c].snd
    <3>1. c \in Conns /\ conn'[c] = conn[c] /\ conn[c] # Blank /\ trail'[c] = Follow(c)
      BY <1>1, <1>3, <1>4
    <3>2. \E f \in Activations' : f.snd = conn[c].snd
      BY <1>1
    <3>3. Follow(c) # NULL => conn'[Follow(c)] # Blank /\ conn'[Follow(c)].snd = conn[c].snd
      BY <1>1, <1>5
    <3> QED BY <3>1, <3>2, <3>3
  <2> QED BY <2>1, <2>2, <2>3 DEF ListShape, Linked
<1>7. Reaches(C)'
  <2>1. ASSUME NEW x \in Conns, NEW d \in Conns, <<x, d>> \in C
        PROVE  conn'[x] # Blank /\ conn'[d] # Blank /\ conn'[x].snd = conn'[d].snd
    BY <1>1, <2>1 DEF Reaches, Remains
  <2>2. ASSUME NEW s \in Senders, NEW x \in Linked(s)', NEW d \in Conns
        PROVE  <<x, d>> \in C <=> Precedes(list'[s], x, d)
    <3>1. x \in Linked(s) /\ x \notin E
      BY <1>2
    <3>2. x \in Conns /\ x \notin erased'
      BY <1>1, <3>1, InList
    <3>3. <<x, d>> \in B <=> Precedes(list[s], x, d)
      BY <3>1 DEF Reaches
    <3> QED BY <1>2, <3>1, <3>2, <3>3 DEF Remains
  <2>3. ASSUME NEW x \in erased', NEW d \in Conns
        PROVE  <<x, d>> \in C <=> trail'[x] # NULL /\ (d = trail'[x] \/ <<trail'[x], d>> \in C)
    <3>1. PICK n : n = Follow(x)
      OBVIOUS
    <3>2. /\ trail'[x] = n /\ x \in Conns
          /\ n = NULL \/ (n \in Conns /\ conn[n] # Blank /\ conn[n].snd = conn[x].snd /\ n \notin E \ erased')
          /\ \A y \in Conns : <<x, y>> \in B <=> n # NULL /\ (y = n \/ <<n, y>> \in B)
      BY <1>1, <1>3, <1>5, <3>1
    <3>3. CASE n = NULL
      BY <3>2, <3>3 DEF Remains
    <3>4. CASE n # NULL
      <4>1. n \in Conns /\ \A y \in Conns : <<x, y>> \in B <=> y = n \/ <<n, y>> \in B
        BY <3>2, <3>4
      <4>2. ASSUME NEW z \in Conns, z \notin erased', z = x \/ <<x, z>> \in B, <<z, n>> \in B PROVE FALSE
        <5>1. z = n \/ <<n, z>> \in B
          BY <4>1, <4>2
        <5>2. <<n, n>> \notin B /\ <<z, z>> \notin B
          BY <4>1 DEF Reaches
        <5>3. <<n, z>> \in B
          BY <4>2, <5>1, <5>2
        <5>4. conn[z] # Blank /\ z \notin erased
          BY <1>1, <4>1, <4>2 DEF Reaches
        <5>5. PICK s \in Senders : s = conn[z].snd
          BY <5>4, ConnIs
        <5>6. z \in Linked(s)
          BY <5>4, <5>5 DEF ListShape
        <5>7. Precedes(list[s], z, n)
          BY <4>1, <4>2, <5>6 DEF Reaches
        <5>8. n \in Linked(s)
          BY <5>7, LinkedIs
        <5>9. Precedes(list[s], n, z)
          BY <5>3, <5>8 DEF Reaches
        <5>10. list[s] \in Seq(Conns) /\ \A y \in Conns : ~Precedes(list[s], y, y)
          BY LinkedIs DEF ListShape
        <5> QED BY <5>7, <5>9, <5>10, NotBefore
      <4>3. CASE d = n
        <5>1. <<x, d>> \in B /\ x \notin E \ erased' /\ d \notin E \ erased'
          BY <3>2, <4>1, <4>3
        <5>2. \A z \in Conns : z = x \/ <<x, z>> \in B => z \in erased' \/ <<z, d>> \notin B
          BY <4>2, <4>3
        <5> QED BY <3>2, <3>4, <4>3, <5>1, <5>2 DEF Remains
      <4>4. CASE d # n
        <5>1. <<x, d>> \in B <=> <<n, d>> \in B
          BY <4>1, <4>4
        <5>2. x \notin E \ erased' /\ n \notin E \ erased'
          BY <3>2, <3>4
        <5>3. (\A z \in Conns : z = x \/ <<x, z>> \in B => z \in erased' \/ <<z, d>> \notin B)
              <=> (\A z \in Conns : z = n \/ <<n, z>> \in B => z \in erased' \/ <<z, d>> \notin B)
          BY <4>1
        <5>4. <<x, d>> \in C <=> <<n, d>> \in C
          BY <3>2, <4>1, <5>1, <5>2, <5>3 DEF Remains
        <5> QED BY <3>2, <3>4, <4>4, <5>4
      <4> QED BY <4>3, <4>4
    <3> QED BY <3>3, <3>4
  <2>4. \A x \in Conns : <<x, x>> \notin C
    BY DEF Reaches, Remains
  <2> QED BY <2>1, <2>2, <2>3, <2>4 DEF Reaches
<1> QED BY <1>6, <1>7

\* An activation stands where it stood, and comes to nothing new.
LEMMA EraseStands ==
  ASSUME ListsTyped, StackTyped, ListShape, NEW B \in SUBSET (Conns \X Conns), Reaches(B), Walk(B),
         NEW E \in SUBSET Conns, Erase(E), \A c \in E : \E s \in Senders : c \in Linked(s),
         \A s \in Senders : s \in alive <=> s \in alive',
         NEW C \in SUBSET (Conns \X Conns), Remains(B, C, E),
         NEW g \in Activations', g.snd \in alive'
  PROVE  /\ Stands(g)' /\ Owes(g, C)'
         /\ \E f \in Activations :
              /\ g.snd = f.snd /\ g.sig = f.sig /\ g.at = f.at /\ g.cur = f.cur
              /\ f.snd \in alive /\ OnWay(f, B)
              /\ \A d \in Coming(g, C) : d \in Coming(f, B) /\ conn'[d] = conn[d]
<1>1. /\ \A c \in Conns : conn'[c] = IF c \in E \ erased' THEN Blank ELSE conn[c]
      /\ \A c \in E, f \in Activations : f.snd = conn[c].snd => c \in erased'
      /\ \A s \in Senders : Linked(s)' = Linked(s) \ E
  BY EraseIs
<1>2. PICK f \in Activations :
        /\ g.snd = f.snd /\ g.sig = f.sig /\ g.at = f.at /\ g.cur = f.cur /\ g.may = f.may
        /\ g.due = f.due \ E
  BY EraseIs
<1>3. f.snd \in Senders /\ f.due \subseteq Conns /\ f.may \subseteq Conns
  BY FramesTyped, ActivationIs DEF Frame
<1>4. f.snd \in alive /\ OnWay(f, B)
  BY <1>2, <1>3 DEF Walk, OnWay
<1>5. \A c \in Conns : conn[c].snd = f.snd => conn'[c] = conn[c] /\ c \notin E \ erased'
  BY <1>1
<1>6. \A d \in Coming(f, B) : d \in Conns /\ conn[d] # Blank /\ conn[d].snd = f.snd
  BY <1>4, ComingIs DEF OnWay
<1>7. f.cur # NULL => f.cur \in Conns /\ conn[f.cur] # Blank /\ conn[f.cur].snd = f.snd
  BY <1>4 DEF OnWay, Stands
<1>8. \A d \in Coming(g, C) : d \in Coming(f, B)
  BY <1>2, <1>7 DEF Coming, Remains
<1>9. \A d \in Coming(f, B) : d \notin E => d \in Coming(g, C)
  BY <1>2, <1>5, <1>6, <1>7 DEF Coming, Remains
<1>10. Stands(g)'
  BY <1>2, <1>4, <1>5, <1>7 DEF OnWay, Stands
<1>11. Owes(g, C)'
  <2>1. g.due \subseteq Coming(g, C) \cap Linked(g.snd)'
    BY <1>1, <1>2, <1>3, <1>4, <1>9 DEF OnWay, Owes
  <2>2. \A c \in g.due \cup g.may : conn'[c].snd = g.snd /\ conn'[c].sig = g.sig
    BY <1>2, <1>3, <1>4, <1>5 DEF OnWay, Owes
  <2>3. \A c \in Coming(g, C) : conn'[c].sig = g.sig => c \in g.may
    BY <1>2, <1>4, <1>5, <1>6, <1>8 DEF OnWay, Owes
  <2> QED BY <2>1, <2>2, <2>3 DEF Owes
<1>12. \A d \in Coming(g, C) : d \in Coming(f, B) /\ conn'[d] = conn[d]
  BY <1>5, <1>6, <1>8
<1> QED BY <1>2, <1>4, <1>10, <1>11, <1>12

\* disconnect().
LEMMA DisconnectWalks ==
  ASSUME ListsTyped, StackTyped, ListShape, NEW B \in SUBSET (Conns \X Conns), Reaches(B), Walk(B),
         NEW t \in Threads, NEW s \in Senders, NEW sig, NEW r, Disconnect(t, s, sig, r)
  PROVE  ListShape' /\ Way'
<1>1. PICK E : E = Matching(s, sig, r)
  OBVIOUS
<1>2. E \in SUBSET Conns /\ (\A c \in E : c \in Linked(s)) /\ Erase(E) /\ UNCHANGED alive
  BY <1>1, LinkedIs DEF Matching, Disconnect
<1>3. \A u \in Senders : \A c \in Linked(u) \ E : conn[c].rcv \in alive'
  BY <1>2 DEF ListShape
<1>4. PICK C \in SUBSET (Conns \X Conns) : Remains(B, C, E)
  BY RemainsIs
<1>5. ListShape' /\ Reaches(C)'
  BY <1>2, <1>3, <1>4, EraseReaches
<1>6. ASSUME NEW g \in Activations', g.snd \in alive' PROVE OnWay(g, C)'
  <2>1. PICK f \in Activations :
          /\ g.snd = f.snd /\ g.sig = f.sig /\ f.snd \in alive /\ OnWay(f, B)
          /\ \A d \in Coming(g, C) : d \in Coming(f, B) /\ conn'[d] = conn[d]
    BY <1>2, <1>4, <1>6, EraseStands
  <2>2. Safe(g, C)'
    BY <1>2, <2>1 DEF OnWay, Safe
  <2>3. Stands(g)' /\ Owes(g, C)'
    BY <1>2, <1>4, <1>6, EraseStands
  <2> QED BY <2>2, <2>3 DEF OnWay
<1> QED BY <1>5, <1>6 DEF Way, Walk, OnWay

\* An activation of which an erased link leads to a connection of r that it would call
\* breaks the rule.
LEMMA OrderlyLeads ==
  ASSUME ListsTyped, StackTyped, ListShape, NEW B \in SUBSET (Conns \X Conns), Reaches(B),
         NEW r \in Receivers, Erase(Received(r)), Orderly(r),
         NEW C \in SUBSET (Conns \X Conns), Remains(B, C, Received(r)), ListShape', Reaches(C)',
         NEW f \in Activations, f.cur \in Conns, NEW d \in Conns, <<f.cur, d>> \in C,
         conn[d].sig = f.sig, conn[d].rcv = r
  PROVE  FALSE
<1>1. PICK E : E = Received(r)
  OBVIOUS
<1>2. E \in SUBSET Conns /\ (\A c \in E : \E s \in Senders : c \in Linked(s)) /\ Erase(E) /\ Remains(B, C, E)
  BY <1>1, LinkedIs DEF Received
<1>3. /\ erased' \subseteq erased \cup E
      /\ \A c \in Conns : conn'[c] = IF c \in E \ erased' THEN Blank ELSE conn[c]
      /\ \A c \in erased' : trail'[c] = Follow(c)
      /\ \A s \in Senders : Linked(s)' = Linked(s) \ E
  BY <1>2, EraseIs
<1>4. \A x, y \in Conns : <<x, y>> \in C => conn'[x] # Blank /\ conn'[y] # Blank
  BY DEF Reaches
<1>5. ASSUME NEW c \in Conns, conn'[c] # Blank PROVE c \in erased' \/ \E s \in Senders : c \in Linked(s)'
  <2>1. conn'[c] = conn[c] /\ conn[c].snd \in Senders
    BY <1>3, <1>5, ConnIs
  <2> QED BY <1>5, <2>1 DEF ListShape
<1>6. \A s \in Senders : d \notin Linked(s)'
  BY <1>1, <1>3 DEF Received
<1>7. ASSUME NEW x \in Conns, <<x, d>> \in C PROVE x \in erased'
  <2>1. ASSUME NEW s \in Senders, x \in Linked(s)' PROVE FALSE
    <3>1. Precedes(list'[s], x, d)
      BY <1>7, <2>1 DEF Reaches
    <3>2. list'[s] \in Seq(Conns)
      BY <1>2, WithoutOrder DEF Erase, ListsTyped
    <3> QED BY <1>6, <3>1, <3>2, PrecedesIn DEF Linked
  <2> QED BY <1>4, <1>5, <1>7, <2>1
<1>8. d \in erased' /\ f.cur \in erased'
  BY <1>4, <1>5, <1>6, <1>7
<1>9. PICK S \in SUBSET (erased \cup E) :
        /\ f.cur \in S
        /\ \A c \in S : Follow(c) \in erased \cup E =>
             /\ Follow(c) \in S
             /\ conn[Follow(c)].sig = f.sig => conn[Follow(c)].rcv # r
  BY <1>1, <1>3, <1>8 DEF Orderly
<1> DEFINE T == {x \in Conns : x \in S /\ <<x, d>> \in C}
<1>10. ASSUME NEW x \in T
       PROVE  \E n \in T : \A y \in Conns : <<x, y>> \in C <=> y = n \/ <<n, y>> \in C
  <2>1. x \in Conns /\ x \in S /\ <<x, d>> \in C /\ x \in erased'
    BY <1>7, <1>10
  <2>2. PICK n : n = Follow(x)
    OBVIOUS
  <2>3. \A y \in Conns : <<x, y>> \in C <=> n # NULL /\ (y = n \/ <<n, y>> \in C)
    BY <1>3, <2>1, <2>2 DEF Reaches
  <2>4. n # NULL /\ (d = n \/ <<n, d>> \in C)
    BY <2>1, <2>3
  <2>5. n \in Conns
    BY <2>4
  <2>6. n \in erased'
    BY <1>7, <1>8, <2>4, <2>5
  <2>7. n \in S /\ (conn[n].sig = f.sig => conn[n].rcv # r)
    BY <1>3, <1>9, <2>1, <2>2, <2>6
  <2>8. <<n, d>> \in C
    BY <2>4, <2>7
  <2> QED BY <2>3, <2>4, <2>5, <2>7, <2>8
<1>11. NoLoop(C)
  BY DEF NoLoop, Reaches
<1>12. f.cur \in T /\ T \in SUBSET Conns
  BY <1>9
<1> HIDE DEF T
<1>13. GoesOn(C, T)
  BY <1>10 DEF GoesOn
<1>14. T = {}
  BY <1>11, <1>12, <1>13, WayEnds
<1> QED BY <1>12, <1>14

\* ~SlotBase.
LEMMA DestroyReceiverWalks ==
  ASSUME ListsTyped, StackTyped, Nested, ListShape, NEW B \in SUBSET (Conns \X Conns), Reaches(B), Walk(B),
         NEW t \in Threads, NEW r \in Receivers, Orderly(r),
         \A c \in Conns : conn[c].rcv = r => Alone(t, conn[c].snd), DestroyReceiver(t, r)
  PROVE  ListShape' /\ Way'
<1>1. PICK E : E = Received(r)
  OBVIOUS
<1>2. /\ E \in SUBSET Conns /\ (\A c \in E : \E s \in Senders : c \in Linked(s))
      /\ Erase(E) /\ alive' = alive \ {r} /\ UserCode(t)
  BY <1>1, LinkedIs DEF Received, DestroyReceiver
<1>3. \A s \in Senders : s \in alive <=> s \in alive'
  BY <1>2, ObjectAssumption
<1>4. \A s \in Senders : \A c \in Linked(s) \ E : conn[c].rcv \in alive'
  BY <1>1, <1>2 DEF ListShape, Received
<1>5. PICK C \in SUBSET (Conns \X Conns) : Remains(B, C, E)
  BY RemainsIs
<1>6. ListShape' /\ Reaches(C)'
  BY <1>2, <1>3, <1>4, <1>5, EraseReaches
<1>7. ASSUME NEW g \in Activations', g.snd \in alive' PROVE OnWay(g, C)'
  <2>1. PICK f \in Activations :
          /\ g.snd = f.snd /\ g.sig = f.sig /\ g.at = f.at /\ g.cur = f.cur /\ f.snd \in alive /\ OnWay(f, B)
          /\ \A d \in Coming(g, C) : d \in Coming(f, B) /\ conn'[d] = conn[d]
    BY <1>2, <1>3, <1>5, <1>7, EraseStands
  <2>2. Stands(g)' /\ Owes(g, C)'
    BY <1>2, <1>3, <1>5, <1>7, EraseStands
  <2>3. ASSUME NEW d \in Coming(g, C), conn'[d].sig = g.sig, conn[d].rcv = r PROVE FALSE
    <3>1. /\ d \in Conns /\ conn[d] # Blank /\ conn[d].snd = f.snd /\ conn[d].sig = f.sig
      BY <2>1, <2>3, ComingIs DEF OnWay
    <3>2. Alone(t, f.snd) /\ Frames
      BY <2>3, <3>1, FramesTyped
    <3>3. PICK u \in Threads : \E i \in 1 .. Depth(u) : stack[u][i] = f
      BY <3>2, ActivationIs
    <3>4. PICK i \in 1 .. Depth(u) : stack[u][i] = f
      BY <3>3
    <3>5. u = t
      BY <3>2, <3>3, <3>4 DEF Alone, Frames
    <3>6. f.at # "loop"
      <4>1. stack[t] # <<>> /\ Top(t).at \in {"slot", "handler"} /\ Top(t) = stack[t][Depth(t)]
        BY <1>2, <3>2, <3>4, <3>5, TopTyped DEF UserCode, At, Frames
      <4>2. ASSUME f.at = "loop" PROVE i \in 1 .. Depth(t) - 1
        BY <3>2, <3>4, <3>5, <4>1, <4>2 DEF Frames
      <4> QED BY <3>4, <3>5, <4>2 DEF Nested
    <3>7. f.cur \in Conns /\ <<f.cur, d>> \in C
      BY <2>1, <2>3, <3>6 DEF Coming
    <3> QED BY <1>1, <1>2, <1>5, <1>6, <2>3, <3>1, <3>7, OrderlyLeads
  <2>4. Safe(g, C)'
    BY <1>2, <2>1, <2>3 DEF OnWay, Safe
  <2> QED BY <2>2, <2>4 DEF OnWay
<1> QED BY <1>5, <1>6, <1>7 DEF Way, Walk, OnWay

LEMMA InitW == Init => WInv
<1> SUFFICES ASSUME Init PROVE WInv
  OBVIOUS
<1>1. IInv
  BY InitInv
<1>2. \A s \in Senders : list[s] = <<>>
  BY DEF Init
<1>3. ListShape
  BY <1>2, NothingIn DEF ListShape, Linked, Init
<1>4. Activations = {}
  <2>1. \A t \in Threads : DOMAIN stack[t] = {}
    BY DEF Init
  <2> QED BY <2>1 DEF Activations
<1>5. Reaches({}) /\ Walk({})
  BY <1>2, <1>4, NothingIn DEF Reaches, Walk, Linked, Init
<1>6. {} \in SUBSET (Conns \X Conns)
  OBVIOUS
<1> QED BY <1>1, <1>3, <1>5, <1>6 DEF WInv, Way

LEMMA StepW == WInv /\ [Next]_vars => WInv'
<1> SUFFICES ASSUME WInv, [Next]_vars PROVE WInv'
  OBVIOUS
<1>1. IInv /\ IInv' /\ ListsTyped /\ StackTyped /\ StateTyped /\ Shape /\ Nested /\ ListShape
  BY InvGroups, StepInv DEF WInv, Shape
<1>2. PICK B \in SUBSET (Conns \X Conns) : Reaches(B) /\ Walk(B)
  BY DEF WInv, Way
<1>3. CASE UNCHANGED vars
  <2>1. Activations' = Activations
    BY <1>3 DEF vars, Activations
  <2>2. ListShape'
    BY <1>1, <1>3, <2>1 DEF ListShape, vars, listVars, Linked
  <2>3. Reaches(B)'
    BY <1>2, <1>3 DEF Reaches, vars, listVars, Linked
  <2>4. Walk(B)'
    BY <1>2, <1>3, <2>1 DEF Walk, Stands, Safe, Owes, Linked, vars, listVars
  <2> QED BY <1>1, <2>2, <2>3, <2>4 DEF WInv, Way
<1>4. ASSUME NEW t \in Threads, UserStep(t) PROVE ListShape' /\ Way'
  <2>1. CASE \E s \in Senders, sig \in Signals, r \in Receivers : Connect(t, s, sig, r)
    BY <1>1, <1>2, <2>1, ConnectWalks
  <2>2. CASE \E s \in Senders, sig \in Signals \cup {NULL}, r \in Receivers \cup {NULL} : Disconnect(t, s, sig, r)
    BY <1>1, <1>2, <2>2, DisconnectWalks
  <2>3. CASE \E r \in Receivers :
               /\ Orderly(r)
               /\ \A c \in Conns : conn[c].rcv = r => Alone(t, conn[c].snd)
               /\ DestroyReceiver(t, r)
    BY <1>1, <1>2, <2>3, DestroyReceiverWalks
  <2>4. CASE \E s \in Senders : Alone(t, s) /\ DestroySender(t, s)
    BY <1>1, <1>2, <2>4, DestroySenderWalks
  <2>5. CASE \E s \in Senders : Unused(s) /\ Create(t, s)
    BY <1>1, <1>2, <2>5, CreateWalks
  <2>6. CASE \E s \in Senders, sig \in Signals : Alone(t, s) /\ ~At(t, "handler") /\ Emit(t, s, sig)
    BY <1>1, <1>2, <2>6, EmitWalks
  <2> QED BY <1>4, <2>1, <2>2, <2>3, <2>4, <2>5, <2>6 DEF UserStep
<1>5. ASSUME NEW t \in Threads, Returning(t) \/ Activating(t) PROVE ListShape' /\ Way'
  <2>1. ASSUME Abandon(t) \/ Finish(t) PROVE ListShape' /\ Way'
    <3>1. stack[t] # <<>> /\ Pop(t) /\ UNCHANGED alive
      BY <2>1 DEF Abandon, Finish, At
    <3> QED BY <1>1, <1>2, <3>1, PopWalks
  <2> QED BY <1>1, <1>2, <1>5, <2>1, SkipWalks, VisitWalks, ContinueWalks, IterationWalks DEF Activating
<1>6. CASE Next
  <2>1. ListShape' /\ Way'
    BY <1>4, <1>5, <1>6 DEF Next
  <2> QED BY <1>1, <2>1 DEF WInv
<1> QED BY <1>3, <1>6

\* WInv is an invariant: an activation stands on a connection of its sender, linked or erased,
\* from which operator++ leads to all that it owes, and to nothing that it may not call; slots
\* and other threads disconnect what they like.
THEOREM WalkInvariant == Spec => []WInv
BY InitW, StepW, PTL DEF Spec

\* activate() calls compareThreads() and the slot of receivers that exist, whatever its slots
\* and other threads disconnect, provided that no receiver is destroyed to whose connection
\* erased links of an activation lead (Orderly), nor by another thread than the one that emits
\* (Alone), and that the address of a destroyed sender is not used again under an activation
\* of it (Unused).
THEOREM ReceiversThere == Spec => []ReceiverExists
<1>1. WInv => ReceiverExists
  <2> SUFFICES ASSUME WInv, NEW t \in Threads, At(t, "loop"), Top(t).cur # NULL,
                      conn[Top(t).cur].sig = Top(t).sig
               PROVE  conn[Top(t).cur].rcv \in alive
    BY DEF ReceiverExists
  <2>1. StackTyped /\ Marked /\ stack[t] # <<>> /\ Top(t).at = "loop"
    BY InvGroups DEF WInv, IInv, At
  <2>2. PICK B \in SUBSET (Conns \X Conns) : Reaches(B) /\ Walk(B)
    BY DEF WInv, Way
  <2>3. Top(t) = stack[t][Depth(t)] /\ Depth(t) \in 1 .. Depth(t)
    BY <2>1, FramesTyped, TopTyped
  <2>4. Top(t).snd \in alive
    BY <2>1, <2>3 DEF Marked
  <2>5. OnWay(Top(t), B)
    BY <2>1, <2>2, <2>4, TopWalks
  <2>6. Top(t).cur \in Coming(Top(t), B)
    BY <2>1, <2>5 DEF OnWay, Stands, Coming
  <2> QED BY <2>5, <2>6 DEF OnWay, Safe
<1> QED BY <1>1, WalkInvariant, PTL

-----------------------------------------------------------------------------
(* Emissions *)

\* What Emissions has for the activation f.
EmissionOf(f, exist, gens, table) ==
  LET intact == f.snd \in exist /\ gens[f.snd] = f.gen
  IN [snd |-> f.snd, sig |-> f.sig,
      due |-> IF intact THEN f.due ELSE {},
      may |-> IF intact
              THEN {<<c, table[c].rcv>> : c \in {d \in f.may : table[d].rcv \in exist}}
              ELSE {}]

\* It may call the connections of receivers that exist.
Calls(f, exist, table) ==
  {<<c, table[c].rcv>> : c \in {d \in f.may : table[d].rcv \in exist}}

LEMMA EmissionWith ==
  ASSUME NEW f, NEW al, NEW gn, NEW cn, f.snd \in al, gn[f.snd] = f.gen,
         NEW M, Calls(f, al, cn) = M
  PROVE  EmissionOf(f, al, gn, cn) = [snd |-> f.snd, sig |-> f.sig, due |-> f.due, may |-> M]
BY Zenon DEF EmissionOf, Calls

LEMMA EmissionsAre ==
  ASSUME Frames, NEW t \in Threads
  PROVE  Emissions[t] = [i \in 1 .. Depth(t) |-> EmissionOf(stack[t][i], alive, gen, conn)]
BY DEF Frames, Emissions, EmissionOf, Due, May, Intact

LEMMA EmissionsAreNext ==
  ASSUME Frames', NEW t \in Threads
  PROVE  Emissions'[t] = [i \in 1 .. Depth(t)' |-> EmissionOf(stack'[t][i], alive', gen', conn')]
BY DEF Frames, Emissions, EmissionOf, Due, May, Intact

\* A function on 1 .. n is a sequence.
LEMMA FunctionIsSeq ==
  ASSUME NEW n \in Nat, NEW S, NEW s \in [1 .. n -> S]
  PROVE  s \in Seq(S) /\ Len(s) = n
<1>1. s \in Seq(S)
  BY SeqDef
<1>2. DOMAIN s = 1 .. Len(s) /\ Len(s) \in Nat /\ DOMAIN s = 1 .. n
  BY <1>1, LenProperties
<1> QED BY <1>1, <1>2

LEMMA AppendIs ==
  ASSUME NEW n \in Nat, NEW S, NEW s \in [1 .. n -> S], NEW w \in [1 .. n + 1 -> S],
         \A i \in 1 .. n : w[i] = s[i]
  PROVE  w = Append(s, w[n + 1])
<1> DEFINE v == Append(s, w[n + 1])
<1>1. n + 1 \in Nat /\ n + 1 \in 1 .. n + 1
  OBVIOUS
<1>2. s \in Seq(S) /\ Len(s) = n /\ w \in Seq(S) /\ Len(w) = n + 1 /\ w[n + 1] \in S
  BY <1>1, FunctionIsSeq
<1>3. v \in Seq(S) /\ Len(v) = n + 1 /\ v[n + 1] = w[n + 1] /\ \A i \in 1 .. n : v[i] = s[i]
  BY <1>2, AppendProperties
<1> HIDE DEF v
<1>4. \A i \in 1 .. n + 1 : v[i] = w[i]
  <2>1. \A i \in 1 .. n + 1 : i \in 1 .. n \/ i = n + 1
    OBVIOUS
  <2> QED BY <1>3, <2>1
<1>5. v = w
  BY <1>2, <1>3, <1>4, SeqEqual
<1> QED BY <1>5 DEF v

LEMMA FrontIs ==
  ASSUME NEW n \in Nat \ {0}, NEW S, NEW s \in [1 .. n -> S], NEW w \in [1 .. n - 1 -> S],
         \A i \in 1 .. n - 1 : w[i] = s[i]
  PROVE  w = SubSeq(s, 1, Len(s) - 1)
<1> DEFINE v == SubSeq(s, 1, n - 1)
<1>1. n - 1 \in Nat /\ \A i \in 1 .. n - 1 : s[i] \in S
  OBVIOUS
<1>2. s \in Seq(S) /\ Len(s) = n /\ w \in Seq(S) /\ Len(w) = n - 1
  BY <1>1, FunctionIsSeq
<1>3. v \in Seq(S) /\ Len(v) = n - 1 /\ \A i \in 1 .. n - 1 : v[i] = s[i]
  <2>1. /\ v \in Seq(S) /\ Len(v) = IF 1 <= n - 1 THEN (n - 1) - 1 + 1 ELSE 0
        /\ \A i \in 1 .. (n - 1) - 1 + 1 : v[i] = s[1 + i - 1]
    BY <1>1, SubSeqProperties
  <2>2. (IF 1 <= n - 1 THEN (n - 1) - 1 + 1 ELSE 0) = n - 1 /\ (n - 1) - 1 + 1 = n - 1
    OBVIOUS
  <2>3. \A i \in 1 .. n - 1 : 1 + i - 1 = i
    OBVIOUS
  <2> HIDE DEF v
  <2> QED BY <2>1, <2>2, <2>3
<1> HIDE DEF v
<1>4. v = w
  BY <1>2, <1>3, SeqEqual
<1> QED BY <1>2, <1>4 DEF v

\* What the abstract specification sees, when every activation looks the same.
LEMMA SameEmissions ==
  ASSUME Frames, Frames', \A u \in Threads : Depth(u)' = Depth(u),
         \A u \in Threads : \A i \in 1 .. Depth(u) :
           EmissionOf(stack'[u][i], alive', gen', conn') = EmissionOf(stack[u][i], alive, gen, conn)
  PROVE  Emissions' = Emissions
<1>1. ASSUME NEW t \in Threads PROVE Emissions'[t] = Emissions[t]
  <2>1. Emissions[t] = [i \in 1 .. Depth(t) |-> EmissionOf(stack[t][i], alive, gen, conn)]
    BY EmissionsAre
  <2>2. Emissions'[t] = [i \in 1 .. Depth(t)' |-> EmissionOf(stack'[t][i], alive', gen', conn')]
    BY EmissionsAreNext
  <2>3. Depth(t)' = Depth(t)
    OBVIOUS
  <2>4. \A i \in 1 .. Depth(t) :
          EmissionOf(stack'[t][i], alive', gen', conn') = EmissionOf(stack[t][i], alive, gen, conn)
    OBVIOUS
  <2> QED BY <2>1, <2>2, <2>3, <2>4, Zenon
<1>2. Emissions = [t \in Threads |-> Emissions[t]] /\ Emissions' = [t \in Threads |-> Emissions'[t]]
  BY DEF Emissions
<1> QED BY <1>1, <1>2

\* One activation goes on.
LEMMA GotoChanges ==
  ASSUME StackTyped, NEW t \in Threads, stack[t] # <<>>, NEW g, Goto(t, g)
  PROVE  /\ \A u \in Threads : Depth(u)' = Depth(u)
         /\ \A u \in Threads : \A i \in 1 .. Depth(u) :
              stack'[u][i] = IF u = t /\ i = Depth(t) THEN g ELSE stack[u][i]
<1>1. Depth(t) \in 1 .. Depth(t) /\ \A u \in Threads : stack[u] \in Seq(Frame) /\ DOMAIN stack[u] = 1 .. Depth(u)
  BY FramesTyped, TopTyped DEF Frames, StackTyped
<1>2. \A u \in Threads : stack'[u] = IF u = t THEN [stack[t] EXCEPT ![Depth(t)] = g] ELSE stack[u]
  BY DEF Goto, StackTyped
<1>3. Len([stack[t] EXCEPT ![Depth(t)] = g]) = Depth(t)
  <2> DEFINE w == [stack[t] EXCEPT ![Depth(t)] = g]
  <2>1. w \in [1 .. Depth(t) -> Frame \cup {g}] /\ Depth(t) \in Nat
    BY <1>1, LenProperties DEF Depth
  <2> HIDE DEF w
  <2>2. Len(w) = Depth(t)
    BY <2>1, FunctionIsSeq
  <2> QED BY <2>2 DEF w
<1> QED BY <1>1, <1>2, <1>3 DEF Depth

\* Steps of an activation in which it neither begins, calls nor ends.
LEMMA Unseen ==
  ASSUME WInv, IInv', NEW t \in Threads,
         Deliver(t) \/ Returning(t) \/ Check(t) \/ Handle(t) \/ Leave(t) \/ Skip(t) \/ Continue(t)
  PROVE  UNCHANGED Promise!deliveryVars
<1>1. StackTyped /\ Frames /\ Frames'
  BY InvGroups, FramesTyped, FramesTypedNext DEF WInv, IInv, TypeOK, StackTyped
<1>2. /\ stack[t] # <<>> /\ UNCHANGED <<alive, gen, listVars>>
      /\ \E g : /\ Goto(t, g) /\ g.snd = Top(t).snd /\ g.gen = Top(t).gen /\ g.sig = Top(t).sig
                /\ g.due = Top(t).due /\ g.may = Top(t).may
  <2>1. CASE Skip(t)
    <3> DEFINE h == [Top(t) EXCEPT !.cur = Follow(Top(t).cur)]
    <3>1. stack[t] # <<>> /\ UNCHANGED <<alive, gen, listVars>> /\ Goto(t, h)
      BY <2>1 DEF Skip, At
    <3>2. Top(t) \in Frame
      BY <1>1, <3>1, TopTyped
    <3>3. h.snd = Top(t).snd /\ h.gen = Top(t).gen /\ h.sig = Top(t).sig /\ h.due = Top(t).due /\ h.may = Top(t).may
      BY <3>2 DEF Frame
    <3> QED BY <3>1, <3>3
  <2>2. CASE Continue(t)
    <3> DEFINE h == [Top(t) EXCEPT !.at = "loop", !.cur = Follow(Top(t).cur), !.old = 0]
    <3>1. stack[t] # <<>> /\ UNCHANGED <<alive, gen, listVars>> /\ Goto(t, h)
      BY <2>2 DEF Continue, At
    <3>2. Top(t) \in Frame
      BY <1>1, <3>1, TopTyped
    <3>3. h.snd = Top(t).snd /\ h.gen = Top(t).gen /\ h.sig = Top(t).sig /\ h.due = Top(t).due /\ h.may = Top(t).may
      BY <3>2 DEF Frame
    <3> QED BY <3>1, <3>3
  <2> QED BY <1>1, <2>1, <2>2, IterationGoes
<1>3. PICK g : /\ Goto(t, g) /\ g.snd = Top(t).snd /\ g.gen = Top(t).gen /\ g.sig = Top(t).sig
               /\ g.due = Top(t).due /\ g.may = Top(t).may
  BY <1>2
<1>4. /\ \A u \in Threads : Depth(u)' = Depth(u)
      /\ \A u \in Threads : \A i \in 1 .. Depth(u) :
           stack'[u][i] = IF u = t /\ i = Depth(t) THEN g ELSE stack[u][i]
  BY <1>1, <1>2, <1>3, GotoChanges
<1>5. ASSUME NEW u \in Threads, NEW i \in 1 .. Depth(u)
      PROVE  EmissionOf(stack'[u][i], alive', gen', conn') = EmissionOf(stack[u][i], alive, gen, conn)
  <2>1. UNCHANGED <<alive, gen, conn>>
    BY <1>2 DEF listVars
  <2>2. CASE u = t /\ i = Depth(t)
    <3>1. stack'[u][i] = g /\ stack[u][i] = Top(t)
      BY <1>4, <2>2 DEF Top
    <3>2. EmissionOf(g, alive, gen, conn) = EmissionOf(Top(t), alive, gen, conn)
      BY <1>3, Zenon DEF EmissionOf
    <3> QED BY <2>1, <3>1, <3>2
  <2>3. CASE ~(u = t /\ i = Depth(t))
    <3>1. stack'[u][i] = stack[u][i]
      BY <1>4, <2>3
    <3> QED BY <2>1, <3>1
  <2> QED BY <2>2, <2>3
<1>6. Emissions' = Emissions
  BY <1>1, <1>4, <1>5, SameEmissions
<1>7. LinkedConn' = LinkedConn
  BY <1>2 DEF LinkedConn, listVars
<1> QED BY <1>2, <1>6, <1>7 DEF Promise!deliveryVars, Promise!tableVars

\* The newest emission of a thread is that of the activation it is in.
LEMMA EmissionsLen ==
  ASSUME Frames, NEW t \in Threads
  PROVE  /\ Len(Emissions[t]) = Depth(t)
         /\ Emissions[t] = <<>> <=> stack[t] = <<>>
         /\ stack[t] # <<>> => Promise!Newest(t) = EmissionOf(Top(t), alive, gen, conn)
<1>1. /\ Emissions[t] = [i \in 1 .. Depth(t) |-> EmissionOf(stack[t][i], alive, gen, conn)]
      /\ Depth(t) \in Nat /\ (stack[t] = <<>> <=> Depth(t) = 0)
  BY EmissionsAre DEF Frames
<1> DEFINE S == {EmissionOf(stack[t][i], alive, gen, conn) : i \in 1 .. Depth(t)}
<1>2. Emissions[t] \in [1 .. Depth(t) -> S]
  BY <1>1
<1> HIDE DEF S
<1>3. Emissions[t] \in Seq(S) /\ Len(Emissions[t]) = Depth(t)
  BY <1>1, <1>2, FunctionIsSeq
<1>4. Emissions[t] = <<>> <=> Depth(t) = 0
  <2>1. CASE Depth(t) = 0
    <3>1. <<>> \in Seq(S) /\ Len(<<>>) = 0
      BY EmptySeq
    <3>2. \A i \in 1 .. 0 : FALSE
      OBVIOUS
    <3> QED BY <1>3, <2>1, <3>1, <3>2, SeqEqual
  <2>2. CASE Depth(t) # 0
    BY <1>3, <2>2, EmptySeq
  <2> QED BY <2>1, <2>2
<1>5. ASSUME stack[t] # <<>> PROVE Promise!Newest(t) = EmissionOf(Top(t), alive, gen, conn)
  <2>1. Depth(t) \in 1 .. Depth(t)
    BY <1>1, <1>5
  <2>2. Promise!Newest(t) = Emissions[t][Depth(t)]
    BY <1>3 DEF Promise!Newest
  <2>3. Emissions[t][Depth(t)] = EmissionOf(stack[t][Depth(t)], alive, gen, conn)
    BY <1>1, <2>1
  <2> QED BY <2>2, <2>3 DEF Top
<1> QED BY <1>1, <1>3, <1>4, <1>5

\* An emission that has called a connection.
LEMMA CalledIs ==
  ASSUME NEW s, NEW sig, NEW D, NEW M, NEW m
  PROVE  Promise!Called([snd |-> s, sig |-> sig, due |-> D, may |-> M], m) =
           [snd |-> s, sig |-> sig, due |-> D \ {m[1]}, may |-> M \ {m}]
<1>1. PICK e : e = [snd |-> s, sig |-> sig, due |-> D, may |-> M]
  OBVIOUS
<1> DEFINE w == Promise!Called(e, m)
           d == m[1]
           R == [snd : {s}, sig : {sig}, due : {D, D \ {d}}, may : {M, M \ {m}}]
<1>2. e \in R /\ e.due = D /\ e.may = M
  BY <1>1
<1>3. w = [e EXCEPT !.due = e.due \ {d}, !.may = e.may \ {m}]
  BY DEF Promise!Called
<1> HIDE DEF w, d
<1>4. w \in R /\ w.snd = s /\ w.sig = sig /\ w.due = D \ {d} /\ w.may = M \ {m}
  BY <1>2, <1>3
<1>5. w = [snd |-> s, sig |-> sig, due |-> D \ {d}, may |-> M \ {m}]
  BY <1>4
<1> QED BY <1>1, <1>5 DEF w, d

\* activate() begins to deliver to a connection: it is one that may be called.
LEMMA VisitCalls ==
  ASSUME WInv, IInv', NEW t \in Threads, Visit(t)
  PROVE  Promise!Call(t)
<1> DEFINE f == Top(t)
           h == [f EXCEPT !.at = "store", !.old = busy[f.snd], !.due = @ \ {f.cur}, !.may = @ \ {f.cur}]
           M == {<<c, conn[c].rcv>> : c \in {d \in f.may : conn[d].rcv \in alive}}
           m == <<f.cur, conn[f.cur].rcv>>
           n == Depth(t)
           e == [snd |-> f.snd, sig |-> f.sig, due |-> f.due, may |-> M]
           ee == [snd |-> f.snd, sig |-> f.sig, due |-> f.due \ {f.cur}, may |-> M \ {m}]
<1>1. ListsTyped /\ StackTyped /\ StateTyped /\ Frames /\ Frames'
  BY InvGroups, FramesTyped, FramesTypedNext DEF WInv, IInv, TypeOK, StackTyped
<1>0. PICK B \in SUBSET (Conns \X Conns) : Reaches(B) /\ Walk(B)
  BY DEF WInv, Way
<1>2. /\ stack[t] # <<>> /\ f.at = "loop" /\ f.snd \in alive /\ gen[f.snd] = f.gen /\ f.cur # NULL
      /\ conn[f.cur].sig = f.sig /\ conn[f.cur].rcv \in alive
      /\ Goto(t, h) /\ UNCHANGED <<alive, gen, listVars>>
  BY DEF Visit, At, Intact
<1>3. f \in Frame /\ OnWay(f, B) /\ n \in 1 .. n
  BY <1>0, <1>1, <1>2, TopWalks, TopTyped
<1>4. PICK g : g = h
  OBVIOUS
<1>5. /\ g.snd = f.snd /\ g.gen = f.gen /\ g.sig = f.sig /\ g.due = f.due \ {f.cur} /\ g.may = f.may \ {f.cur}
      /\ Goto(t, g)
  BY <1>2, <1>3, <1>4 DEF Frame
<1>6. f.cur \in f.may
  BY <1>2, <1>3 DEF OnWay, Owes, Stands, Coming
<1>7. m \in M
  BY <1>2, <1>6
<1>8. EmissionOf(f, alive, gen, conn) = e
  BY <1>2 DEF EmissionOf
<1>9. EmissionOf(g, alive, gen, conn) = ee
  <2>1. {<<c, conn[c].rcv>> : c \in {d \in g.may : conn[d].rcv \in alive}} = M \ {m}
    <3>1. \A c, d : <<c, conn[c].rcv>> = <<d, conn[d].rcv>> <=> c = d
      OBVIOUS
    <3> QED BY <1>5, <3>1
  <2> HIDE DEF M, m
  <2> QED BY <1>2, <1>5, <2>1 DEF EmissionOf
<1>10. /\ \A u \in Threads : Depth(u)' = Depth(u)
       /\ \A u \in Threads : \A i \in 1 .. Depth(u) :
            stack'[u][i] = IF u = t /\ i = Depth(t) THEN g ELSE stack[u][i]
  BY <1>1, <1>2, <1>5, GotoChanges
<1>11. Len(Emissions[t]) = n /\ Emissions[t] # <<>> /\ Promise!Newest(t) = e
  BY <1>1, <1>2, <1>8, EmissionsLen
<1>12. ee = Promise!Called(e, m)
  <2>1. m[1] = f.cur
    OBVIOUS
  <2> HIDE DEF M, m, f
  <2> QED BY <2>1, CalledIs
<1>13. UNCHANGED <<alive, gen, conn>>
  BY <1>2 DEF listVars
<1> HIDE DEF f, h, M, m, e, ee
<1>14. Emissions'[t] = [Emissions[t] EXCEPT ![n] = ee]
  <2>1. Emissions'[t] = [i \in 1 .. n |-> EmissionOf(stack'[t][i], alive, gen, conn)]
    BY <1>1, <1>10, <1>13, EmissionsAreNext
  <2>2. Emissions[t] = [i \in 1 .. n |-> EmissionOf(stack[t][i], alive, gen, conn)]
    BY <1>1, EmissionsAre
  <2>3. \A i \in 1 .. n : EmissionOf(stack'[t][i], alive, gen, conn) =
                            IF i = n THEN ee ELSE EmissionOf(stack[t][i], alive, gen, conn)
    BY <1>9, <1>10
  <2>4. [Emissions[t] EXCEPT ![n] = ee] =
          [i \in 1 .. n |-> IF i = n THEN ee ELSE EmissionOf(stack[t][i], alive, gen, conn)]
    BY <2>2
  <2> QED BY <2>1, <2>3, <2>4, Zenon
<1>15. ASSUME NEW u \in Threads, u # t PROVE Emissions'[u] = Emissions[u]
  <2>1. Emissions'[u] = [i \in 1 .. Depth(u) |-> EmissionOf(stack'[u][i], alive, gen, conn)]
    BY <1>1, <1>10, <1>13, EmissionsAreNext
  <2>2. Emissions[u] = [i \in 1 .. Depth(u) |-> EmissionOf(stack[u][i], alive, gen, conn)]
    BY <1>1, EmissionsAre
  <2>3. \A i \in 1 .. Depth(u) : stack'[u][i] = stack[u][i]
    BY <1>10, <1>15
  <2> QED BY <2>1, <2>2, <2>3, Zenon
<1>16. Emissions' = [Emissions EXCEPT ![t] = [Emissions[t] EXCEPT ![n] = ee]]
  <2>1. Emissions = [u \in Threads |-> Emissions[u]] /\ Emissions' = [u \in Threads |-> Emissions'[u]]
    BY DEF Emissions
  <2> QED BY <1>14, <1>15, <2>1, Zenon
<1>17. Emissions[t][n] = e
  BY <1>11 DEF Promise!Newest
<1>18. Emissions' = [Emissions EXCEPT ![t][Len(Emissions[t])] = Promise!Called(@, m)]
  BY <1>11, <1>12, <1>16, <1>17
<1>19. m \in Promise!Newest(t).may
  BY <1>7, <1>11 DEF e
<1>20. UNCHANGED Promise!tableVars
  BY <1>2, <1>13 DEF Promise!tableVars, LinkedConn, listVars
<1> QED BY <1>11, <1>18, <1>19, <1>20 DEF Promise!Call

\* An activation looks the same as before.
LEMMA EmissionKept ==
  ASSUME NEW f, NEW al, NEW gn, NEW cn, NEW al2, NEW gn2, NEW cn2,
         f.snd \in al2 /\ gn2[f.snd] = f.gen <=> f.snd \in al /\ gn[f.snd] = f.gen,
         f.snd \in al /\ gn[f.snd] = f.gen =>
           \A c \in f.may : cn2[c] = cn[c] /\ (cn[c].rcv \in al2 <=> cn[c].rcv \in al)
  PROVE  EmissionOf(f, al2, gn2, cn2) = EmissionOf(f, al, gn, cn)
<1>1. CASE f.snd \in al /\ gn[f.snd] = f.gen
  <2>1. {<<c, cn2[c].rcv>> : c \in {d \in f.may : cn2[d].rcv \in al2}} =
          {<<c, cn[c].rcv>> : c \in {d \in f.may : cn[d].rcv \in al}}
    BY <1>1
  <2> QED BY <1>1, <2>1 DEF EmissionOf
<1>2. CASE ~(f.snd \in al /\ gn[f.snd] = f.gen)
  BY <1>2 DEF EmissionOf
<1> QED BY <1>1, <1>2

\* The emissions of the other threads, and of what lies deeper, stay.
LEMMA StackGrows ==
  ASSUME Frames, Frames', NEW t \in Threads, NEW g, Pushed(t, g), UNCHANGED <<alive, gen, conn>>
  PROVE  Emissions' = [Emissions EXCEPT ![t] = Append(@, EmissionOf(g, alive, gen, conn))]
<1>1. /\ \A u \in Threads : Depth(u)' = IF u = t THEN Depth(u) + 1 ELSE Depth(u)
      /\ \A u \in Threads : \A i \in 1 .. Depth(u) : stack'[u][i] = stack[u][i]
      /\ stack'[t][Depth(t) + 1] = g
  BY DEF Pushed
<1>2. ASSUME NEW u \in Threads, u # t PROVE Emissions'[u] = Emissions[u]
  <2>1. Emissions'[u] = [i \in 1 .. Depth(u) |-> EmissionOf(stack'[u][i], alive, gen, conn)]
    BY <1>1, <1>2, EmissionsAreNext
  <2>2. Emissions[u] = [i \in 1 .. Depth(u) |-> EmissionOf(stack[u][i], alive, gen, conn)]
    BY EmissionsAre
  <2>3. \A i \in 1 .. Depth(u) : stack'[u][i] = stack[u][i]
    BY <1>1
  <2> QED BY <2>1, <2>2, <2>3, Zenon
<1>3. Emissions'[t] = Append(Emissions[t], EmissionOf(g, alive, gen, conn))
  <2>1. PICK n \in Nat : n = Depth(t)
    BY DEF Frames
  <2>a. PICK s, w : s = Emissions[t] /\ w = Emissions'[t]
    OBVIOUS
  <2>2. w = [i \in 1 .. n + 1 |-> EmissionOf(stack'[t][i], alive, gen, conn)]
    BY <1>1, <2>1, <2>a, EmissionsAreNext
  <2>3. s = [i \in 1 .. n |-> EmissionOf(stack[t][i], alive, gen, conn)]
    BY <2>1, <2>a, EmissionsAre
  <2>4. \A i \in 1 .. n : i \in 1 .. n + 1
    BY <2>1
  <2>5. \A i \in 1 .. n : w[i] = s[i]
    BY <1>1, <2>1, <2>2, <2>3, <2>4
  <2>6. w[n + 1] = EmissionOf(g, alive, gen, conn)
    <3>1. n + 1 \in 1 .. n + 1
      BY <2>1
    <3> QED BY <1>1, <2>1, <2>2, <3>1
  <2>7. PICK S : S = {w[i] : i \in 1 .. n + 1}
    OBVIOUS
  <2>8. w \in [1 .. n + 1 -> S] /\ s \in [1 .. n -> S]
    BY <2>2, <2>3, <2>4, <2>5, <2>7
  <2>9. w = Append(s, w[n + 1])
    BY <2>5, <2>8, AppendIs
  <2> QED BY <2>a, <2>6, <2>9
<1>4. Emissions = [u \in Threads |-> Emissions[u]] /\ Emissions' = [u \in Threads |-> Emissions'[u]]
  BY DEF Emissions
<1> QED BY <1>2, <1>3, <1>4, Zenon

\* The connections of a signal that an emission begins with.
LEMMA OfIs ==
  ASSUME ListsTyped, ListShape, NEW s \in Senders, NEW sig
  PROVE  /\ Promise!Of(s, sig) = Of(s, sig) /\ Of(s, sig) \subseteq Conns
         /\ \A c \in Of(s, sig) : LinkedConn[c] = conn[c] /\ conn[c].rcv \in alive
<1>1. Linked(s) \subseteq Conns /\ NULL # s /\ Blank.snd = NULL
  BY LinkedIs, ObjectAssumption DEF Blank
<1>2. \A c \in Linked(s) : conn[c].snd = s /\ c \notin erased /\ conn[c].rcv \in alive /\ LinkedConn[c] = conn[c]
  BY <1>1 DEF ListShape, LinkedConn
<1>3. \A c \in Conns : LinkedConn[c] # Blank => LinkedConn[c] = conn[c] /\ conn[c] # Blank /\ c \notin erased
  BY DEF LinkedConn
<1>4. Promise!Of(s, sig) = {c \in Conns : LinkedConn[c] # Blank /\ LinkedConn[c].snd = s /\ LinkedConn[c].sig = sig}
  BY DEF Promise!Of
<1>5. \A c \in Conns : LinkedConn[c] # Blank /\ LinkedConn[c].snd = s <=> c \in Linked(s)
  BY <1>1, <1>2, <1>3 DEF ListShape
<1>6. Of(s, sig) = {c \in Linked(s) : conn[c].sig = sig}
  BY DEF Of, Linked
<1> QED BY <1>1, <1>2, <1>4, <1>5, <1>6

\* activate() begins an emission.
LEMMA EmitBegins ==
  ASSUME WInv, IInv', NEW t \in Threads, NEW s \in Senders, NEW sig \in Signals, Emit(t, s, sig)
  PROVE  Promise!Begin(t, s, sig)
<1>1. ListsTyped /\ StackTyped /\ StateTyped /\ ListShape /\ Frames /\ Frames'
  BY InvGroups, FramesTyped, FramesTypedNext DEF WInv, IInv, TypeOK, StackTyped
<1>2. PICK g : g = [snd |-> s, gen |-> gen[s], sig |-> sig, at |-> "loop", cur |-> First(list[s]),
                    old |-> 0, priorSender |-> currentSender[t], priorSignal |-> currentSignal[t],
                    due |-> Of(s, sig), may |-> Of(s, sig)]
  OBVIOUS
<1>3. /\ stack' = [stack EXCEPT ![t] = Append(@, g)] /\ Depth(t) < MaxDepth /\ s \in alive
      /\ UNCHANGED <<alive, gen, list, conn, erased>>
  BY <1>2 DEF Emit, listVars
<1>4. /\ Promise!Of(s, sig) = Of(s, sig) /\ Of(s, sig) \subseteq Conns
      /\ \A c \in Of(s, sig) : LinkedConn[c] = conn[c] /\ conn[c].rcv \in alive
  BY <1>1, OfIs
<1>5. g \in Frame
  <2>1. First(list[s]) \in Conns \cup {NULL}
    BY <1>1, FirstTyped DEF ListsTyped
  <2>2. gen[s] \in Nat /\ currentSender[t] \in Senders \cup {NULL} /\ currentSignal[t] \in 0 .. MaxDepth
    BY <1>1, BoundAssumption DEF StateTyped
  <2> QED BY <1>2, <1>4, <2>1, <2>2 DEF Frame, Point
<1>6. Pushed(t, g)
  BY <1>1, <1>3, <1>5, PushGrows
<1>7. EmissionOf(g, alive, gen, conn) =
        [snd |-> s, sig |-> sig, due |-> Promise!Of(s, sig),
         may |-> {<<c, LinkedConn[c].rcv>> : c \in Promise!Of(s, sig)}]
  <2>1. /\ g.snd = s /\ g.gen = gen[s] /\ g.sig = sig /\ g.due = Of(s, sig) /\ g.may = Of(s, sig)
    BY <1>2
  <2>2. {<<c, conn[c].rcv>> : c \in {d \in g.may : conn[d].rcv \in alive}} =
          {<<c, LinkedConn[c].rcv>> : c \in Promise!Of(s, sig)}
    BY <1>4, <2>1
  <2> QED BY <1>3, <1>4, <2>1, <2>2 DEF EmissionOf
<1>8. Emissions' = [Emissions EXCEPT ![t] = Append(@, EmissionOf(g, alive, gen, conn))]
  BY <1>1, <1>3, <1>6, StackGrows
<1>9. UNCHANGED Promise!tableVars
  BY <1>3 DEF Promise!tableVars, LinkedConn
<1> QED BY <1>3, <1>7, <1>8, <1>9 DEF Promise!Begin

\* activate() returns only when it owes nothing more.
LEMMA PopEnds ==
  ASSUME WInv, IInv', NEW t \in Threads, stack[t] # <<>>, Pop(t), UNCHANGED <<alive, gen>>,
         Due(Top(t)) = {}
  PROVE  Promise!End(t)
<1>0. PICK B \in SUBSET (Conns \X Conns) : Reaches(B) /\ Walk(B)
  BY DEF WInv, Way
<1>1. /\ ListsTyped /\ StackTyped /\ ListShape /\ Frames /\ Frames' /\ Popped(t)
      /\ \A f \in Activations' : f \in Activations
  BY InvGroups, PopForgets DEF WInv
<1>2. PICK E \in SUBSET erased : Forget(E) /\ \A c \in E : \A f \in Activations' : f.snd # conn[c].snd
  BY <1>1, PopForgets
<1>3. /\ erased' = erased \ E
      /\ \A c \in Conns : conn'[c] = IF c \in E THEN Blank ELSE conn[c]
  BY <1>2 DEF Forget
<1>4. LinkedConn' = LinkedConn
  BY <1>1, <1>2, <1>3 DEF LinkedConn, ListsTyped
<1>5. ASSUME NEW u \in Threads, NEW i \in 1 .. Depth(u)'
      PROVE  /\ i \in 1 .. Depth(u)
             /\ EmissionOf(stack'[u][i], alive', gen', conn') = EmissionOf(stack[u][i], alive, gen, conn)
  <2>1. i \in 1 .. Depth(u) /\ stack'[u][i] = stack[u][i]
    BY <1>1 DEF Popped, Frames
  <2>2. PICK f : f = stack[u][i]
    OBVIOUS
  <2>3. f \in Activations /\ f \in Activations'
    <3>1. f \in Activations
      BY <1>1, <2>1, <2>2, ActivationIs
    <3>2. i \in 1 .. Depth(u)' /\ stack'[u][i] = f
      BY <2>1, <2>2
    <3>3. f \in Activations'
      BY <1>1, <3>2, ActivationIsNext
    <3> QED BY <3>1, <3>3
  <2>4. ASSUME f.snd \in alive, NEW c \in f.may PROVE conn'[c] = conn[c]
    <3>1. conn[c].snd = f.snd /\ c \in Conns
      BY <1>0, <1>1, <2>3, <2>4, ActivationIs DEF Walk, Owes, Frame
    <3> QED BY <1>2, <1>3, <2>3, <3>1
  <2>5. EmissionOf(f, alive', gen', conn') = EmissionOf(f, alive, gen, conn)
    <3>1. PICK al2, gn2, cn2 : al2 = alive' /\ gn2 = gen' /\ cn2 = conn'
      OBVIOUS
    <3>2. EmissionOf(f, al2, gn2, cn2) = EmissionOf(f, alive, gen, conn)
      BY <2>4, <3>1, EmissionKept
    <3> QED BY <3>1, <3>2
  <2> QED BY <2>1, <2>2, <2>5
<1>6. \A u \in Threads : Depth(u)' = IF u = t THEN Depth(u) - 1 ELSE Depth(u)
  BY <1>1 DEF Popped
<1>7. ASSUME NEW u \in Threads, u # t PROVE Emissions'[u] = Emissions[u]
  <2>1. Emissions'[u] = [i \in 1 .. Depth(u) |-> EmissionOf(stack'[u][i], alive', gen', conn')]
    BY <1>1, <1>6, <1>7, EmissionsAreNext
  <2>2. Emissions[u] = [i \in 1 .. Depth(u) |-> EmissionOf(stack[u][i], alive, gen, conn)]
    BY <1>1, EmissionsAre
  <2>3. \A i \in 1 .. Depth(u) :
          EmissionOf(stack'[u][i], alive', gen', conn') = EmissionOf(stack[u][i], alive, gen, conn)
    BY <1>5, <1>6, <1>7
  <2> QED BY <2>1, <2>2, <2>3, Zenon
<1>8. Emissions'[t] = SubSeq(Emissions[t], 1, Len(Emissions[t]) - 1)
  <2>1. PICK n \in Nat \ {0} : n = Depth(t)
    BY <1>1 DEF Popped, Frames
  <2>2. PICK s, w : s = Emissions[t] /\ w = Emissions'[t]
    OBVIOUS
  <2>3. w = [i \in 1 .. n - 1 |-> EmissionOf(stack'[t][i], alive', gen', conn')]
    BY <1>1, <1>6, <2>1, <2>2, EmissionsAreNext
  <2>4. s = [i \in 1 .. n |-> EmissionOf(stack[t][i], alive, gen, conn)]
    BY <1>1, <2>1, <2>2, EmissionsAre
  <2>5. \A i \in 1 .. n - 1 : i \in 1 .. n /\ w[i] = s[i]
    BY <1>5, <1>6, <2>1, <2>3, <2>4
  <2>6. PICK S : S = {s[i] : i \in 1 .. n}
    OBVIOUS
  <2>7. w \in [1 .. n - 1 -> S] /\ s \in [1 .. n -> S]
    BY <2>3, <2>4, <2>5, <2>6
  <2> QED BY <2>2, <2>5, <2>7, FrontIs
<1>9. Emissions' = [Emissions EXCEPT ![t] = SubSeq(@, 1, Len(@) - 1)]
  <2>1. Emissions = [u \in Threads |-> Emissions[u]] /\ Emissions' = [u \in Threads |-> Emissions'[u]]
    BY DEF Emissions
  <2> QED BY <1>7, <1>8, <2>1, Zenon
<1>10. Emissions[t] # <<>> /\ Promise!Newest(t).due = {}
  BY <1>1, EmissionsLen DEF EmissionOf, Due, Intact
<1> QED BY <1>4, <1>9, <1>10 DEF Promise!End, Promise!tableVars

LEMMA FinishEnds ==
  ASSUME WInv, IInv', NEW t \in Threads, Finish(t) \/ Abandon(t)
  PROVE  Promise!End(t)
<1>1. stack[t] # <<>> /\ Pop(t) /\ UNCHANGED <<alive, gen>>
  BY DEF Finish, Abandon, At
<1>2. StackTyped /\ Drained /\ NULL \notin Conns
  BY InvGroups, ObjectAssumption DEF WInv, IInv
<1>0. PICK B \in SUBSET (Conns \X Conns) : Reaches(B) /\ Walk(B)
  BY DEF WInv, Way
<1>3. Due(Top(t)) = {}
  <2>1. CASE Abandon(t)
    BY <1>2, <2>1 DEF Abandon, Drained, Due, Intact
  <2>2. CASE Finish(t)
    <3>1. Coming(Top(t), B) = {}
      BY <1>2, <2>2 DEF Finish, Coming
    <3> QED BY <1>0, <1>1, <1>2, <3>1, TopWalks DEF OnWay, Owes, Due, Intact
  <2> QED BY <2>1, <2>2
<1> QED BY <1>1, <1>3, PopEnds

\* Emissions change one by one.
LEMMA EmissionsAt ==
  ASSUME Frames, Frames', \A u \in Threads : Depth(u)' = Depth(u), NEW u \in Threads
  PROVE  /\ DOMAIN Emissions[u] = 1 .. Depth(u)
         /\ Emissions'[u] = [k \in DOMAIN Emissions[u] |-> EmissionOf(stack'[u][k], alive', gen', conn')]
         /\ \A k \in DOMAIN Emissions[u] :
              /\ Emissions[u][k] = EmissionOf(stack[u][k], alive, gen, conn)
              /\ stack[u][k] \in Activations /\ stack[u][k] \in Frame
              /\ k \in DOMAIN stack[u]
<1>1. Emissions[u] = [i \in 1 .. Depth(u) |-> EmissionOf(stack[u][i], alive, gen, conn)]
  BY EmissionsAre
<1>2. Emissions'[u] = [i \in 1 .. Depth(u) |-> EmissionOf(stack'[u][i], alive', gen', conn')]
  <2>1. Emissions'[u] = [i \in 1 .. Depth(u)' |-> EmissionOf(stack'[u][i], alive', gen', conn')]
    BY EmissionsAreNext
  <2> QED BY <2>1
<1>3. DOMAIN Emissions[u] = 1 .. Depth(u)
  BY <1>1
<1>4. \A k \in 1 .. Depth(u) : stack[u][k] \in Activations /\ stack[u][k] \in Frame /\ k \in DOMAIN stack[u]
  BY ActivationIs DEF Frames
<1> QED BY <1>1, <1>2, <1>3, <1>4

\* An activation of a sender that exists began with it, and owes and may call connections
\* of it; one of a sender that is gone nothing.
LEMMA EmissionIs ==
  ASSUME WInv, NEW f \in Activations
  PROVE  /\ f \in Frame
         /\ f.snd \in alive => /\ gen[f.snd] = f.gen
                               /\ \A c \in f.due \cup f.may :
                                    c \in Conns /\ conn[c].snd = f.snd /\ conn[c] # Blank
                               /\ EmissionOf(f, alive, gen, conn) =
                                    [snd |-> f.snd, sig |-> f.sig, due |-> f.due,
                                     may |-> {<<c, conn[c].rcv>> : c \in {d \in f.may : conn[d].rcv \in alive}}]
         /\ f.snd \notin alive =>
              EmissionOf(f, alive, gen, conn) = [snd |-> f.snd, sig |-> f.sig, due |-> {}, may |-> {}]
<1>0. PICK B \in SUBSET (Conns \X Conns) : Reaches(B) /\ Walk(B)
  BY DEF WInv, Way
<1>1. Frames /\ SameObject
  BY InvGroups, FramesTyped DEF WInv, Shape
<1>2. f \in Frame /\ f.snd \in Senders
  BY <1>1, ActivationIs DEF Frame
<1>3. f.snd \in alive => gen[f.snd] = f.gen
  <2>1. PICK u \in Threads : \E i \in 1 .. Depth(u) : stack[u][i] = f
    BY <1>1, ActivationIs
  <2> QED BY <1>1, <2>1 DEF SameObject
<1>4. Blank.snd = NULL /\ NULL # f.snd
  BY <1>2, ObjectAssumption DEF Blank
<1>5. ASSUME f.snd \in alive, NEW c \in f.due \cup f.may
      PROVE  c \in Conns /\ conn[c].snd = f.snd /\ conn[c] # Blank
  BY <1>0, <1>1, <1>2, <1>4, <1>5 DEF Walk, Owes, Frame
<1>6. f.snd \in alive =>
        EmissionOf(f, alive, gen, conn) =
          [snd |-> f.snd, sig |-> f.sig, due |-> f.due,
           may |-> {<<c, conn[c].rcv>> : c \in {d \in f.may : conn[d].rcv \in alive}}]
  BY <1>3, Zenon DEF EmissionOf
<1>7. f.snd \notin alive =>
        EmissionOf(f, alive, gen, conn) = [snd |-> f.snd, sig |-> f.sig, due |-> {}, may |-> {}]
  BY Zenon DEF EmissionOf
<1> QED BY <1>2, <1>3, <1>5, <1>6, <1>7

\* Erasing takes connections out of the table and of what is owed, and leaves those that
\* the activations of their sender may call.
LEMMA EraseChanges ==
  ASSUME WInv, NEW E \in SUBSET Conns, \A c \in E : \E s \in Senders : c \in Linked(s), Erase(E)
  PROVE  /\ \A c \in E : conn[c] # Blank /\ LinkedConn[c] = conn[c]
         /\ LinkedConn' = [c \in Conns |-> IF c \in E THEN Blank ELSE LinkedConn[c]]
         /\ \A u \in Threads : \A i \in DOMAIN stack[u] : stack'[u][i] = [stack[u][i] EXCEPT !.due = @ \ E]
         /\ \A f \in Activations : f.snd \in alive => \A c \in f.due \cup f.may : conn'[c] = conn[c]
<1>1. ListShape /\ ListsTyped
  BY InvGroups DEF WInv
<1>2. \A c \in E : c \notin erased /\ conn[c] # Blank
  <2>1. Blank.snd = NULL /\ NULL \notin Senders
    BY ObjectAssumption DEF Blank
  <2> QED BY <1>1, <2>1 DEF ListShape
<1> DEFINE kept == {c \in E : \E f \in Activations : f.snd = conn[c].snd}
<1>3. /\ erased' = erased \cup kept
      /\ \A c \in Conns : conn'[c] = IF c \in E \ kept THEN Blank ELSE conn[c]
      /\ \A u \in Threads : \A i \in DOMAIN stack[u] : stack'[u][i] = [stack[u][i] EXCEPT !.due = @ \ E]
  BY DEF Erase
<1>4. \A f \in Activations : \A c \in E : f.snd = conn[c].snd => c \in kept
  OBVIOUS
<1>5. kept \subseteq E
  OBVIOUS
<1> HIDE DEF kept
<1>6. \A f \in Activations : f.snd \in alive => \A c \in f.due \cup f.may : conn'[c] = conn[c]
  BY <1>3, <1>4, EmissionIs
<1>7. LinkedConn' = [c \in Conns |-> IF c \in E THEN Blank ELSE LinkedConn[c]]
  BY <1>3, <1>5 DEF LinkedConn
<1> QED BY <1>2, <1>3, <1>6, <1>7 DEF LinkedConn

\* disconnect() disconnects.
LEMMA DisconnectMaps ==
  ASSUME WInv, IInv', NEW t \in Threads, NEW s \in Senders, NEW sig, NEW r, Disconnect(t, s, sig, r)
  PROVE  \E C \in SUBSET Conns : Promise!Disconnect(C)
<1>1. PICK E : E = Matching(s, sig, r)
  OBVIOUS
<1>2. ListsTyped /\ StackTyped /\ ListShape /\ Frames /\ Frames'
  BY InvGroups, FramesTyped, FramesTypedNext DEF WInv, IInv, TypeOK, StackTyped
<1>3. /\ E \in SUBSET Conns /\ E # {} /\ (\A c \in E : c \in Linked(s)) /\ Erase(E)
      /\ UNCHANGED <<alive, gen>>
  BY <1>1, <1>2, LinkedIs DEF Matching, Disconnect
<1>4. /\ \A c \in E : conn[c] # Blank /\ LinkedConn[c] = conn[c]
      /\ LinkedConn' = [c \in Conns |-> IF c \in E THEN Blank ELSE LinkedConn[c]]
      /\ \A u \in Threads : \A i \in DOMAIN stack[u] : stack'[u][i] = [stack[u][i] EXCEPT !.due = @ \ E]
      /\ \A f \in Activations : f.snd \in alive => \A c \in f.due \cup f.may : conn'[c] = conn[c]
  BY <1>3, EraseChanges
<1>5. Promise!Drop(E)
  <2>1. \A c, d \in E : LinkedConn[c] # Blank /\ LinkedConn[c].snd = LinkedConn[d].snd
    BY <1>2, <1>3, <1>4 DEF ListShape
  <2> QED BY <1>3, <1>4, <2>1 DEF Promise!Drop, Promise!Without
<1>6. \A u \in Threads : Depth(u)' = Depth(u)
  BY <1>2, <1>3, EraseKeeps DEF Kept
<1>7. ASSUME NEW f \in Activations, NEW g, g = [f EXCEPT !.due = @ \ E]
      PROVE  EmissionOf(g, alive', gen', conn') = [EmissionOf(f, alive, gen, conn) EXCEPT !.due = @ \ E]
  <2>1. f \in Frame /\ g.snd = f.snd /\ g.sig = f.sig /\ g.gen = f.gen /\ g.due = f.due \ E /\ g.may = f.may
    BY <1>7, EmissionIs DEF Frame
  <2>2. CASE f.snd \in alive
    <3> DEFINE M == {<<c, conn[c].rcv>> : c \in {d \in f.may : conn[d].rcv \in alive}}
    <3>1. /\ gen[f.snd] = f.gen
          /\ EmissionOf(f, alive, gen, conn) = [snd |-> f.snd, sig |-> f.sig, due |-> f.due, may |-> M]
      BY <2>2, EmissionIs
    <3>2. {<<c, conn'[c].rcv>> : c \in {d \in g.may : conn'[d].rcv \in alive}} = M
      BY <1>4, <2>1, <2>2
    <3> HIDE DEF M
    <3>3. EmissionOf(g, alive', gen', conn') = [snd |-> f.snd, sig |-> f.sig, due |-> f.due \ E, may |-> M]
      BY <1>3, <2>1, <2>2, <3>1, <3>2 DEF EmissionOf
    <3> QED BY <3>1, <3>3
  <2>3. CASE f.snd \notin alive
    <3>1. EmissionOf(f, alive, gen, conn) = [snd |-> f.snd, sig |-> f.sig, due |-> {}, may |-> {}]
      BY <2>3, EmissionIs
    <3>2. EmissionOf(g, alive', gen', conn') = [snd |-> f.snd, sig |-> f.sig, due |-> {}, may |-> {}]
      BY <1>3, <2>1, <2>3 DEF EmissionOf
    <3> QED BY <3>1, <3>2
  <2> QED BY <2>2, <2>3
<1>8. ASSUME NEW u \in Threads
      PROVE  Emissions'[u] = [k \in DOMAIN Emissions[u] |-> [Emissions[u][k] EXCEPT !.due = @ \ E]]
  <2>1. Emissions'[u] = [k \in DOMAIN Emissions[u] |-> EmissionOf(stack'[u][k], alive', gen', conn')]
    BY <1>2, <1>6, EmissionsAt
  <2>2. ASSUME NEW k \in DOMAIN Emissions[u]
        PROVE  EmissionOf(stack'[u][k], alive', gen', conn') = [Emissions[u][k] EXCEPT !.due = @ \ E]
    <3>1. PICK f, g : f = stack[u][k] /\ g = stack'[u][k]
      OBVIOUS
    <3>2. /\ Emissions[u][k] = EmissionOf(f, alive, gen, conn)
          /\ f \in Activations /\ k \in DOMAIN stack[u]
      BY <1>2, <1>6, <3>1, EmissionsAt
    <3>3. g = [f EXCEPT !.due = @ \ E]
      BY <1>4, <3>1, <3>2
    <3>4. EmissionOf(g, alive', gen', conn') = [EmissionOf(f, alive, gen, conn) EXCEPT !.due = @ \ E]
      BY <1>7, <3>2, <3>3, Zenon
    <3> QED BY <3>1, <3>2, <3>4, Zenon
  <2> QED BY <2>1, <2>2, Zenon
<1>9. Emissions' = [u \in Threads |-> [k \in DOMAIN Emissions[u] |-> [Emissions[u][k] EXCEPT !.due = @ \ E]]]
  <2>1. Emissions' = [u \in Threads |-> Emissions'[u]]
    BY DEF Emissions
  <2> QED BY <1>8, <2>1, Zenon
<1>10. Promise!Disconnect(E)
  BY <1>5, <1>9 DEF Promise!Disconnect, Promise!ChangeAll
<1> QED BY <1>3, <1>10

\* connect() connects.
LEMMA ConnectMaps ==
  ASSUME WInv, IInv', NEW t \in Threads, NEW s \in Senders, NEW sig \in Signals, NEW r \in Receivers,
         Connect(t, s, sig, r)
  PROVE  \E c \in Conns, l \in [snd : Senders, sig : Signals, rcv : Receivers] : Promise!Connect(c, l)
<1>1. ListsTyped /\ StackTyped /\ ListShape /\ Frames /\ Frames'
  BY InvGroups, FramesTyped, FramesTypedNext DEF WInv, IInv, TypeOK, StackTyped
<1>2. PICK l : l = [snd |-> s, sig |-> sig, rcv |-> r]
  OBVIOUS
<1>3. PICK c \in Conns :
        /\ conn[c] = Blank
        /\ conn' = [conn EXCEPT ![c] = l]
        /\ stack' = [u \in Threads |-> [i \in DOMAIN stack[u] |->
             LET f == stack[u][i] IN
             IF f.snd = s /\ f.sig = sig THEN [f EXCEPT !.may = @ \cup {c}] ELSE f]]
  BY <1>2 DEF Connect
<1>4. s \in alive /\ r \in alive /\ UNCHANGED <<alive, gen, erased>>
  BY DEF Connect
<1>5. l.snd = s /\ l.sig = sig /\ l.rcv = r /\ l \in [snd : Senders, sig : Signals, rcv : Receivers]
  BY <1>2
<1>6. /\ c \notin erased
      /\ \A d \in Conns : conn'[d] = IF d = c THEN l ELSE conn[d]
      /\ \A u \in Threads : \A i \in DOMAIN stack[u] :
           stack'[u][i] = IF stack[u][i].snd = s /\ stack[u][i].sig = sig
                          THEN [stack[u][i] EXCEPT !.may = @ \cup {c}] ELSE stack[u][i]
  BY <1>1, <1>3 DEF ListsTyped, ListShape
<1>7. Promise!Establish(c, l)
  <2>1. LinkedConn[c] = Blank
    BY <1>3 DEF LinkedConn
  <2>2. LinkedConn' = [LinkedConn EXCEPT ![c] = l]
    BY <1>4, <1>6 DEF LinkedConn
  <2> QED BY <1>4, <1>5, <2>1, <2>2 DEF Promise!Establish
<1>8. \A u \in Threads : Depth(u)' = Depth(u)
  BY <1>1, ConnectKeeps DEF Kept
<1>9. ASSUME NEW f \in Activations, f.snd = s, f.sig = sig, NEW g, g = [f EXCEPT !.may = @ \cup {c}]
      PROVE  EmissionOf(g, alive', gen', conn') =
               [EmissionOf(f, alive, gen, conn) EXCEPT !.may = @ \cup {<<c, r>>}]
  <2> DEFINE M == {<<d, conn[d].rcv>> : d \in {x \in f.may : conn[x].rcv \in alive}}
  <2>1. /\ f \in Frame /\ gen[f.snd] = f.gen
        /\ \A d \in f.may : d \in Conns /\ conn[d] # Blank
        /\ EmissionOf(f, alive, gen, conn) = [snd |-> f.snd, sig |-> f.sig, due |-> f.due, may |-> M]
    BY <1>4, <1>9, EmissionIs
  <2>2. g.snd = f.snd /\ g.sig = f.sig /\ g.gen = f.gen /\ g.due = f.due /\ g.may = f.may \cup {c}
    BY <1>9, <2>1 DEF Frame
  <2>3. PICK table, N : table = conn' /\ N = M \cup {<<c, r>>}
    OBVIOUS
  <2>4. Calls(g, alive, table) = N
    <3>1. \A d \in f.may : d # c /\ table[d] = conn[d]
      BY <1>3, <1>6, <2>1, <2>3
    <3>2. table[c].rcv = r
      BY <1>5, <1>6, <2>3
    <3> QED BY <1>4, <2>2, <2>3, <3>1, <3>2 DEF Calls
  <2> HIDE DEF M
  <2>5. EmissionOf(g, alive, gen, table) = [snd |-> f.snd, sig |-> f.sig, due |-> f.due, may |-> N]
    <3>1. g.snd \in alive /\ gen[g.snd] = g.gen
      BY <1>4, <1>9, <2>1, <2>2
    <3>2. EmissionOf(g, alive, gen, table) = [snd |-> g.snd, sig |-> g.sig, due |-> g.due, may |-> N]
      BY <2>4, <3>1, EmissionWith
    <3> QED BY <2>2, <3>2
  <2> QED BY <1>4, <2>1, <2>3, <2>5
<1>10. ASSUME NEW f \in Activations PROVE EmissionOf(f, alive', gen', conn') = EmissionOf(f, alive, gen, conn)
  <2>1. PICK cn2 : cn2 = conn'
    OBVIOUS
  <2>2. f.snd \in alive => \A d \in f.may : cn2[d] = conn[d]
    BY <1>3, <1>6, <2>1, EmissionIs
  <2>3. EmissionOf(f, alive, gen, cn2) = EmissionOf(f, alive, gen, conn)
    BY <2>2, EmissionKept
  <2> QED BY <1>4, <2>1, <2>3
<1>11. ASSUME NEW u \in Threads
       PROVE  Emissions'[u] =
                [k \in DOMAIN Emissions[u] |->
                   IF Emissions[u][k].snd = l.snd /\ Emissions[u][k].sig = l.sig
                   THEN [Emissions[u][k] EXCEPT !.may = @ \cup {<<c, l.rcv>>}] ELSE Emissions[u][k]]
  <2>1. Emissions'[u] = [k \in DOMAIN Emissions[u] |-> EmissionOf(stack'[u][k], alive', gen', conn')]
    BY <1>1, <1>8, EmissionsAt
  <2>2. ASSUME NEW k \in DOMAIN Emissions[u]
        PROVE  EmissionOf(stack'[u][k], alive', gen', conn') =
                 IF Emissions[u][k].snd = l.snd /\ Emissions[u][k].sig = l.sig
                 THEN [Emissions[u][k] EXCEPT !.may = @ \cup {<<c, l.rcv>>}] ELSE Emissions[u][k]
    <3>1. PICK f, g : f = stack[u][k] /\ g = stack'[u][k]
      OBVIOUS
    <3>2. /\ Emissions[u][k] = EmissionOf(f, alive, gen, conn)
          /\ f \in Activations /\ k \in DOMAIN stack[u]
      BY <1>1, <1>8, <3>1, EmissionsAt
    <3>3. Emissions[u][k].snd = f.snd /\ Emissions[u][k].sig = f.sig
      BY <3>2 DEF EmissionOf
    <3>4. CASE f.snd = s /\ f.sig = sig
      <4>1. g = [f EXCEPT !.may = @ \cup {c}]
        BY <1>6, <3>1, <3>2, <3>4
      <4>2. EmissionOf(g, alive', gen', conn') =
              [EmissionOf(f, alive, gen, conn) EXCEPT !.may = @ \cup {<<c, r>>}]
        BY <1>9, <3>2, <3>4, <4>1, Zenon
      <4> QED BY <1>5, <3>1, <3>2, <3>3, <3>4, <4>2, Zenon
    <3>5. CASE ~(f.snd = s /\ f.sig = sig)
      <4>1. g = f
        BY <1>6, <3>1, <3>2, <3>5
      <4> QED BY <1>5, <1>10, <3>1, <3>2, <3>3, <3>5, <4>1
    <3> QED BY <3>4, <3>5
  <2> QED BY <2>1, <2>2, Zenon
<1>12. Emissions' =
         [u \in Threads |-> [k \in DOMAIN Emissions[u] |->
            IF Emissions[u][k].snd = l.snd /\ Emissions[u][k].sig = l.sig
            THEN [Emissions[u][k] EXCEPT !.may = @ \cup {<<c, l.rcv>>}] ELSE Emissions[u][k]]]
  <2>1. Emissions' = [u \in Threads |-> Emissions'[u]]
    BY DEF Emissions
  <2> QED BY <1>11, <2>1, Zenon
<1>13. Promise!Connect(c, l)
  BY <1>7, <1>12 DEF Promise!Connect, Promise!ChangeAll
<1> QED BY <1>5, <1>13

\* What is left of an emission when the object o is destroyed.
Surviving(M, o) == {m \in M : m[2] # o}

Left(e, o, W) ==
  [e EXCEPT !.due = IF e.snd = o THEN {} ELSE e.due \ W,
            !.may = IF e.snd = o THEN {} ELSE Surviving(e.may, o)]

LEMMA LeftOfOther ==
  ASSUME NEW s, NEW sig, NEW D, NEW M, NEW o, NEW W, s # o
  PROVE  Left([snd |-> s, sig |-> sig, due |-> D, may |-> M], o, W) =
           [snd |-> s, sig |-> sig, due |-> D \ W, may |-> Surviving(M, o)]
<1>0. PICK e : e = [snd |-> s, sig |-> sig, due |-> D, may |-> M]
  OBVIOUS
<1> DEFINE D2 == D \ W
           M2 == Surviving(M, o)
           w == Left(e, o, W)
           R == [snd : {s}, sig : {sig}, due : {D, D2}, may : {M, M2}]
<1>1. e \in R /\ e.snd = s /\ e.due = D /\ e.may = M
  BY <1>0
<1>2. w = [e EXCEPT !.due = D2, !.may = M2]
  BY <1>1, Zenon DEF Left
<1> HIDE DEF w, D2, M2
<1>3. w \in R /\ w.snd = s /\ w.sig = sig /\ w.due = D2 /\ w.may = M2
  BY <1>1, <1>2
<1>4. w = [snd |-> s, sig |-> sig, due |-> D2, may |-> M2]
  BY <1>3
<1> QED BY <1>0, <1>4 DEF w, D2, M2

LEMMA LeftOfOwn ==
  ASSUME NEW sig, NEW D, NEW M, NEW o, NEW W
  PROVE  Left([snd |-> o, sig |-> sig, due |-> D, may |-> M], o, W) =
           [snd |-> o, sig |-> sig, due |-> {}, may |-> {}]
<1>0. PICK e : e = [snd |-> o, sig |-> sig, due |-> D, may |-> M]
  OBVIOUS
<1> DEFINE D2 == {}
           M2 == {}
           w == Left(e, o, W)
           R == [snd : {o}, sig : {sig}, due : {D, D2}, may : {M, M2}]
<1>1. e \in R /\ e.snd = o /\ e.due = D /\ e.may = M
  BY <1>0
<1>2. w = [e EXCEPT !.due = D2, !.may = M2]
  BY <1>1, Zenon DEF Left
<1> HIDE DEF w, D2, M2
<1>3. w \in R /\ w.snd = o /\ w.sig = sig /\ w.due = D2 /\ w.may = M2
  BY <1>1, <1>2
<1>4. w = [snd |-> o, sig |-> sig, due |-> D2, may |-> M2]
  BY <1>3
<1> QED BY <1>0, <1>4 DEF w, D2, M2

\* Nothing is left of an emission that has nothing.
LEMMA LeftOfNone ==
  ASSUME NEW s, NEW sig, NEW o, NEW W
  PROVE  Left([snd |-> s, sig |-> sig, due |-> {}, may |-> {}], o, W) =
           [snd |-> s, sig |-> sig, due |-> {}, may |-> {}]
<1>1. CASE s = o
  BY <1>1, LeftOfOwn
<1>2. CASE s # o
  <2>1. {} \ W = {} /\ Surviving({}, o) = {}
    BY DEF Surviving
  <2>2. Left([snd |-> s, sig |-> sig, due |-> {}, may |-> {}], o, W) =
          [snd |-> s, sig |-> sig, due |-> {} \ W, may |-> Surviving({}, o)]
    BY <1>2, LeftOfOther
  <2> QED BY <2>1, <2>2, Zenon
<1> QED BY <1>1, <1>2

LEMMA EmissionsLeft ==
  ASSUME Frames, Frames', \A u \in Threads : Depth(u)' = Depth(u), NEW o, NEW W,
         \A u \in Threads : \A k \in DOMAIN stack[u] : stack[u][k] \in Activations =>
           EmissionOf(stack'[u][k], alive', gen', conn') = Left(EmissionOf(stack[u][k], alive, gen, conn), o, W)
  PROVE  Emissions' = [u \in Threads |-> [k \in DOMAIN Emissions[u] |-> Left(Emissions[u][k], o, W)]]
<1>1. ASSUME NEW u \in Threads
      PROVE  Emissions'[u] = [k \in DOMAIN Emissions[u] |-> Left(Emissions[u][k], o, W)]
  <2>1. Emissions'[u] = [k \in DOMAIN Emissions[u] |-> EmissionOf(stack'[u][k], alive', gen', conn')]
    BY EmissionsAt
  <2>2. \A k \in DOMAIN Emissions[u] :
          EmissionOf(stack'[u][k], alive', gen', conn') = Left(Emissions[u][k], o, W)
    BY EmissionsAt, Zenon
  <2> QED BY <2>1, <2>2, Zenon
<1>2. Emissions' = [u \in Threads |-> Emissions'[u]]
  BY DEF Emissions
<1> QED BY <1>1, <1>2, Zenon

\* The end of a destructor, as the abstract specification sees it.
LEMMA DestroyIs ==
  ASSUME NEW o, Promise!Vanish(o), NEW W, W = Promise!With(o),
         Emissions' = [u \in Threads |-> [k \in DOMAIN Emissions[u] |-> Left(Emissions[u][k], o, W)]]
  PROVE  Promise!Destroy(o)
BY Zenon DEF Promise!Destroy, Promise!ChangeAll, Left, Surviving

\* What connections there are.
LEMMA LinkedConnIs ==
  ASSUME ListsTyped, ListShape, NEW c \in Conns, LinkedConn[c] # Blank
  PROVE  /\ c \notin erased /\ LinkedConn[c] = conn[c] /\ conn[c].snd \in Senders
         /\ conn[c].rcv \in Receivers /\ c \in Linked(conn[c].snd)
BY DEF LinkedConn, ListsTyped, ListShape

\* The end of ~SlotBase.
LEMMA DestroyReceiverMaps ==
  ASSUME WInv, IInv', NEW t \in Threads, NEW r \in Receivers, DestroyReceiver(t, r)
  PROVE  Promise!Destroy(r)
<1>1. PICK E : E = Received(r)
  OBVIOUS
<1>2. ListsTyped /\ StackTyped /\ ListShape /\ Frames /\ Frames'
  BY InvGroups, FramesTyped, FramesTypedNext DEF WInv, IInv, TypeOK, StackTyped
<1>3. /\ E \in SUBSET Conns /\ (\A c \in E : \E s \in Senders : c \in Linked(s)) /\ Erase(E)
      /\ r \in alive /\ alive' = alive \ {r} /\ UNCHANGED gen
      /\ \A c \in E : conn[c].rcv = r
  BY <1>1, <1>2, LinkedIs DEF Received, DestroyReceiver
<1>4. /\ \A c \in E : conn[c] # Blank /\ LinkedConn[c] = conn[c]
      /\ LinkedConn' = [c \in Conns |-> IF c \in E THEN Blank ELSE LinkedConn[c]]
      /\ \A u \in Threads : \A i \in DOMAIN stack[u] : stack'[u][i] = [stack[u][i] EXCEPT !.due = @ \ E]
      /\ \A f \in Activations : f.snd \in alive => \A c \in f.due \cup f.may : conn'[c] = conn[c]
  BY <1>3, EraseChanges
<1>5. Promise!With(r) = E
  <2>1. ASSUME NEW c \in Conns, LinkedConn[c] # Blank, r \in {LinkedConn[c].snd, LinkedConn[c].rcv}
        PROVE  c \in E
    <3>1. conn[c].rcv = r /\ c \in Linked(conn[c].snd) /\ conn[c].snd \in Senders
      BY <1>2, <2>1, LinkedConnIs, ObjectAssumption
    <3> QED BY <1>1, <3>1 DEF Received
  <2> QED BY <1>3, <1>4, <2>1 DEF Promise!With
<1>6. Promise!Vanish(r)
  BY <1>3, <1>4, <1>5 DEF Promise!Vanish, Promise!Without
<1>7. \A u \in Threads : Depth(u)' = Depth(u)
  BY <1>2, <1>3, EraseKeeps DEF Kept
<1>8. ASSUME NEW f \in Activations, NEW g, g = [f EXCEPT !.due = @ \ E]
      PROVE  EmissionOf(g, alive', gen', conn') = Left(EmissionOf(f, alive, gen, conn), r, E)
  <2>1. /\ f \in Frame /\ f.snd # r
        /\ g.snd = f.snd /\ g.sig = f.sig /\ g.gen = f.gen /\ g.due = f.due \ E /\ g.may = f.may
    BY <1>8, EmissionIs, ObjectAssumption DEF Frame
  <2>2. CASE f.snd \in alive
    <3>1. PICK M, N, table, exist : /\ M = Calls(f, alive, conn) /\ N = Surviving(M, r)
                                    /\ table = conn' /\ exist = alive'
      OBVIOUS
    <3>2. /\ gen[f.snd] = f.gen
          /\ EmissionOf(f, alive, gen, conn) = [snd |-> f.snd, sig |-> f.sig, due |-> f.due, may |-> M]
      BY <2>2, <3>1, EmissionIs DEF Calls
    <3>3. Calls(g, exist, table) = N
      <4>1. \A c \in f.may : table[c] = conn[c]
        BY <1>4, <2>2, <3>1
      <4> QED BY <1>3, <2>1, <3>1, <4>1 DEF Calls, Surviving
    <3>4. EmissionOf(g, exist, gen, table) = [snd |-> g.snd, sig |-> g.sig, due |-> g.due, may |-> N]
      <4>1. g.snd \in exist /\ gen[g.snd] = g.gen
        BY <1>3, <2>1, <2>2, <3>1, <3>2
      <4> QED BY <3>3, <4>1, EmissionWith
    <3>5. Left(EmissionOf(f, alive, gen, conn), r, E) =
            [snd |-> f.snd, sig |-> f.sig, due |-> f.due \ E, may |-> N]
      <4>1. Left([snd |-> f.snd, sig |-> f.sig, due |-> f.due, may |-> M], r, E) =
              [snd |-> f.snd, sig |-> f.sig, due |-> f.due \ E, may |-> Surviving(M, r)]
        BY <2>1, LeftOfOther
      <4> QED BY <3>1, <3>2, <4>1, Zenon
    <3> QED BY <1>3, <2>1, <3>1, <3>4, <3>5
  <2>3. CASE f.snd \notin alive
    <3>1. EmissionOf(f, alive, gen, conn) = [snd |-> f.snd, sig |-> f.sig, due |-> {}, may |-> {}]
      BY <2>3, EmissionIs
    <3>2. EmissionOf(g, alive', gen', conn') = [snd |-> f.snd, sig |-> f.sig, due |-> {}, may |-> {}]
      BY <1>3, <2>1, <2>3 DEF EmissionOf
    <3>3. Left(EmissionOf(f, alive, gen, conn), r, E) = [snd |-> f.snd, sig |-> f.sig, due |-> {}, may |-> {}]
      BY <3>1, LeftOfNone
    <3> QED BY <3>2, <3>3
  <2> QED BY <2>2, <2>3
<1>9. ASSUME NEW u \in Threads, NEW k \in DOMAIN stack[u], stack[u][k] \in Activations
      PROVE  EmissionOf(stack'[u][k], alive', gen', conn') =
               Left(EmissionOf(stack[u][k], alive, gen, conn), r, E)
  <2>1. PICK f, g : f = stack[u][k] /\ g = stack'[u][k]
    OBVIOUS
  <2>2. g = [f EXCEPT !.due = @ \ E] /\ f \in Activations
    BY <1>4, <1>9, <2>1
  <2>3. EmissionOf(g, alive', gen', conn') = Left(EmissionOf(f, alive, gen, conn), r, E)
    BY <1>8, <2>2, Zenon
  <2> QED BY <2>1, <2>3
<1>10. Emissions' = [u \in Threads |-> [k \in DOMAIN Emissions[u] |-> Left(Emissions[u][k], r, E)]]
  BY <1>2, <1>7, <1>9, EmissionsLeft
<1> QED BY <1>5, <1>6, <1>10, DestroyIs

\* The end of ~SignalBase.
LEMMA DestroySenderMaps ==
  ASSUME WInv, IInv', NEW t \in Threads, NEW s \in Senders, DestroySender(t, s)
  PROVE  Promise!Destroy(s)
<1>1. ListsTyped /\ StackTyped /\ ListShape /\ Frames /\ Frames'
  BY InvGroups, FramesTyped, FramesTypedNext DEF WInv, IInv, TypeOK, StackTyped
<1>2. /\ s \in alive /\ alive' = alive \ {s} /\ stack' = stack
      /\ \A u \in Senders : u # s => gen'[u] = gen[u]
      /\ erased' = erased \ {c \in Conns : conn[c].snd = s}
      /\ \A c \in Conns : conn'[c] = IF conn[c].snd = s THEN Blank ELSE conn[c]
  <2>1. Forget({c \in Conns : conn[c].snd = s})
    BY DEF DestroySender
  <2>2. gen \in [Senders -> 0 .. MaxGen]
    BY InvGroups DEF WInv, StateTyped
  <2> QED BY <2>1, <2>2 DEF DestroySender, Forget
<1>3. PICK W : W = Promise!With(s)
  OBVIOUS
<1>4. \A c \in Conns : c \in W <=> LinkedConn[c] # Blank /\ conn[c].snd = s
  <2>1. \A c \in Conns : LinkedConn[c] # Blank => LinkedConn[c] = conn[c] /\ conn[c].rcv # s
    BY <1>1, LinkedConnIs, ObjectAssumption
  <2> QED BY <1>3, <2>1 DEF Promise!With
<1>5. W \subseteq Conns
  BY <1>3 DEF Promise!With
<1>6. LinkedConn' = [c \in Conns |-> IF c \in W THEN Blank ELSE LinkedConn[c]]
  <2>1. \A c \in Conns : (IF c \in erased' THEN Blank ELSE conn'[c]) =
                           IF conn[c].snd = s THEN Blank ELSE LinkedConn[c]
    BY <1>2 DEF LinkedConn
  <2>2. \A c \in Conns : (IF conn[c].snd = s THEN Blank ELSE LinkedConn[c]) =
                           IF c \in W THEN Blank ELSE LinkedConn[c]
    BY <1>4
  <2> QED BY <2>1, <2>2 DEF LinkedConn
<1>7. Promise!Vanish(s)
  BY <1>2, <1>3, <1>6 DEF Promise!Vanish, Promise!Without
<1>8. ASSUME NEW f \in Activations
      PROVE  EmissionOf(f, alive', gen', conn') = Left(EmissionOf(f, alive, gen, conn), s, W)
  <2>1. CASE f.snd \notin alive
    <3>1. EmissionOf(f, alive, gen, conn) = [snd |-> f.snd, sig |-> f.sig, due |-> {}, may |-> {}]
      BY <2>1, EmissionIs
    <3>2. EmissionOf(f, alive', gen', conn') = [snd |-> f.snd, sig |-> f.sig, due |-> {}, may |-> {}]
      BY <1>2, <2>1 DEF EmissionOf
    <3>3. Left(EmissionOf(f, alive, gen, conn), s, W) = [snd |-> f.snd, sig |-> f.sig, due |-> {}, may |-> {}]
      BY <3>1, LeftOfNone
    <3> QED BY <3>2, <3>3
  <2>2. CASE f.snd \in alive
    <3>1. PICK M : M = Calls(f, alive, conn)
      OBVIOUS
    <3>2. /\ f \in Frame /\ \A c \in f.due \cup f.may : c \in Conns /\ conn[c].snd = f.snd /\ conn[c] # Blank
          /\ EmissionOf(f, alive, gen, conn) = [snd |-> f.snd, sig |-> f.sig, due |-> f.due, may |-> M]
      BY <2>2, <3>1, EmissionIs DEF Calls
    <3>3. CASE f.snd = s
      <4>1. EmissionOf(f, alive', gen', conn') = [snd |-> s, sig |-> f.sig, due |-> {}, may |-> {}]
        BY <1>2, <3>3 DEF EmissionOf
      <4>2. Left([snd |-> s, sig |-> f.sig, due |-> f.due, may |-> M], s, W) =
              [snd |-> s, sig |-> f.sig, due |-> {}, may |-> {}]
        BY LeftOfOwn
      <4> QED BY <3>2, <3>3, <4>1, <4>2, Zenon
    <3>4. CASE f.snd # s
      <4>1. f.due \ W = f.due
        BY <1>4, <3>2, <3>4
      <4>2. Surviving(M, s) = M
        <5>1. \A c \in f.may : conn[c].rcv # s
          BY <1>1, <3>2, ConnIs, ObjectAssumption
        <5> QED BY <3>1, <5>1 DEF Calls, Surviving
      <4>3. Left([snd |-> f.snd, sig |-> f.sig, due |-> f.due, may |-> M], s, W) =
              [snd |-> f.snd, sig |-> f.sig, due |-> f.due \ W, may |-> Surviving(M, s)]
        BY <3>4, LeftOfOther
      <4>4. Left(EmissionOf(f, alive, gen, conn), s, W) = EmissionOf(f, alive, gen, conn)
        BY <3>2, <4>1, <4>2, <4>3, Zenon
      <4>5. EmissionOf(f, alive', gen', conn') = EmissionOf(f, alive, gen, conn)
        <5>1. PICK al2, gn2, cn2 : al2 = alive' /\ gn2 = gen' /\ cn2 = conn'
          OBVIOUS
        <5>2. f.snd \in al2 /\ gn2[f.snd] = gen[f.snd]
          BY <1>2, <2>2, <3>2, <3>4, <5>1 DEF Frame
        <5>3. \A c \in f.may : cn2[c] = conn[c] /\ (conn[c].rcv \in al2 <=> conn[c].rcv \in alive)
          <6>1. ASSUME NEW c \in f.may PROVE conn'[c] = conn[c] /\ (conn[c].rcv \in alive' <=> conn[c].rcv \in alive)
            <7>1. c \in Conns /\ conn[c].snd # s /\ conn[c].rcv # s
              BY <1>1, <3>2, <3>4, ConnIs, ObjectAssumption
            <7> QED BY <1>2, <7>1
          <6> QED BY <5>1, <6>1
        <5>4. EmissionOf(f, al2, gn2, cn2) = EmissionOf(f, alive, gen, conn)
          BY <2>2, <5>2, <5>3, EmissionKept
        <5> QED BY <5>1, <5>4
      <4> QED BY <4>4, <4>5
    <3> QED BY <3>3, <3>4
  <2> QED BY <2>1, <2>2
<1>9. \A u \in Threads : Depth(u)' = Depth(u)
  BY <1>2 DEF Depth
<1>10. Emissions' = [u \in Threads |-> [k \in DOMAIN Emissions[u] |-> Left(Emissions[u][k], s, W)]]
  <2>1. ASSUME NEW u \in Threads, NEW k \in DOMAIN stack[u], stack[u][k] \in Activations
        PROVE  EmissionOf(stack'[u][k], alive', gen', conn') = Left(EmissionOf(stack[u][k], alive, gen, conn), s, W)
    BY <1>2, <1>8, <2>1, Zenon
  <2> QED BY <1>1, <1>9, <2>1, EmissionsLeft
<1> QED BY <1>3, <1>7, <1>10, DestroyIs

\* A sender is built.
LEMMA CreateMaps ==
  ASSUME WInv, IInv', NEW t \in Threads, NEW s \in Senders, Unused(s), Create(t, s)
  PROVE  Promise!Create(s)
<1>1. ListsTyped /\ StackTyped /\ ListShape /\ Frames /\ Frames'
  BY InvGroups, FramesTyped, FramesTypedNext DEF WInv, IInv, TypeOK, StackTyped
<1>2. s \notin alive /\ alive' = alive \cup {s} /\ UNCHANGED <<gen, listVars, stack>>
  BY DEF Create
<1>3. LinkedConn' = LinkedConn
  BY <1>2 DEF LinkedConn, listVars
<1>4. ASSUME NEW f \in Activations PROVE EmissionOf(f, alive', gen', conn') = EmissionOf(f, alive, gen, conn)
  <2>1. PICK al2 : al2 = alive'
    OBVIOUS
  <2>2. f.snd \in al2 <=> f.snd \in alive
    BY <1>2, <2>1 DEF Unused
  <2>3. f.snd \in alive => \A c \in f.may : conn[c].rcv \in al2 <=> conn[c].rcv \in alive
    <3>1. ASSUME f.snd \in alive, NEW c \in f.may PROVE conn[c].rcv # s
      <4>1. c \in Conns /\ conn[c] # Blank
        BY <3>1, EmissionIs
      <4> QED BY <1>1, <4>1, ConnIs, ObjectAssumption
    <3> QED BY <1>2, <2>1, <3>1
  <2>4. EmissionOf(f, al2, gen, conn) = EmissionOf(f, alive, gen, conn)
    BY <2>2, <2>3, EmissionKept
  <2> QED BY <1>2, <2>1, <2>4 DEF listVars
<1>5. \A u \in Threads : Depth(u)' = Depth(u)
  BY <1>2 DEF Depth
<1>6. Emissions' = Emissions
  <2>1. ASSUME NEW u \in Threads, NEW i \in 1 .. Depth(u)
        PROVE  EmissionOf(stack'[u][i], alive', gen', conn') = EmissionOf(stack[u][i], alive, gen, conn)
    <3>1. stack[u][i] \in Activations
      BY <1>1, ActivationIs
    <3> QED BY <1>2, <1>4, <3>1
  <2> QED BY <1>1, <1>5, <2>1, SameEmissions
<1> QED BY <1>2, <1>3, <1>6 DEF Promise!Create, Promise!Appear

\* At the beginning nothing is connected and nothing in progress.
LEMMA InitMaps == Init => Promise!DInit
<1> SUFFICES ASSUME Init PROVE Promise!DInit
  OBVIOUS
<1>1. alive = Senders \cup Receivers /\ LinkedConn = [c \in Conns |-> Blank]
  BY DEF Init, LinkedConn
<1>2. Frames /\ \A t \in Threads : stack[t] = <<>>
  BY InitInv, InvGroups, FramesTyped DEF Init
<1>3. \A t \in Threads : Emissions[t] = <<>>
  BY <1>2, EmissionsLen
<1>4. Emissions = [t \in Threads |-> <<>>]
  <2>1. Emissions = [t \in Threads |-> Emissions[t]]
    BY DEF Emissions
  <2> QED BY <1>3, <2>1
<1> QED BY <1>1, <1>4 DEF Promise!DInit, Promise!Init

\* Every step of the code is a step of the abstract specification, or invisible in it.
LEMMA NextMaps == WInv /\ IInv' /\ [Next]_vars => [Promise!DNext]_(Promise!deliveryVars)
<1> SUFFICES ASSUME WInv, IInv', [Next]_vars PROVE Promise!DNext \/ UNCHANGED Promise!deliveryVars
  OBVIOUS
<1>1. CASE UNCHANGED vars
  BY <1>1 DEF vars, listVars, Promise!deliveryVars, Promise!tableVars, LinkedConn, Emissions, Due, May, Intact
<1>2. ASSUME NEW t \in Threads, UserStep(t) PROVE Promise!DNext
  <2>1. CASE \E s \in Senders, sig \in Signals, r \in Receivers : Connect(t, s, sig, r)
    BY <2>1, ConnectMaps DEF Promise!DNext
  <2>2. CASE \E s \in Senders, sig \in Signals \cup {NULL}, r \in Receivers \cup {NULL} :
               Disconnect(t, s, sig, r)
    BY <2>2, DisconnectMaps DEF Promise!DNext
  <2>3. CASE \E r \in Receivers :
               /\ Orderly(r)
               /\ \A c \in Conns : conn[c].rcv = r => Alone(t, conn[c].snd)
               /\ DestroyReceiver(t, r)
    BY <2>3, DestroyReceiverMaps DEF Promise!DNext
  <2>4. CASE \E s \in Senders : Alone(t, s) /\ DestroySender(t, s)
    BY <2>4, DestroySenderMaps DEF Promise!DNext
  <2>5. CASE \E s \in Senders : Unused(s) /\ Create(t, s)
    BY <2>5, CreateMaps DEF Promise!DNext
  <2>6. CASE \E s \in Senders, sig \in Signals : Alone(t, s) /\ ~At(t, "handler") /\ Emit(t, s, sig)
    BY <2>6, EmitBegins DEF Promise!DNext
  <2> QED BY <1>2, <2>1, <2>2, <2>3, <2>4, <2>5, <2>6 DEF UserStep
<1>3. ASSUME NEW t \in Threads, Returning(t) \/ Activating(t)
      PROVE  Promise!DNext \/ UNCHANGED Promise!deliveryVars
  <2>1. CASE Visit(t)
    BY <2>1, VisitCalls DEF Promise!DNext
  <2>2. CASE Finish(t) \/ Abandon(t)
    BY <2>2, FinishEnds DEF Promise!DNext
  <2>3. CASE Deliver(t) \/ Returning(t) \/ Check(t) \/ Handle(t) \/ Leave(t) \/ Skip(t) \/ Continue(t)
    BY <2>3, Unseen
  <2> QED BY <1>3, <2>1, <2>2, <2>3 DEF Activating
<1> QED BY <1>1, <1>2, <1>3 DEF Next

\* activate() keeps its promise: an emission calls every connection that was there at its
\* beginning and has stayed, none twice, none that has never been there and none of an
\* object that is gone, whatever its slots and other threads connect, disconnect and emit, and
\* with the objects that they destroy and build under the rules Alone, Orderly and Unused.
THEOREM PromiseKept == Spec => KeepsPromise
<1>1. IInv /\ [Next]_vars => IInv'
  BY StepInv
<1>2. WInv => IInv
  BY DEF WInv
<1> QED BY <1>1, <1>2, InitW, StepW, InitMaps, NextMaps, PTL DEF Spec, KeepsPromise, Promise!DSpec

=============================================================================
