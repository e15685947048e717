---------------------------- MODULE SharedListProofs ----------------------------
(***************************************************************************)
(* What loops over a SharedList come to, for any number of handles and     *)
(* elements: an inductive invariant, and the properties of                 *)
(* SharedListTraversal from it.                                            *)
(***************************************************************************)
EXTENDS SharedListTraversal, FiniteSetTheorems, TLAPS

-----------------------------------------------------------------------------
(* The list as a sequence *)

Distinct == \A i, j \in DOMAIN list : list[i] = list[j] => i = j

\* x comes before y in the list.
Before(x, y) == \E i, j \in DOMAIN list : i < j /\ list[i] = x /\ list[j] = y

LEMMA LinkedAt ==
  ASSUME list \in Seq(Nodes)
  PROVE  /\ \A n \in Linked : \E i \in DOMAIN list : list[i] = n
         /\ \A i \in DOMAIN list : list[i] \in Linked
         /\ Linked \subseteq Nodes
BY DEF Linked, Range

LEMMA IndexAt ==
  ASSUME list \in Seq(Nodes), Distinct, NEW n \in Linked
  PROVE  /\ Index(n) \in DOMAIN list /\ list[Index(n)] = n
         /\ \A i \in DOMAIN list : list[i] = n => i = Index(n)
<1>1. \E i \in DOMAIN list : list[i] = n
  BY LinkedAt
<1>2. Index(n) \in DOMAIN list /\ list[Index(n)] = n
  BY <1>1 DEF Index
<1> QED BY <1>2 DEF Distinct

\* The element next to n is the first of those behind it.
LEMMA AfterFirst ==
  ASSUME list \in Seq(Nodes), Distinct, NEW n \in Linked
  PROVE  /\ After(n) \in Linked \cup {NULL}
         /\ After(n) # NULL => Before(n, After(n))
         /\ \A m \in Linked : Before(n, m) =>
              After(n) # NULL /\ (m = After(n) \/ Before(After(n), m))
<1> DEFINE k == Index(n)
<1>1. k \in 1 .. Len(list) /\ list[k] = n
  BY IndexAt
<1>2. CASE k = Len(list)
  <2>1. After(n) = NULL
    BY <1>2 DEF After
  <2>2. \A m \in Linked : ~Before(n, m)
    <3> SUFFICES ASSUME NEW m \in Linked, Before(n, m) PROVE FALSE
      OBVIOUS
    <3>1. PICK i, j \in DOMAIN list : i < j /\ list[i] = n
      BY DEF Before
    <3>2. i = k
      BY <3>1, IndexAt
    <3> QED BY <3>1, <3>2, <1>2
  <2> QED BY <2>1, <2>2
<1>3. CASE k # Len(list)
  <2>1. k + 1 \in DOMAIN list /\ After(n) = list[k + 1]
    BY <1>1, <1>3 DEF After
  <2>2. After(n) \in Linked /\ After(n) # NULL
    BY <2>1, LinkedAt, NullAssumption
  <2>3. Before(n, After(n))
    BY <1>1, <2>1 DEF Before
  <2>4. ASSUME NEW m \in Linked, Before(n, m)
        PROVE  m = After(n) \/ Before(After(n), m)
    <3>1. PICK i, j \in DOMAIN list : i < j /\ list[i] = n /\ list[j] = m
      BY <2>4 DEF Before
    <3>2. i = k
      BY <3>1, IndexAt
    <3>3. j = k + 1 \/ k + 1 < j
      BY <3>1, <3>2, <1>1
    <3> QED BY <3>1, <3>3, <2>1 DEF Before
  <2> QED BY <2>2, <2>3, <2>4
<1> QED BY <1>2, <1>3

LEMMA FirstBefore ==
  ASSUME list \in Seq(Nodes)
  PROVE  /\ First(list) \in Linked \cup {NULL}
         /\ \A m \in Linked :
              First(list) # NULL /\ (m = First(list) \/ Before(First(list), m))
<1>1. CASE list = <<>>
  BY <1>1, LinkedAt DEF First
<1>2. CASE list # <<>>
  <2>1. 1 \in DOMAIN list /\ First(list) = list[1]
    BY <1>2 DEF First
  <2>2. First(list) \in Linked /\ First(list) # NULL
    BY <2>1, LinkedAt, NullAssumption
  <2>3. ASSUME NEW m \in Linked PROVE m = First(list) \/ Before(First(list), m)
    <3>1. PICK i \in DOMAIN list : list[i] = m
      BY LinkedAt
    <3>2. i = 1 \/ 1 < i
      BY <3>1
    <3> QED BY <2>1, <3>1, <3>2 DEF Before
  <2> QED BY <2>2, <2>3
<1> QED BY <1>1, <1>2

\* Of two elements one comes first.
LEMMA BeforeTotal ==
  ASSUME list \in Seq(Nodes), NEW x \in Linked, NEW y \in Linked, x # y
  PROVE  Before(x, y) \/ Before(y, x)
<1>1. PICK i \in DOMAIN list : list[i] = x
  BY LinkedAt
<1>2. PICK j \in DOMAIN list : list[j] = y
  BY LinkedAt
<1>3. i < j \/ j < i
  BY <1>1, <1>2
<1> QED BY <1>1, <1>2, <1>3 DEF Before

LEMMA BeforeLinked ==
  ASSUME list \in Seq(Nodes), NEW x, NEW y, Before(x, y)
  PROVE  x \in Linked /\ y \in Linked
BY LinkedAt DEF Before

LEMMA Inserted ==
  ASSUME list \in Seq(Nodes), NEW n \in Nodes, NEW k \in 1 .. Len(list) + 1,
         list' = InsertAt(list, k, n)
  PROVE  /\ list' \in Seq(Nodes) /\ Len(list') = Len(list) + 1
         /\ list'[k] = n
         /\ \A i \in DOMAIN list : i < k => list'[i] = list[i]
         /\ \A i \in DOMAIN list : i >= k => list'[i + 1] = list[i]
<1> DEFINE a == SubSeq(list, 1, k - 1)  b == SubSeq(list, k, Len(list))
<1>1. a \in Seq(Nodes) /\ Len(a) = k - 1 /\ \A i \in 1 .. k - 1 : a[i] = list[i]
  OBVIOUS
<1>2. b \in Seq(Nodes) /\ Len(b) = Len(list) - k + 1
        /\ \A i \in 1 .. Len(list) - k + 1 : b[i] = list[k + i - 1]
  OBVIOUS
<1>3. list' = (a \o <<n>>) \o b
  BY DEF InsertAt
<1> HIDE DEF a, b
<1>4. a \o <<n>> \in Seq(Nodes) /\ Len(a \o <<n>>) = k
        /\ (a \o <<n>>)[k] = n /\ \A i \in 1 .. k - 1 : (a \o <<n>>)[i] = list[i]
  BY <1>1
<1>5. list' \in Seq(Nodes) /\ Len(list') = Len(list) + 1
  <2> DEFINE c == a \o <<n>>
  <2>1. c \in Seq(Nodes) /\ Len(c) = k /\ list' = c \o b
    BY <1>3, <1>4
  <2> HIDE DEF c
  <2>2. list' \in Seq(Nodes) /\ Len(list') = k + Len(b)
    BY <2>1, <1>2
  <2>3. k + Len(b) = Len(list) + 1
    BY <1>2
  <2> QED BY <2>2, <2>3
<1>6. \A i \in 1 .. k : list'[i] = (a \o <<n>>)[i]
  BY <1>2, <1>3, <1>4
<1>7. ASSUME NEW i \in 1 .. Len(list) - k + 1 PROVE list'[k + i] = b[i]
  <2> DEFINE c == a \o <<n>>
  <2>1. c \in Seq(Nodes) /\ Len(c) = k /\ list' = c \o b
    BY <1>3, <1>4
  <2> HIDE DEF c
  <2>2. k + i > k /\ k + i \in 1 .. k + Len(b)
    BY <1>2
  <2>3. list'[k + i] = b[(k + i) - k]
    BY <2>1, <2>2, <1>2
  <2>4. (k + i) - k = i
    OBVIOUS
  <2> QED BY <2>3, <2>4
<1>8. \A i \in DOMAIN list : i < k => list'[i] = list[i]
  BY <1>4, <1>6
<1>9. ASSUME NEW i \in DOMAIN list, i >= k PROVE list'[i + 1] = list[i]
  <2>1. i - k + 1 \in 1 .. Len(list) - k + 1
    BY <1>9
  <2>2. list'[k + (i - k + 1)] = b[i - k + 1]
    BY <2>1, <1>7
  <2>3. b[i - k + 1] = list[k + (i - k + 1) - 1]
    BY <2>1, <1>2
  <2> QED BY <2>2, <2>3
<1> QED BY <1>4, <1>5, <1>6, <1>8, <1>9

LEMMA Removed ==
  ASSUME list \in Seq(Nodes), NEW k \in DOMAIN list, list' = RemoveAt(list, k)
  PROVE  /\ list' \in Seq(Nodes) /\ Len(list') = Len(list) - 1
         /\ \A i \in DOMAIN list' : list'[i] = IF i < k THEN list[i] ELSE list[i + 1]
<1> DEFINE a == SubSeq(list, 1, k - 1)  b == SubSeq(list, k + 1, Len(list))
<1>1. a \in Seq(Nodes) /\ Len(a) = k - 1 /\ \A i \in 1 .. k - 1 : a[i] = list[i]
  OBVIOUS
<1>2. b \in Seq(Nodes) /\ Len(b) = Len(list) - k
        /\ \A i \in 1 .. Len(list) - k : b[i] = list[k + i]
  OBVIOUS
<1>3. list' = a \o b
  BY DEF RemoveAt
<1> HIDE DEF a, b
<1>4. list' \in Seq(Nodes) /\ Len(list') = Len(list) - 1
  BY <1>1, <1>2, <1>3
<1>5. \A i \in 1 .. k - 1 : list'[i] = list[i]
  BY <1>1, <1>2, <1>3
<1>6. ASSUME NEW i \in DOMAIN list', ~(i < k) PROVE list'[i] = list[i + 1]
  <2>1. i - k + 1 \in 1 .. Len(list) - k
    BY <1>4, <1>6
  <2>2. list'[i] = b[i - k + 1]
    BY <1>1, <1>2, <1>3, <1>4, <1>6
  <2>3. b[i - k + 1] = list[k + (i - k + 1)]
    BY <2>1, <1>2
  <2>4. k + (i - k + 1) = i + 1
    BY <1>4
  <2> QED BY <2>2, <2>3, <2>4
<1>7. \A i \in DOMAIN list' : list'[i] = IF i < k THEN list[i] ELSE list[i + 1]
  <2> TAKE i \in DOMAIN list'
  <2>1. i < k => i \in 1 .. k - 1
    BY <1>4
  <2> QED BY <2>1, <1>5, <1>6
<1> QED BY <1>4, <1>7

LEMMA InsertedOrder ==
  ASSUME list \in Seq(Nodes), Distinct, NEW n \in Nodes \ Linked,
         NEW k \in 1 .. Len(list) + 1, list' = InsertAt(list, k, n)
  PROVE  /\ list' \in Seq(Nodes) /\ Distinct' /\ Linked' = Linked \cup {n}
         /\ \A x, y : Before(x, y)' =>
              \/ Before(x, y)
              \/ y = n /\ \E i \in DOMAIN list : i < k /\ list[i] = x
              \/ x = n /\ \E i \in DOMAIN list : i >= k /\ list[i] = y
<1>1. /\ list' \in Seq(Nodes) /\ Len(list') = Len(list) + 1
      /\ list'[k] = n
      /\ \A i \in DOMAIN list : i < k => list'[i] = list[i]
      /\ \A i \in DOMAIN list : i >= k => list'[i + 1] = list[i]
  BY Inserted
<1>2. \A i \in DOMAIN list : list[i] # n
  BY LinkedAt
<1>3. ASSUME NEW j \in DOMAIN list'
      PROVE  \/ j < k /\ j \in DOMAIN list /\ list'[j] = list[j]
             \/ j = k /\ list'[j] = n
             \/ j > k /\ j - 1 \in DOMAIN list /\ j - 1 >= k /\ list'[j] = list[j - 1]
  <2>1. CASE j < k
    BY <2>1, <1>1
  <2>2. CASE j = k
    BY <2>2, <1>1
  <2>3. CASE j > k
    <3>1. j - 1 \in DOMAIN list /\ j - 1 >= k
      BY <2>3, <1>1
    <3>2. (j - 1) + 1 = j
      BY <1>1
    <3> QED BY <2>3, <3>1, <3>2, <1>1
  <2> QED BY <1>1, <2>1, <2>2, <2>3
<1>4. Distinct'
  <2> SUFFICES ASSUME NEW i \in DOMAIN list', NEW j \in DOMAIN list', list'[i] = list'[j]
               PROVE  i = j
    BY DEF Distinct
  <2>1. i \in Nat /\ j \in Nat /\ k \in Nat
    BY <1>1
  <2> QED BY <2>1, <1>2, <1>3 DEF Distinct
<1>5. Linked' = Linked \cup {n}
  <2>1. \A m : m \in Linked' <=> \E j \in DOMAIN list' : list'[j] = m
    BY DEF Linked, Range
  <2>2. \A m \in Linked' : m \in Linked \cup {n}
    <3> SUFFICES ASSUME NEW j \in DOMAIN list' PROVE list'[j] \in Linked \cup {n}
      BY <2>1
    <3> QED BY <1>3, LinkedAt
  <2>3. n \in Linked'
    BY <1>1, <2>1
  <2>4. \A i \in DOMAIN list : list[i] \in Linked'
    <3> TAKE i \in DOMAIN list
    <3>1. CASE i < k
      BY <3>1, <1>1, <2>1
    <3>2. CASE i >= k
      BY <3>2, <1>1, <2>1
    <3> QED BY <3>1, <3>2
  <2>5. \A m \in Linked : m \in Linked'
    BY <2>4, LinkedAt
  <2> QED BY <2>2, <2>3, <2>5
<1>6. ASSUME NEW x, NEW y, Before(x, y)'
      PROVE  \/ Before(x, y)
             \/ y = n /\ \E i \in DOMAIN list : i < k /\ list[i] = x
             \/ x = n /\ \E i \in DOMAIN list : i >= k /\ list[i] = y
  <2>1. PICK i, j \in DOMAIN list' : i < j /\ list'[i] = x /\ list'[j] = y
    BY <1>6 DEF Before
  <2>2. i \in Nat /\ j \in Nat /\ k \in Nat
    BY <1>1
  <2> QED BY <2>1, <2>2, <1>3 DEF Before
<1> QED BY <1>1, <1>4, <1>5, <1>6

LEMMA RemovedOrder ==
  ASSUME list \in Seq(Nodes), Distinct, NEW c \in Linked, list' = RemoveAt(list, Index(c))
  PROVE  /\ list' \in Seq(Nodes) /\ Distinct' /\ Linked' = Linked \ {c}
         /\ \A x, y : Before(x, y)' => Before(x, y)
<1> DEFINE k == Index(c)
<1>1. k \in DOMAIN list /\ list[k] = c /\ \A i \in DOMAIN list : list[i] = c => i = k
  BY IndexAt
<1> HIDE DEF k
<1>2. /\ list' \in Seq(Nodes) /\ Len(list') = Len(list) - 1
      /\ \A i \in DOMAIN list' : list'[i] = IF i < k THEN list[i] ELSE list[i + 1]
  BY <1>1, Removed DEF k
<1>3. ASSUME NEW j \in DOMAIN list'
      PROVE  \/ j < k /\ j \in DOMAIN list /\ list'[j] = list[j]
             \/ j >= k /\ j + 1 \in DOMAIN list /\ list'[j] = list[j + 1]
  BY <1>1, <1>2
<1>4. Distinct'
  <2> SUFFICES ASSUME NEW i \in DOMAIN list', NEW j \in DOMAIN list', list'[i] = list'[j]
               PROVE  i = j
    BY DEF Distinct
  <2>1. i \in Nat /\ j \in Nat /\ k \in Nat
    BY <1>1, <1>2
  <2> QED BY <2>1, <1>3 DEF Distinct
<1>5. Linked' = Linked \ {c}
  <2>1. \A m : m \in Linked' <=> \E j \in DOMAIN list' : list'[j] = m
    BY DEF Linked, Range
  <2>2. \A m \in Linked' : m \in Linked \ {c}
    <3> SUFFICES ASSUME NEW j \in DOMAIN list' PROVE list'[j] \in Linked \ {c}
      BY <2>1
    <3>1. j \in Nat /\ k \in Nat
      BY <1>1, <1>2
    <3> QED BY <3>1, <1>1, <1>3, LinkedAt
  <2>3. ASSUME NEW i \in DOMAIN list, i # k PROVE list[i] \in Linked'
    <3>1. CASE i < k
      <4>1. i \in DOMAIN list'
        BY <3>1, <1>1, <1>2
      <4> QED BY <3>1, <4>1, <1>2, <2>1
    <3>2. CASE i > k
      <4>1. i - 1 \in DOMAIN list' /\ ~(i - 1 < k)
        BY <3>2, <1>1, <1>2
      <4>2. list'[i - 1] = list[(i - 1) + 1] /\ (i - 1) + 1 = i
        BY <4>1, <1>2
      <4> QED BY <4>1, <4>2, <2>1
    <3> QED BY <2>3, <3>1, <3>2, <1>1
  <2>4. \A m \in Linked \ {c} : m \in Linked'
    BY <2>3, <1>1, LinkedAt
  <2> QED BY <2>2, <2>4
<1>6. ASSUME NEW x, NEW y, Before(x, y)' PROVE Before(x, y)
  <2>1. PICK i, j \in DOMAIN list' : i < j /\ list'[i] = x /\ list'[j] = y
    BY <1>6 DEF Before
  <2>2. i \in Nat /\ j \in Nat /\ k \in Nat
    BY <1>1, <1>2
  <2> QED BY <2>1, <2>2, <1>3 DEF Before
<1> QED BY <1>2, <1>4, <1>5, <1>6

-----------------------------------------------------------------------------
(* Which elements are not given up *)

\* Element n will not be given up as long as h is open.
Keeps(h, n) ==
  \/ n \in Linked
  \/ n \in erased /\ (h \in watchers[n] \/ (n = retiring /\ h \in open))

\* A call of erase() is at the element that it has taken out, and nobody else
\* changes the list meanwhile.
RetiringInv ==
  retiring # NULL =>
    /\ writer # NULL /\ cursor[writer] = retiring
    /\ retiring \in erased /\ trail[retiring] \in Linked \cup {NULL}

OpenInv ==
  /\ \A n \in Nodes : watchers[n] \subseteq open
  /\ \A h \in Handles : cursor[h] # NULL => h \in open

CursorInv == \A h \in Handles : cursor[h] # NULL => Keeps(h, cursor[h])

\* What is kept for a handle leads to what is kept for it.
TrailInv ==
  \A h \in Handles, c \in erased : Keeps(h, c) /\ trail[c] # NULL => Keeps(h, trail[c])

BaseInv == /\ TypeOK
           /\ Distinct
           /\ Linked \cap erased = {}
           /\ RetiringInv
           /\ OpenInv
           /\ CursorInv
           /\ TrailInv

LEMMA FollowTyped ==
  ASSUME BaseInv, NEW h \in Handles, cursor[h] # NULL
  PROVE  /\ Follow(cursor[h]) \in Nodes \cup {NULL}
         /\ Follow(cursor[h]) # NULL => Keeps(h, Follow(cursor[h]))
<1> DEFINE c == cursor[h]
<1>1. Keeps(h, c) /\ c \in Nodes
  BY DEF BaseInv, CursorInv, TypeOK
<1>2. CASE c \in erased
  BY <1>1, <1>2 DEF BaseInv, TrailInv, TypeOK, Follow
<1>3. CASE c \notin erased
  <2>1. c \in Linked /\ list \in Seq(Nodes) /\ Distinct
    BY <1>1, <1>3 DEF Keeps, BaseInv, TypeOK
  <2>2. After(c) \in Linked \cup {NULL}
    BY <2>1, AfterFirst
  <2> QED BY <1>3, <2>1, <2>2, LinkedAt DEF Follow, Keeps
<1> QED BY <1>2, <1>3

\* Steps of iterators.
LEMMA MoveBase ==
  ASSUME BaseInv, NEW h \in Handles, Begin(h) \/ Advance(h)
  PROVE  BaseInv'
<1> USE DEF BaseInv
<1>1. PICK d \in Nodes \cup {NULL} : cursor' = [cursor EXCEPT ![h] = d] /\ (d # NULL => Keeps(h, d))
  <2>1. CASE Begin(h)
    BY <2>1, FirstBefore, LinkedAt DEF Begin, TypeOK, Keeps
  <2>2. CASE Advance(h)
    BY <2>2, FollowTyped DEF Advance
  <2> QED BY <2>1, <2>2
<1>2. Ready(h) /\ UNCHANGED <<alive, list, erased, trail, watchers, retiring, open, writer>>
  BY DEF Begin, Advance
<1>3. \A g, n : Keeps(g, n)' <=> Keeps(g, n)
  BY <1>2 DEF Keeps, Linked
<1>4. TypeOK'
  BY <1>1, <1>2 DEF TypeOK
<1>5. Distinct' /\ (Linked \cap erased = {})'
  BY <1>2 DEF Distinct, Linked
<1>6. RetiringInv'
  BY <1>1, <1>2 DEF RetiringInv, Ready, TypeOK, Linked
<1>7. OpenInv'
  BY <1>1, <1>2 DEF OpenInv, Ready, TypeOK
<1>8. CursorInv'
  BY <1>1, <1>3 DEF CursorInv, TypeOK
<1>9. TrailInv'
  BY <1>2, <1>3 DEF TrailInv
<1> QED BY <1>4, <1>5, <1>6, <1>7, <1>8, <1>9

\* A handle is opened, or takes the mutex.
LEMMA OpenBase ==
  ASSUME BaseInv, NEW h \in Handles, Open(h) \/ LockWrite(h)
  PROVE  /\ BaseInv'
         /\ \A g, n : Keeps(g, n) => Keeps(g, n)'
<1> USE DEF BaseInv
<1>1. /\ UNCHANGED <<alive, list, erased, trail, watchers, retiring, cursor>>
      /\ open' \in {open, open \cup {h}} /\ (open' = open \/ writer' = writer)
      /\ writer' = writer \/ (writer = NULL /\ writer' = h /\ h \in open)
  BY DEF Open, LockWrite
<1>2. TypeOK'
  BY <1>1 DEF TypeOK
<1>3. Linked' = Linked /\ Distinct'
  BY <1>1 DEF Distinct, Linked
<1>4. \A g, n : Keeps(g, n) => Keeps(g, n)'
  BY <1>1, <1>3 DEF Keeps
<1>5. RetiringInv'
  BY <1>1, <1>3 DEF RetiringInv
<1>6. OpenInv'
  BY <1>1 DEF OpenInv
<1>7. CursorInv'
  BY <1>1, <1>4 DEF CursorInv
<1>8. TrailInv'
  <2> SUFFICES ASSUME NEW g \in Handles, NEW c \in erased, Keeps(g, c)', trail[c] # NULL
               PROVE  Keeps(g, trail[c])'
    BY <1>1 DEF TrailInv
  <2>1. CASE Keeps(g, c)
    BY <2>1, <1>1, <1>4 DEF TrailInv
  <2>2. CASE ~Keeps(g, c)
    <3>1. c = retiring
      BY <2>2, <1>1, <1>3 DEF Keeps
    <3>2. trail[c] \in Linked
      BY <3>1, NullAssumption DEF RetiringInv, TypeOK
    <3> QED BY <3>2, <1>1, <1>3 DEF Keeps
  <2> QED BY <2>1, <2>2
<1> QED BY <1>1, <1>2, <1>3, <1>4, <1>5, <1>6, <1>7, <1>8

LEMMA InsertBase ==
  ASSUME BaseInv, NEW h \in Handles, Insert(h)
  PROVE  /\ BaseInv'
         /\ \A g, n : Keeps(g, n) => Keeps(g, n)'
<1> USE DEF BaseInv
<1>1. PICK n \in Nodes \ (Linked \cup erased), k \in 1 .. Len(list) + 1 :
        list' = InsertAt(list, k, n)
  BY DEF Insert
<1>2. retiring = NULL /\ UNCHANGED <<alive, erased, trail, watchers, retiring, open, writer, cursor>>
  BY DEF Insert, Ready
<1>3. list' \in Seq(Nodes) /\ Distinct' /\ Linked' = Linked \cup {n}
  BY <1>1, InsertedOrder DEF TypeOK
<1>4. \A g, m : Keeps(g, m) => Keeps(g, m)'
  BY <1>2, <1>3 DEF Keeps
<1>5. TypeOK'
  BY <1>2, <1>3 DEF TypeOK
<1>6. RetiringInv' /\ OpenInv'
  BY <1>2 DEF RetiringInv, OpenInv
<1>7. CursorInv'
  BY <1>2, <1>4 DEF CursorInv
<1>8. TrailInv'
  <2> SUFFICES ASSUME NEW g \in Handles, NEW c \in erased, Keeps(g, c)', trail[c] # NULL
               PROVE  Keeps(g, trail[c])'
    BY <1>2 DEF TrailInv
  <2>1. Keeps(g, c)
    BY <1>1, <1>2, <1>3 DEF Keeps
  <2> QED BY <2>1, <1>2, <1>4 DEF TrailInv
<1> QED BY <1>1, <1>2, <1>3, <1>4, <1>5, <1>6, <1>7, <1>8

LEMMA EraseBase ==
  ASSUME BaseInv, NEW h \in Handles, Erase(h)
  PROVE  /\ BaseInv'
         /\ \A n : \A g \in open : Keeps(g, n) => Keeps(g, n)'
<1> USE DEF BaseInv
<1> DEFINE c == cursor[h]
<1>1. /\ h \in open /\ writer = h /\ retiring = NULL /\ c \in Linked
      /\ list' = RemoveAt(list, Index(c)) /\ erased' = erased \cup {c}
      /\ trail' = [trail EXCEPT ![c] = Follow(c)] /\ retiring' = c
      /\ UNCHANGED <<alive, watchers, open, writer, cursor>>
  BY DEF Erase, Ready
<1> HIDE DEF c
<1>2. list' \in Seq(Nodes) /\ Distinct' /\ Linked' = Linked \ {c}
  BY <1>1, RemovedOrder DEF TypeOK
<1>3. c \in Nodes /\ c # NULL /\ c \notin erased /\ h # NULL
  BY <1>1, LinkedAt, NullAssumption DEF TypeOK
<1>4. Follow(c) = After(c) /\ After(c) \in Linked \cup {NULL} /\ After(c) # c
  <2>1. After(c) \in Linked \cup {NULL} /\ (After(c) # NULL => Before(c, After(c)))
    BY <1>1, AfterFirst DEF TypeOK
  <2>2. ~Before(c, c)
    BY DEF Before, Distinct, TypeOK
  <2> QED BY <2>1, <2>2, <1>3 DEF Follow
<1>5. \A n : \A g \in open : Keeps(g, n) => Keeps(g, n)'
  BY <1>1, <1>2, <1>3, NullAssumption DEF Keeps, TypeOK
<1>6. TypeOK'
  BY <1>1, <1>2, <1>3, <1>4, LinkedAt DEF TypeOK
<1>7. (Linked \cap erased = {})'
  BY <1>1, <1>2
<1>8. RetiringInv'
  BY <1>1, <1>2, <1>3, <1>4 DEF RetiringInv, TypeOK, c
<1>9. OpenInv'
  BY <1>1 DEF OpenInv
<1>10. CursorInv'
  BY <1>1, <1>5 DEF CursorInv, OpenInv
<1>11. TrailInv'
  <2> SUFFICES ASSUME NEW g \in Handles, NEW d \in erased', Keeps(g, d)', trail'[d] # NULL
               PROVE  Keeps(g, trail[d])'
    BY DEF TrailInv
  <2>1. CASE d = c
    BY <2>1, <1>1, <1>2, <1>3, <1>4 DEF Keeps, TypeOK
  <2>2. CASE d # c
    <3>1. d \in erased /\ trail'[d] = trail[d] /\ d \in Nodes
      BY <2>2, <1>1 DEF TypeOK
    <3>2. g \in watchers[d] /\ g \in open /\ Keeps(g, d)
      BY <2>2, <3>1, <1>1, <1>2 DEF Keeps, OpenInv
    <3> QED BY <3>1, <3>2, <1>5 DEF TrailInv
  <2> QED BY <2>1, <2>2
<1> QED BY <1>2, <1>5, <1>6, <1>7, <1>8, <1>9, <1>10, <1>11

LEMMA RetireBase ==
  ASSUME BaseInv, NEW h \in Handles, Retire(h)
  PROVE  /\ BaseInv'
         /\ \A g, n : Keeps(g, n)' <=> Keeps(g, n)
<1> USE DEF BaseInv
<1>1. /\ writer = h /\ retiring # NULL /\ watchers' = [watchers EXCEPT ![retiring] = open]
      /\ retiring' = NULL
      /\ UNCHANGED <<alive, list, erased, trail, open, writer>>
  BY DEF Retire
<1>2. cursor[h] = retiring /\ retiring \in Nodes /\ retiring \in erased
  BY <1>1 DEF RetiringInv, TypeOK
<1>3. PICK d \in Nodes \cup {NULL} : cursor' = [cursor EXCEPT ![h] = d] /\ (d # NULL => Keeps(h, d))
  BY <1>1, <1>2, FollowTyped DEF Retire, CursorInv
<1>4. Linked' = Linked /\ Distinct'
  BY <1>1 DEF Linked, Distinct
<1>5. \A g, n : Keeps(g, n)' <=> Keeps(g, n)
  BY <1>1, <1>2, <1>4, NullAssumption DEF Keeps, OpenInv, TypeOK
<1>6. TypeOK'
  BY <1>1, <1>2, <1>3 DEF TypeOK
<1>7. RetiringInv'
  BY <1>1 DEF RetiringInv
<1>8. OpenInv'
  BY <1>1, <1>2, <1>3 DEF OpenInv, TypeOK
<1>9. CursorInv'
  BY <1>3, <1>5 DEF CursorInv, TypeOK
<1>10. TrailInv'
  BY <1>1, <1>5 DEF TrailInv
<1> QED BY <1>1, <1>4, <1>5, <1>6, <1>7, <1>8, <1>9, <1>10

LEMMA CloseBase ==
  ASSUME BaseInv, NEW h \in Handles, Close(h)
  PROVE  /\ BaseInv'
         /\ \A g, n : Keeps(g, n)' => Keeps(g, n)
         /\ \A g \in Handles \ {h}, n \in Nodes : Keeps(g, n) => Keeps(g, n)'
<1> USE DEF BaseInv
<1>1. /\ h \in open /\ (writer = h => retiring = NULL)
      /\ open' = open \ {h} /\ writer' = IF writer = h THEN NULL ELSE writer
      /\ watchers' = [n \in Nodes |-> watchers[n] \ {h}]
      /\ cursor' = [cursor EXCEPT ![h] = NULL]
      /\ UNCHANGED <<alive, list, erased, trail, retiring>>
  BY DEF Close, Ready
<1>2. Linked' = Linked /\ Distinct' /\ Linked \subseteq Nodes
  BY <1>1, LinkedAt DEF Linked, Distinct, TypeOK
<1>3. \A g, n : Keeps(g, n)' => Keeps(g, n)
  BY <1>1, <1>2 DEF Keeps, TypeOK
<1>4. \A g \in Handles \ {h}, n \in Nodes : Keeps(g, n) => Keeps(g, n)'
  BY <1>1, <1>2 DEF Keeps, TypeOK
<1>5. \A g, n : ~(g = h /\ Keeps(g, n)' /\ n \notin Linked)
  BY <1>1, <1>2 DEF Keeps, TypeOK
<1>6. TypeOK'
  BY <1>1, NullAssumption DEF TypeOK
<1>7. RetiringInv'
  BY <1>1, <1>2 DEF RetiringInv, TypeOK
<1>8. OpenInv'
  BY <1>1 DEF OpenInv, TypeOK
<1>9. CursorInv'
  BY <1>1, <1>4 DEF CursorInv, TypeOK
<1>10. TrailInv'
  <2> SUFFICES ASSUME NEW g \in Handles, NEW c \in erased, Keeps(g, c)', trail[c] # NULL
               PROVE  Keeps(g, trail[c])'
    BY <1>1 DEF TrailInv
  <2>1. g # h /\ Keeps(g, c) /\ trail[c] \in Nodes
    BY <1>3, <1>5 DEF TypeOK
  <2> QED BY <2>1, <1>1, <1>4 DEF TrailInv
<1> QED BY <1>1, <1>2, <1>3, <1>4, <1>6, <1>7, <1>8, <1>9, <1>10

LEMMA ReclaimBase ==
  ASSUME BaseInv, NEW n \in Nodes, Reclaim(n)
  PROVE  /\ BaseInv'
         /\ \A g \in Handles : ~Keeps(g, n)
         /\ \A g, m : Keeps(g, m)' => Keeps(g, m)
         /\ \A m : \A g \in Handles : Keeps(g, m) => Keeps(g, m)'
<1> USE DEF BaseInv
<1>1. /\ n \in erased /\ n # retiring /\ watchers[n] = {}
      /\ erased' = erased \ {n} /\ trail' = [trail EXCEPT ![n] = NULL]
      /\ UNCHANGED <<alive, list, watchers, retiring, open, writer, cursor>>
  BY DEF Reclaim
<1>2. Linked' = Linked /\ Distinct'
  BY <1>1 DEF Linked, Distinct
<1>3. \A g \in Handles : ~Keeps(g, n)
  BY <1>1 DEF Keeps
<1>4. \A g, m : Keeps(g, m)' => Keeps(g, m)
  BY <1>1, <1>2 DEF Keeps
<1>5. \A m : \A g \in Handles : Keeps(g, m) => Keeps(g, m)'
  BY <1>1, <1>2, <1>3 DEF Keeps
<1>6. TypeOK'
  BY <1>1 DEF TypeOK
<1>7. RetiringInv'
  BY <1>1, <1>2 DEF RetiringInv, TypeOK
<1>8. OpenInv'
  BY <1>1 DEF OpenInv
<1>9. CursorInv'
  BY <1>1, <1>5 DEF CursorInv
<1>10. TrailInv'
  <2> SUFFICES ASSUME NEW g \in Handles, NEW c \in erased', Keeps(g, c)', trail'[c] # NULL
               PROVE  Keeps(g, trail[c])'
    BY DEF TrailInv
  <2>1. c \in erased /\ Keeps(g, c) /\ trail'[c] = trail[c]
    BY <1>1, <1>4 DEF TypeOK
  <2> QED BY <2>1, <1>1, <1>5 DEF TrailInv
<1> QED BY <1>1, <1>2, <1>3, <1>4, <1>5, <1>6, <1>7, <1>8, <1>9, <1>10

LEMMA DestroyBase ==
  ASSUME BaseInv, Destroy
  PROVE  BaseInv' /\ Linked' = {} /\ erased' = {}
<1> USE DEF BaseInv
<1>1. /\ writer = NULL /\ alive' = FALSE /\ list' = <<>> /\ erased' = {}
      /\ trail' = [n \in Nodes |-> NULL] /\ watchers' = [n \in Nodes |-> {}]
      /\ open' = {} /\ cursor' = [h \in Handles |-> NULL]
      /\ UNCHANGED <<retiring, writer>>
  BY DEF Destroy
<1>2. retiring = NULL
  BY <1>1 DEF RetiringInv
<1>3. Linked' = {} /\ Distinct'
  BY <1>1 DEF Linked, Range, Distinct
<1>4. TypeOK'
  <2>1. list' \in Seq(Nodes)
    BY <1>1
  <2> QED BY <2>1, <1>1, <1>2 DEF TypeOK
<1>5. RetiringInv' /\ OpenInv' /\ CursorInv' /\ TrailInv'
  BY <1>1, <1>2 DEF RetiringInv, OpenInv, CursorInv, TrailInv
<1> QED BY <1>1, <1>3, <1>4, <1>5

LEMMA InitBase == Init => BaseInv
<1> SUFFICES ASSUME Init PROVE BaseInv
  OBVIOUS
<1>1. TypeOK
  BY DEF Init, TypeOK
<1>2. Linked = {} /\ Distinct
  BY DEF Init, Linked, Range, Distinct
<1>3. RetiringInv /\ OpenInv /\ CursorInv /\ TrailInv
  BY DEF Init, RetiringInv, OpenInv, CursorInv, TrailInv
<1> QED BY <1>1, <1>2, <1>3 DEF BaseInv, Init

-----------------------------------------------------------------------------
(* The order in which loops come to elements.  An erased element has a     *)
(* place in it as long as it leads anywhere.                               *)

Known == Linked \cup erased

Watched(c) == c \in erased /\ \E h \in Handles : Keeps(h, c)

StrictOrder(B) ==
  /\ \A x : <<x, x>> \notin B
  /\ \A x, y, z : <<x, y>> \in B /\ <<y, z>> \in B => <<x, z>> \in B

\* By its trail c comes to all linked elements behind it.
Leads(c, B) ==
  /\ trail[c] # NULL => <<c, trail[c]>> \in B
  /\ \A m \in Linked : <<c, m>> \in B =>
       trail[c] # NULL /\ (m = trail[c] \/ <<trail[c], m>> \in B)

OrderInv(B) ==
  /\ StrictOrder(B)
  /\ \A x, y : <<x, y>> \in B => x \in Known /\ y \in Known
  /\ \A x, y : Before(x, y) => <<x, y>> \in B
  /\ \A c \in erased : Watched(c) => Leads(c, B)

LEMMA OrderOfLinked ==
  ASSUME TypeOK, NEW B, OrderInv(B), NEW x \in Linked, NEW y \in Linked, <<x, y>> \in B
  PROVE  Before(x, y)
<1>1. x # y
  BY DEF OrderInv, StrictOrder
<1>2. Before(x, y) \/ Before(y, x)
  BY <1>1, BeforeTotal DEF TypeOK
<1>3. ~Before(y, x)
  BY DEF OrderInv, StrictOrder
<1> QED BY <1>2, <1>3

\* operator++ leads to the first of the linked elements behind it.
LEMMA StepAhead ==
  ASSUME BaseInv, NEW B, OrderInv(B), NEW h \in Handles, cursor[h] # NULL,
         NEW d, d = Follow(cursor[h])
  PROVE  /\ d # NULL => <<cursor[h], d>> \in B
         /\ \A m \in Linked : <<cursor[h], m>> \in B => d # NULL /\ (m = d \/ <<d, m>> \in B)
<1> DEFINE c == cursor[h]
<1>1. Keeps(h, c) /\ c \in Nodes
  BY DEF BaseInv, CursorInv, TypeOK
<1>2. CASE c \in erased
  <2>1. Watched(c) /\ d = trail[c]
    BY <1>1, <1>2 DEF Watched, Follow
  <2> QED BY <2>1, <1>2 DEF OrderInv, Leads
<1>3. CASE c \notin erased
  <2>1. c \in Linked /\ d = After(c)
    BY <1>1, <1>3 DEF Keeps, Follow
  <2>2. /\ d \in Linked \cup {NULL} /\ (d # NULL => Before(c, d))
        /\ \A m \in Linked : Before(c, m) => d # NULL /\ (m = d \/ Before(d, m))
    BY <2>1, AfterFirst DEF BaseInv, TypeOK
  <2>3. \A m \in Linked : <<c, m>> \in B => Before(c, m)
    BY <2>1, OrderOfLinked DEF BaseInv
  <2> QED BY <2>2, <2>3 DEF OrderInv
<1> QED BY <1>2, <1>3

\* Nothing is inserted or erased, and no more is watched.
LEMMA OrderKept ==
  ASSUME NEW B, OrderInv(B), UNCHANGED <<list, erased, trail>>,
         \A c \in erased : Watched(c)' => Watched(c)
  PROVE  OrderInv(B)'
<1>1. Linked' = Linked /\ Known' = Known
  BY DEF Known, Linked
<1>2. \A x, y : Before(x, y)' <=> Before(x, y)
  BY DEF Before
<1>3. \A c : Leads(c, B)' <=> Leads(c, B)
  BY <1>1 DEF Leads
<1> QED BY <1>1, <1>2, <1>3 DEF OrderInv

LEMMA OrderInsert ==
  ASSUME BaseInv, NEW B, OrderInv(B), NEW h \in Handles, Insert(h)
  PROVE  \E C : B \subseteq C /\ OrderInv(C)'
<1>1. PICK n \in Nodes \ (Linked \cup erased), k \in 1 .. Len(list) + 1 :
        list' = InsertAt(list, k, n)
  BY DEF Insert
<1>2. UNCHANGED <<erased, trail, watchers, retiring, open>>
  BY DEF Insert
<1>3. /\ Linked' = Linked \cup {n}
      /\ \A x, y : Before(x, y)' =>
           \/ Before(x, y)
           \/ y = n /\ \E i \in DOMAIN list : i < k /\ list[i] = x
           \/ x = n /\ \E i \in DOMAIN list : i >= k /\ list[i] = y
  BY <1>1, InsertedOrder DEF BaseInv, TypeOK
<1> DEFINE Low(x) == \E i \in DOMAIN list : i < k /\ (x = list[i] \/ <<x, list[i]>> \in B)
           High(y) == \E i \in DOMAIN list : i >= k /\ (y = list[i] \/ <<list[i], y>> \in B)
           D == B \cup {<<x, n>> : x \in {m \in Known : Low(m)}}
                  \cup {<<n, y>> : y \in {m \in Known : High(m)}}
<1>4. n \notin Known
  BY <1>1 DEF Known
<1>5. \A x : Low(x) \/ High(x) => x \in Known
  <2>1. \A i \in DOMAIN list : list[i] \in Known
    BY LinkedAt DEF BaseInv, TypeOK, Known
  <2>2. \A x, y : <<x, y>> \in B => x \in Known /\ y \in Known
    BY DEF OrderInv
  <2> QED BY <2>1, <2>2
<1>6. \A i, j \in DOMAIN list : i < j => <<list[i], list[j]>> \in B
  BY DEF OrderInv, Before
<1>7. \A x, y : Low(x) /\ High(y) => <<x, y>> \in B
  <2> SUFFICES ASSUME NEW x, NEW y, Low(x), High(y) PROVE <<x, y>> \in B
    OBVIOUS
  <2>1. PICK i \in DOMAIN list : i < k /\ (x = list[i] \/ <<x, list[i]>> \in B)
    OBVIOUS
  <2>2. PICK j \in DOMAIN list : j >= k /\ (y = list[j] \/ <<list[j], y>> \in B)
    OBVIOUS
  <2>3. <<list[i], list[j]>> \in B
    <3>1. i \in Nat /\ j \in Nat /\ k \in Nat
      BY DEF BaseInv, TypeOK
    <3>2. i < j
      BY <3>1, <2>1, <2>2
    <3> QED BY <3>2, <1>6
  <2> QED BY <2>1, <2>2, <2>3 DEF OrderInv, StrictOrder
<1>8. \A x, y : <<x, y>> \in B /\ Low(y) => Low(x)
  BY DEF OrderInv, StrictOrder
<1>9. \A x, y : <<x, y>> \in B /\ High(x) => High(y)
  BY DEF OrderInv, StrictOrder
<1>10. \A x, y : <<x, y>> \in B => x # n /\ y # n
  BY <1>4 DEF OrderInv
<1> HIDE DEF Low, High
<1>11. PICK C :
         /\ B \subseteq C
         /\ \A x, y : <<x, y>> \in C <=>
              (<<x, y>> \in B \/ (y = n /\ Low(x)) \/ (x = n /\ High(y)))
  <2>1. B \subseteq D
    OBVIOUS
  <2>2. \A x, y : <<x, y>> \in D <=>
          (<<x, y>> \in B \/ (y = n /\ Low(x)) \/ (x = n /\ High(y)))
    BY <1>5
  <2> HIDE DEF D
  <2> QED BY <2>1, <2>2
<1> HIDE DEF D
<1>12. StrictOrder(C)
  <2>1. ~Low(n) /\ ~High(n)
    BY <1>4, <1>5
  <2>2. \A x : <<x, x>> \notin C
    BY <2>1, <1>11 DEF OrderInv, StrictOrder
  <2>3. ASSUME NEW x, NEW y, NEW z, <<x, y>> \in C, <<y, z>> \in C PROVE <<x, z>> \in C
    <3>1. CASE <<x, y>> \in B /\ <<y, z>> \in B
      BY <3>1, <1>11 DEF OrderInv, StrictOrder
    <3>2. CASE <<x, y>> \in B /\ z = n /\ Low(y)
      BY <3>2, <1>8, <1>11
    <3>3. CASE x = n /\ High(y) /\ <<y, z>> \in B
      BY <3>3, <1>9, <1>11
    <3>4. CASE y = n /\ Low(x) /\ High(z)
      BY <3>4, <1>7, <1>11
    <3>5. CASE High(y) /\ Low(y)
      BY <3>5, <1>7 DEF OrderInv, StrictOrder
    <3> QED BY <2>1, <2>3, <3>1, <3>2, <3>3, <3>4, <3>5, <1>10, <1>11
  <2> QED BY <2>2, <2>3 DEF StrictOrder
<1>13. \A x, y : <<x, y>> \in C => x \in Known' /\ y \in Known'
  <2>1. Known' = Known \cup {n}
    BY <1>2, <1>3 DEF Known
  <2> QED BY <2>1, <1>5, <1>11 DEF OrderInv
<1>14. \A x, y : Before(x, y)' => <<x, y>> \in C
  <2> SUFFICES ASSUME NEW x, NEW y, Before(x, y)' PROVE <<x, y>> \in C
    OBVIOUS
  <2>1. CASE Before(x, y)
    BY <2>1, <1>11 DEF OrderInv
  <2>2. CASE y = n /\ \E i \in DOMAIN list : i < k /\ list[i] = x
    BY <2>2, <1>11 DEF Low
  <2>3. CASE x = n /\ \E i \in DOMAIN list : i >= k /\ list[i] = y
    BY <2>3, <1>11 DEF High
  <2> QED BY <2>1, <2>2, <2>3, <1>3
<1>15. \A c \in erased' : Watched(c)' => Leads(c, C)'
  <2> SUFFICES ASSUME NEW c \in erased, Watched(c)' PROVE Leads(c, C)'
    BY <1>2
  <2>1. Watched(c) /\ Leads(c, B) /\ c # n /\ c \notin Linked
    <3>1. c # n /\ c \notin Linked
      BY <1>1 DEF BaseInv
    <3>2. \A g : Keeps(g, c)' => Keeps(g, c)
      BY <3>1, <1>2, <1>3 DEF Keeps
    <3> QED BY <3>1, <3>2 DEF Watched, OrderInv
  <2>2. trail'[c] = trail[c] /\ (trail[c] # NULL => <<c, trail[c]>> \in C)
    BY <2>1, <1>2, <1>11 DEF Leads
  <2>3. ASSUME NEW m \in Linked', <<c, m>> \in C
        PROVE  trail[c] # NULL /\ (m = trail[c] \/ <<trail[c], m>> \in C)
    <3>1. CASE m \in Linked
      <4>1. <<c, m>> \in B
        BY <2>1, <2>3, <3>1, <1>1, <1>11
      <4> QED BY <4>1, <3>1, <2>1, <1>11 DEF Leads
    <3>2. CASE m = n
      <4>1. Low(c)
        BY <2>1, <2>3, <3>2, <1>10, <1>11
      <4>2. PICK i \in DOMAIN list : i < k /\ <<c, list[i]>> \in B /\ list[i] \in Linked
        BY <4>1, <2>1, LinkedAt DEF Low, BaseInv, TypeOK
      <4>3. trail[c] # NULL /\ Low(trail[c])
        BY <4>2, <2>1 DEF Leads, Low
      <4> QED BY <4>3, <3>2, <1>11
    <3> QED BY <3>1, <3>2, <1>3
  <2> QED BY <2>2, <2>3 DEF Leads
<1>16. OrderInv(C)'
  BY <1>12, <1>13, <1>14, <1>15 DEF OrderInv, StrictOrder
<1> QED BY <1>11, <1>16

LEMMA OrderErase ==
  ASSUME BaseInv, NEW B, OrderInv(B), NEW h \in Handles, Erase(h)
  PROVE  OrderInv(B)'
<1> DEFINE c == cursor[h]
<1>1. /\ writer = h /\ retiring = NULL /\ c \in Linked
      /\ list' = RemoveAt(list, Index(c)) /\ erased' = erased \cup {c}
      /\ trail' = [trail EXCEPT ![c] = Follow(c)] /\ retiring' = c
      /\ UNCHANGED <<watchers, open>>
  BY DEF Erase, Ready
<1>2. Linked' = Linked \ {c} /\ \A x, y : Before(x, y)' => Before(x, y)
  BY <1>1, RemovedOrder DEF BaseInv, TypeOK
<1>3. Known' = Known
  BY <1>1, <1>2 DEF Known
<1>4. c \in Nodes /\ c \notin erased
  BY <1>1, LinkedAt DEF BaseInv, TypeOK
<1>5. \A d \in erased' : Watched(d)' => Leads(d, B)'
  <2> SUFFICES ASSUME NEW d \in erased', Watched(d)' PROVE Leads(d, B)'
    OBVIOUS
  <2>1. CASE d = c
    <3>1. trail'[c] = After(c)
      BY <1>1, <1>4 DEF Follow, BaseInv, TypeOK
    <3>2. /\ After(c) # NULL => Before(c, After(c))
          /\ \A m \in Linked : Before(c, m) =>
               After(c) # NULL /\ (m = After(c) \/ Before(After(c), m))
      BY <1>1, AfterFirst DEF BaseInv, TypeOK
    <3>3. \A m \in Linked : <<c, m>> \in B => Before(c, m)
      BY <1>1, OrderOfLinked DEF BaseInv
    <3>4. \A x, y : Before(x, y) => <<x, y>> \in B
      BY DEF OrderInv
    <3> QED BY <2>1, <3>1, <3>2, <3>3, <3>4, <1>2 DEF Leads
  <2>2. CASE d # c
    <3>1. d \in erased /\ d \in Nodes /\ trail'[d] = trail[d]
      BY <2>2, <1>1 DEF BaseInv, TypeOK
    <3>2. \A g : Keeps(g, d)' => Keeps(g, d)
      BY <2>2, <3>1, <1>1, <1>2 DEF Keeps
    <3>3. Leads(d, B)
      BY <3>1, <3>2 DEF Watched, OrderInv
    <3> QED BY <3>1, <3>3, <1>2 DEF Leads
  <2> QED BY <2>1, <2>2
<1> QED BY <1>2, <1>3, <1>5 DEF OrderInv, StrictOrder

LEMMA OrderReclaim ==
  ASSUME BaseInv, NEW B, OrderInv(B), NEW n \in Nodes, Reclaim(n)
  PROVE  \E C : /\ OrderInv(C)'
                /\ \A x, y : <<x, y>> \in B /\ x # n /\ y # n => <<x, y>> \in C
<1>1. /\ n \in erased /\ erased' = erased \ {n} /\ trail' = [trail EXCEPT ![n] = NULL]
      /\ UNCHANGED <<list, watchers, retiring, open>>
  BY DEF Reclaim
<1>2. Linked' = Linked /\ n \notin Linked
  BY <1>1 DEF Linked, BaseInv
<1>3. \A x, y : Before(x, y)' <=> Before(x, y)
  BY <1>1 DEF Before
<1>4. PICK C : \A x, y : <<x, y>> \in C <=> (<<x, y>> \in B /\ x # n /\ y # n)
  <2> DEFINE D == B \ ({<<n, y>> : y \in Known} \cup {<<x, n>> : x \in Known})
  <2>1. \A x, y : <<x, y>> \in D <=> (<<x, y>> \in B /\ x # n /\ y # n)
    BY DEF OrderInv
  <2> HIDE DEF D
  <2> QED BY <2>1
<1>5. StrictOrder(C)
  BY <1>4 DEF OrderInv, StrictOrder
<1>6. \A x, y : <<x, y>> \in C => x \in Known' /\ y \in Known'
  BY <1>1, <1>2, <1>4 DEF OrderInv, Known
<1>7. \A x, y : Before(x, y)' => <<x, y>> \in C
  <2> SUFFICES ASSUME NEW x, NEW y, Before(x, y) PROVE <<x, y>> \in C
    BY <1>3
  <2>1. x \in Linked /\ y \in Linked
    BY BeforeLinked DEF BaseInv, TypeOK
  <2> QED BY <2>1, <1>2, <1>4 DEF OrderInv
<1>8. \A c \in erased' : Watched(c)' => Leads(c, C)'
  <2> SUFFICES ASSUME NEW c \in erased', Watched(c)' PROVE Leads(c, C)'
    OBVIOUS
  <2>1. c \in erased /\ c # n /\ trail'[c] = trail[c]
    BY <1>1 DEF BaseInv, TypeOK
  <2>2. PICK g \in Handles : Keeps(g, c)
    BY <2>1, <1>1, <1>2 DEF Watched, Keeps
  <2>3. Leads(c, B)
    BY <2>1, <2>2 DEF Watched, OrderInv
  <2>4. trail[c] # n
    <3>1. ~Keeps(g, n)
      BY ReclaimBase
    <3>2. n # NULL
      BY NullAssumption
    <3> QED BY <3>1, <3>2, <2>1, <2>2 DEF BaseInv, TrailInv
  <2> QED BY <2>1, <2>3, <2>4, <1>2, <1>4 DEF Leads
<1>9. OrderInv(C)'
  BY <1>5, <1>6, <1>7, <1>8 DEF OrderInv, StrictOrder
<1> QED BY <1>4, <1>9

-----------------------------------------------------------------------------
(* The loops *)

LoopTyped ==
  /\ retval \in [Handles -> Nat]
  /\ passed \in [Handles -> SUBSET (Nodes \cup {NULL})]
  /\ kept \in [Handles -> SUBSET Nodes]
  /\ ever \in [Handles -> SUBSET Nodes]

\* What a loop has come to lies before its iterator, and what it has to come to
\* behind it.
PassedInv(h, B) ==
  /\ passed[h] # {} => h \in open
  /\ \A p \in Found(h) : Keeps(h, p)
  /\ cursor[h] # NULL =>
       /\ cursor[h] \in passed[h] /\ NULL \notin passed[h]
       /\ \A p \in Found(h) : p = cursor[h] \/ <<p, cursor[h]>> \in B
  /\ \A m \in kept[h] :
       /\ m \in Linked
       /\ m \in passed[h] \/ (cursor[h] # NULL /\ <<cursor[h], m>> \in B)
  /\ IsFiniteSet(passed[h]) /\ retval[h] = Cardinality(Found(h))

\* Nothing leads to an element that was erased before the loop began.
EverInv(h) ==
  /\ Found(h) \subseteq ever[h]
  /\ IF passed[h] = {} THEN ever[h] = {} ELSE Linked \subseteq ever[h]
  /\ \A c \in erased \cap ever[h] : trail[c] \in ever[h] \cup {NULL}

LoopInv(B) ==
  /\ LoopTyped
  /\ OrderInv(B)
  /\ \A h \in Handles : PassedInv(h, B) /\ EverInv(h)

IInv == BaseInv /\ \E B : LoopInv(B)

\* A loop that takes no step.
LEMMA PassedKept ==
  ASSUME NEW g \in Handles, NEW B, NEW C, PassedInv(g, B), BaseInv, LoopTyped,
         cursor'[g] = cursor[g], passed'[g] = passed[g], retval'[g] = retval[g],
         kept'[g] \subseteq kept[g], kept'[g] \subseteq Linked',
         g \in open => g \in open',
         g \in open => \A n : Keeps(g, n) => Keeps(g, n)',
         \A x, y : <<x, y>> \in B /\ Keeps(g, x) /\ Keeps(g, y) => <<x, y>> \in C
  PROVE  PassedInv(g, C)'
<1>1. Found(g)' = Found(g)
  BY DEF Found
<1>2. passed[g] # {} => g \in open
  BY DEF PassedInv
<1>3. (\A p \in Found(g) : Keeps(g, p))'
  <2>1. \A p \in Found(g) : Keeps(g, p) /\ g \in open
    BY <1>2 DEF PassedInv, Found
  <2> QED BY <1>1, <2>1
<1>4. cursor[g] # NULL => Keeps(g, cursor[g])
  BY DEF BaseInv, CursorInv
<1>5. cursor[g] # NULL => \A p \in Found(g) : p = cursor[g] \/ <<p, cursor[g]>> \in C
  BY <1>4 DEF PassedInv
<1>6. \A m \in kept'[g] : m \in passed[g] \/ (cursor[g] # NULL /\ <<cursor[g], m>> \in C)
  <2> SUFFICES ASSUME NEW m \in kept'[g], m \notin passed[g]
               PROVE  cursor[g] # NULL /\ <<cursor[g], m>> \in C
    OBVIOUS
  <2>1. m \in Linked /\ cursor[g] # NULL /\ <<cursor[g], m>> \in B
    BY DEF PassedInv
  <2>2. Keeps(g, m)
    BY <2>1 DEF Keeps
  <2> QED BY <2>1, <2>2, <1>4
<1> QED BY <1>1, <1>2, <1>3, <1>5, <1>6 DEF PassedInv

\* A loop comes to what is next.
LEMMA PassedStep ==
  ASSUME BaseInv, NEW B, OrderInv(B), LoopTyped, NEW h \in Handles, PassedInv(h, B), EverInv(h),
         cursor[h] # NULL, cursor'[h] = Follow(cursor[h]), ComeTo(h, cursor'[h]),
         \A n : Keeps(h, n)' <=> Keeps(h, n),
         UNCHANGED <<list, erased, trail, open, kept, ever>>
  PROVE  /\ PassedInv(h, B)' /\ EverInv(h)' /\ LoopTyped'
         /\ \A g \in Handles \ {h} : retval'[g] = retval[g] /\ passed'[g] = passed[g]
<1> DEFINE c == cursor[h]  d == Follow(cursor[h])
<1>1. /\ d \in Nodes \cup {NULL} /\ (d # NULL => Keeps(h, d))
      /\ d # NULL => <<c, d>> \in B
      /\ \A m \in Linked : <<c, m>> \in B => d # NULL /\ (m = d \/ <<d, m>> \in B)
  BY FollowTyped, StepAhead
<1>2. /\ c \in passed[h] /\ NULL \notin passed[h] /\ c \in Nodes
      /\ \A p \in passed[h] : p = c \/ <<p, c>> \in B
  BY DEF PassedInv, Found, BaseInv, TypeOK
<1>3. d \in ever[h] \cup {NULL}
  <2>1. c \in ever[h] /\ Linked \subseteq ever[h]
    BY <1>2 DEF EverInv, Found
  <2>2. CASE c \in erased
    BY <2>1, <2>2 DEF EverInv, Follow
  <2>3. CASE c \notin erased
    <3>1. c \in Linked
      BY <2>3 DEF BaseInv, CursorInv, Keeps
    <3>2. d \in Linked \cup {NULL}
      BY <2>3, <3>1, AfterFirst DEF Follow, BaseInv, TypeOK
    <3> QED BY <2>1, <3>2
  <2> QED BY <2>2, <2>3
<1>4. d # NULL => d \notin passed[h]
  BY <1>1, <1>2 DEF OrderInv, StrictOrder
<1>5. cursor'[h] = d
  OBVIOUS
<1> HIDE DEF c, d
<1>6. /\ retval' = [retval EXCEPT ![h] = @ + (IF d = NULL THEN 0 ELSE 1)]
      /\ passed' = [passed EXCEPT ![h] = @ \cup {d}]
  BY <1>5 DEF ComeTo
<1>7. passed'[h] = passed[h] \cup {d} /\ Found(h) = passed[h]
      /\ Found(h)' = IF d = NULL THEN passed[h] ELSE passed[h] \cup {d}
  BY <1>2, <1>6 DEF Found, LoopTyped
<1>8. LoopTyped'
  BY <1>1, <1>6 DEF LoopTyped
<1>9. Linked' = Linked
  BY DEF Linked
<1>10. EverInv(h)'
  <2>1. Found(h)' \subseteq ever[h]
    BY <1>3, <1>7 DEF EverInv
  <2>2. passed'[h] # {} /\ Linked' \subseteq ever[h]
    BY <1>2, <1>7, <1>9 DEF EverInv
  <2>3. \A e \in erased \cap ever[h] : trail[e] \in ever[h] \cup {NULL}
    BY DEF EverInv
  <2> QED BY <2>1, <2>2, <2>3 DEF EverInv
<1>11. IsFiniteSet(passed'[h]) /\ retval'[h] = Cardinality(Found(h)')
  <2>1. IsFiniteSet(passed[h]) /\ retval[h] = Cardinality(passed[h]) /\ retval[h] \in Nat
    BY <1>7 DEF PassedInv, LoopTyped
  <2>2. IsFiniteSet(passed[h] \cup {d})
    BY <2>1, FS_AddElement
  <2>3. retval'[h] = retval[h] + (IF d = NULL THEN 0 ELSE 1)
    BY <1>6 DEF LoopTyped
  <2>4. CASE d = NULL
    BY <2>1, <2>2, <2>3, <2>4, <1>7
  <2>5. CASE d # NULL
    <3>1. Cardinality(passed[h] \cup {d}) = Cardinality(passed[h]) + 1
      BY <2>1, <2>5, <1>4, FS_AddElement
    <3> QED BY <2>1, <2>2, <2>3, <2>5, <3>1, <1>7
  <2> QED BY <2>4, <2>5
<1>12. \A p \in Found(h)' : Keeps(h, p)'
  BY <1>1, <1>7 DEF PassedInv
<1>13. d # NULL => /\ d \in passed'[h] /\ NULL \notin passed'[h]
                   /\ \A p \in Found(h)' : p = d \/ <<p, d>> \in B
  BY <1>1, <1>2, <1>7 DEF OrderInv, StrictOrder
<1>14. \A m \in kept[h] : m \in Linked /\ (m \in passed'[h] \/ (d # NULL /\ <<d, m>> \in B))
  BY <1>1, <1>7 DEF PassedInv, c
<1>15. PassedInv(h, B)'
  BY <1>5, <1>7, <1>9, <1>11, <1>12, <1>13, <1>14, <1>2 DEF PassedInv
<1>16. \A g \in Handles \ {h} : retval'[g] = retval[g] /\ passed'[g] = passed[g]
  BY <1>6 DEF LoopTyped
<1> QED BY <1>8, <1>10, <1>15, <1>16

\* A loop that takes no step learns of nothing but what is linked now.
LEMMA EverKept ==
  ASSUME NEW g \in Handles, EverInv(g), passed'[g] = passed[g],
         ever'[g] = IF passed[g] = {} THEN ever[g] ELSE ever[g] \cup Linked',
         (Linked \cap erased = {})',
         \A c \in erased' : \/ c \in erased /\ trail'[c] = trail[c]
                            \/ passed[g] # {} => trail'[c] \in ever[g] \cup {NULL}
  PROVE  EverInv(g)'
<1>1. Found(g)' \subseteq ever'[g]
  BY DEF Found, EverInv
<1>2. IF passed'[g] = {} THEN ever'[g] = {} ELSE Linked' \subseteq ever'[g]
  BY DEF EverInv
<1>3. \A c \in erased' \cap ever'[g] : trail'[c] \in ever'[g] \cup {NULL}
  <2> SUFFICES ASSUME NEW c \in erased', c \in ever'[g]
               PROVE  trail'[c] \in ever'[g] \cup {NULL}
    OBVIOUS
  <2>1. c \notin Linked'
    OBVIOUS
  <2>2. c \in ever[g] /\ passed[g] # {}
    BY <2>1 DEF EverInv
  <2> QED BY <2>2 DEF EverInv
<1> QED BY <1>1, <1>2, <1>3 DEF EverInv

LEMMA StartInv ==
  ASSUME BaseInv, NEW B, LoopInv(B), NEW h \in Handles, Start(h)
  PROVE  IInv'
<1> DEFINE d == First(list)
<1>1. BaseInv'
  BY MoveBase DEF Start
<1>2. /\ h \in open /\ cursor' = [cursor EXCEPT ![h] = d]
      /\ UNCHANGED <<alive, list, erased, trail, watchers, retiring, open, writer>>
  BY DEF Start, Begin, Ready
<1>3. cursor'[h] = d
  BY <1>2 DEF BaseInv, TypeOK
<1>4. /\ retval' = [retval EXCEPT ![h] = IF d = NULL THEN 0 ELSE 1]
      /\ passed' = [passed EXCEPT ![h] = {d}]
      /\ kept' = [kept EXCEPT ![h] = Linked] /\ ever' = [ever EXCEPT ![h] = Linked]
  BY <1>3 DEF Start
<1>5. Linked' = Linked /\ \A g, n : Keeps(g, n)' <=> Keeps(g, n)
  BY <1>2 DEF Linked, Keeps
<1>6. /\ d \in Linked \cup {NULL} /\ Linked \subseteq Nodes
      /\ \A m \in Linked : d # NULL /\ (m = d \/ Before(d, m))
  BY FirstBefore, LinkedAt DEF BaseInv, TypeOK
<1> HIDE DEF d
<1>7. LoopTyped'
  BY <1>4, <1>6 DEF LoopInv, LoopTyped
<1>8. OrderInv(B)'
  BY <1>2, <1>5, OrderKept DEF LoopInv, Watched
<1>9. /\ passed'[h] = {d} /\ Found(h)' = {d} \ {NULL} /\ kept'[h] = Linked /\ ever'[h] = Linked
      /\ retval'[h] = IF d = NULL THEN 0 ELSE 1
  BY <1>4 DEF LoopInv, LoopTyped, Found
<1>10. PassedInv(h, B)'
  <2>1. IsFiniteSet(passed'[h]) /\ retval'[h] = Cardinality(Found(h)')
    <3>1. IsFiniteSet({d}) /\ Cardinality({d}) = 1
      BY FS_Singleton
    <3>2. Cardinality({}) = 0
      BY FS_EmptySet
    <3>3. CASE d = NULL
      <4>1. Found(h)' = {} /\ retval'[h] = 0
        BY <3>3, <1>9
      <4> QED BY <4>1, <3>1, <3>2, <1>9
    <3>4. CASE d # NULL
      <4>1. Found(h)' = {d} /\ retval'[h] = 1
        BY <3>4, <1>9
      <4> QED BY <4>1, <3>1, <1>9
    <3> QED BY <3>3, <3>4
  <2>2. \A m \in kept'[h] : m \in Linked' /\ (m \in passed'[h] \/ (d # NULL /\ <<d, m>> \in B))
    BY <1>5, <1>6, <1>9 DEF LoopInv, OrderInv
  <2>3. \A p \in Found(h)' : Keeps(h, p)'
    BY <1>5, <1>6, <1>9 DEF Keeps
  <2> QED BY <2>1, <2>2, <2>3, <1>2, <1>3, <1>9 DEF PassedInv
<1>11. EverInv(h)'
  <2>1. Found(h)' \subseteq ever'[h] /\ passed'[h] # {} /\ Linked' \subseteq ever'[h]
    BY <1>5, <1>6, <1>9
  <2>2. (erased \cap ever[h])' = {}
    BY <1>2, <1>9 DEF BaseInv
  <2> QED BY <2>1, <2>2 DEF EverInv
<1>12. ASSUME NEW g \in Handles \ {h} PROVE PassedInv(g, B)' /\ EverInv(g)'
  <2>1. /\ cursor'[g] = cursor[g] /\ passed'[g] = passed[g] /\ retval'[g] = retval[g]
        /\ kept'[g] = kept[g] /\ ever'[g] = ever[g]
    BY <1>2, <1>4 DEF BaseInv, TypeOK, LoopInv, LoopTyped
  <2>2. PassedInv(g, B) /\ EverInv(g)
    BY DEF LoopInv
  <2>3. kept[g] \subseteq Linked'
    BY <2>2, <1>5 DEF PassedInv
  <2>4. PassedInv(g, B)'
    BY <2>1, <2>2, <2>3, <1>2, <1>5, PassedKept DEF LoopInv
  <2>5. EverInv(g)'
    <3>1. ever'[g] = IF passed[g] = {} THEN ever[g] ELSE ever[g] \cup Linked'
      BY <2>1, <2>2, <1>5 DEF EverInv
    <3> QED BY <2>1, <2>2, <3>1, <1>1, <1>2, EverKept DEF BaseInv
  <2> QED BY <2>4, <2>5
<1>13. LoopInv(B)'
  BY <1>7, <1>8, <1>10, <1>11, <1>12 DEF LoopInv
<1> QED BY <1>1, <1>13 DEF IInv

\* A step in which the loop of g takes no part, and after which C is the order.
Rests(g, B, C) ==
  /\ cursor'[g] = cursor[g] /\ passed'[g] = passed[g] /\ retval'[g] = retval[g]
  /\ kept'[g] \subseteq kept[g] \cap Linked'
  /\ ever'[g] = IF passed[g] = {} THEN ever[g] ELSE ever[g] \cup Linked'
  /\ g \in open => g \in open' /\ \A n : Keeps(g, n) => Keeps(g, n)'
  /\ \A x, y : <<x, y>> \in B /\ Keeps(g, x) /\ Keeps(g, y) => <<x, y>> \in C
  /\ \A c \in erased' : \/ c \in erased /\ trail'[c] = trail[c]
                        \/ passed[g] # {} => trail'[c] \in ever[g] \cup {NULL}

LEMMA RestKept ==
  ASSUME BaseInv, BaseInv', NEW B, NEW C, LoopInv(B), NEW g \in Handles, Rests(g, B, C)
  PROVE  PassedInv(g, C)' /\ EverInv(g)'
<1>1. PassedInv(g, B) /\ EverInv(g) /\ LoopTyped
  BY DEF LoopInv
<1>2. PassedInv(g, C)'
  BY <1>1, PassedKept DEF Rests
<1>3. EverInv(g)'
  BY <1>1, EverKept DEF BaseInv, Rests
<1> QED BY <1>2, <1>3

\* The loop of h goes on.
LEMMA StepInv ==
  ASSUME BaseInv, BaseInv', NEW B, LoopInv(B), NEW h \in Handles, cursor[h] # NULL,
         cursor' = [cursor EXCEPT ![h] = Follow(cursor[h])], ComeTo(h, cursor'[h]),
         \A g, n : Keeps(g, n)' <=> Keeps(g, n),
         UNCHANGED <<list, erased, trail, open, kept, ever>>
  PROVE  LoopInv(B)'
<1>1. cursor'[h] = Follow(cursor[h]) /\ \A g \in Handles \ {h} : cursor'[g] = cursor[g]
  BY DEF BaseInv, TypeOK
<1>2. /\ PassedInv(h, B)' /\ EverInv(h)' /\ LoopTyped'
      /\ \A g \in Handles \ {h} : retval'[g] = retval[g] /\ passed'[g] = passed[g]
  BY <1>1, PassedStep DEF LoopInv
<1>3. OrderInv(B)'
  BY OrderKept DEF LoopInv, Watched
<1>4. \A g \in Handles : kept[g] \subseteq Linked' /\ (passed[g] # {} => Linked' \subseteq ever[g])
  BY DEF LoopInv, PassedInv, EverInv, Linked
<1>5. ASSUME NEW g \in Handles \ {h} PROVE PassedInv(g, B)' /\ EverInv(g)'
  <2>1. Rests(g, B, B)
    BY <1>1, <1>2, <1>4 DEF Rests
  <2> QED BY <2>1, RestKept
<1> QED BY <1>2, <1>3, <1>5 DEF LoopInv

LEMMA PassInv ==
  ASSUME BaseInv, NEW B, LoopInv(B), NEW h \in Handles, Pass(h)
  PROVE  IInv'
<1>1. BaseInv'
  BY MoveBase DEF Pass
<1>2. /\ cursor[h] # NULL /\ cursor' = [cursor EXCEPT ![h] = Follow(cursor[h])]
      /\ ComeTo(h, cursor'[h])
      /\ UNCHANGED <<list, erased, trail, watchers, retiring, open, kept, ever>>
  BY DEF Pass, Advance
<1>3. \A g, n : Keeps(g, n)' <=> Keeps(g, n)
  BY <1>2 DEF Keeps, Linked
<1>4. LoopInv(B)'
  BY <1>1, <1>2, <1>3, StepInv
<1> QED BY <1>1, <1>4 DEF IInv

\* No loop takes a step.
LEMMA LoopsKept ==
  ASSUME BaseInv, BaseInv', NEW B, NEW C, LoopInv(B), OrderInv(C)', LoopTyped',
         \A g \in Handles : Rests(g, B, C)
  PROVE  IInv'
<1>1. \A g \in Handles : PassedInv(g, C)' /\ EverInv(g)'
  BY RestKept
<1>2. LoopInv(C)'
  BY <1>1 DEF LoopInv
<1> QED BY <1>2 DEF IInv

LEMMA PutInv ==
  ASSUME BaseInv, NEW B, LoopInv(B), NEW h \in Handles, Put(h)
  PROVE  IInv'
<1>1. BaseInv' /\ \A g, n : Keeps(g, n) => Keeps(g, n)'
  BY InsertBase DEF Put
<1>2. PICK C : B \subseteq C /\ OrderInv(C)'
  BY OrderInsert DEF Put, LoopInv
<1>3. UNCHANGED <<erased, trail, watchers, retiring, open, cursor, retval, passed, kept>>
  BY DEF Put, Insert
<1>4. Linked \subseteq Linked' /\ Linked' \subseteq Nodes
  <2>1. Linked \cap erased = {}
    BY DEF BaseInv
  <2>2. \A n \in Linked : n \in Linked'
    BY <1>1, <1>3, <2>1 DEF Keeps
  <2>3. list' \in Seq(Nodes)
    BY <1>1 DEF BaseInv, TypeOK
  <2>4. \A i \in DOMAIN list' : list'[i] \in Nodes
    BY <2>3
  <2>5. \A n \in Linked' : \E i \in DOMAIN list' : list'[i] = n
    BY DEF Linked, Range
  <2> QED BY <2>2, <2>4, <2>5
<1>5. ever' = [g \in Handles |-> IF passed[g] # {} THEN ever[g] \cup Linked' ELSE ever[g]]
  BY DEF Put, Looping, Linked
<1>6. LoopTyped'
  BY <1>3, <1>4, <1>5 DEF LoopInv, LoopTyped
<1>7. ASSUME NEW g \in Handles PROVE Rests(g, B, C)
  <2>1. kept[g] \subseteq Linked
    BY DEF LoopInv, PassedInv
  <2> QED BY <2>1, <1>1, <1>2, <1>3, <1>4, <1>5 DEF Rests
<1> QED BY <1>1, <1>2, <1>6, <1>7, LoopsKept

LEMMA TakeOutInv ==
  ASSUME BaseInv, NEW B, LoopInv(B), NEW h \in Handles, TakeOut(h)
  PROVE  IInv'
<1> DEFINE c == cursor[h]
<1>1. BaseInv' /\ \A n : \A g \in open : Keeps(g, n) => Keeps(g, n)'
  BY EraseBase DEF TakeOut
<1>2. OrderInv(B)'
  BY OrderErase DEF TakeOut, LoopInv
<1>3. /\ c \in Linked /\ list' = RemoveAt(list, Index(c)) /\ erased' = erased \cup {c}
      /\ trail' = [trail EXCEPT ![c] = Follow(c)]
      /\ kept' = [g \in Handles |-> kept[g] \ {c}]
      /\ UNCHANGED <<open, cursor, retval, passed, ever>>
  BY DEF TakeOut, Erase
<1> HIDE DEF c
<1>4. Linked' = Linked \ {c} /\ c \in Nodes /\ c \notin erased
  BY <1>3, RemovedOrder, LinkedAt DEF BaseInv, TypeOK
<1>5. \A d \in erased : d # c /\ trail'[d] = trail[d]
  BY <1>3, <1>4 DEF BaseInv, TypeOK
<1>6. trail'[c] \in Linked \cup {NULL}
  <2>1. After(c) \in Linked \cup {NULL}
    BY <1>3, AfterFirst DEF BaseInv, TypeOK
  <2> QED BY <2>1, <1>3, <1>4 DEF Follow, BaseInv, TypeOK
<1>7. LoopTyped'
  BY <1>3 DEF LoopInv, LoopTyped
<1>8. ASSUME NEW g \in Handles PROVE Rests(g, B, B)
  <2>1. /\ kept[g] \subseteq Linked /\ (passed[g] # {} => Linked \subseteq ever[g])
    BY DEF LoopInv, PassedInv, EverInv
  <2>2. kept'[g] \subseteq kept[g] \cap Linked'
    BY <2>1, <1>3, <1>4
  <2>3. ever'[g] = IF passed[g] = {} THEN ever[g] ELSE ever[g] \cup Linked'
    BY <2>1, <1>3, <1>4
  <2>4. \A d \in erased' : \/ d \in erased /\ trail'[d] = trail[d]
                           \/ passed[g] # {} => trail'[d] \in ever[g] \cup {NULL}
    BY <2>1, <1>3, <1>5, <1>6
  <2> QED BY <2>2, <2>3, <2>4, <1>1, <1>3 DEF Rests
<1> QED BY <1>1, <1>2, <1>7, <1>8, LoopsKept

LEMMA GoOnInv ==
  ASSUME BaseInv, NEW B, LoopInv(B), NEW h \in Handles, GoOn(h)
  PROVE  IInv'
<1>1. BaseInv' /\ \A g, n : Keeps(g, n)' <=> Keeps(g, n)
  BY RetireBase DEF GoOn
<1>2. /\ cursor[h] = retiring /\ retiring # NULL
      /\ UNCHANGED <<list, erased, trail, open, kept, ever>>
  BY DEF GoOn, Retire, BaseInv, RetiringInv
<1>3. PICK d \in {cursor[h], Follow(cursor[h])} : cursor' = [cursor EXCEPT ![h] = d]
  BY DEF GoOn, Retire
<1>4. cursor'[h] = d
  BY <1>3 DEF BaseInv, TypeOK
<1>5. CASE d = cursor[h]
  <2>1. UNCHANGED <<cursor, retval, passed>>
    BY <1>3, <1>4, <1>5 DEF GoOn, BaseInv, TypeOK
  <2>2. OrderInv(B)'
    BY <1>1, <1>2, OrderKept DEF LoopInv, Watched
  <2>3. LoopTyped'
    BY <1>2, <2>1 DEF LoopInv, LoopTyped
  <2>4. ASSUME NEW g \in Handles PROVE Rests(g, B, B)
    <3>1. Linked' = Linked /\ kept[g] \subseteq Linked /\ (passed[g] # {} => Linked \subseteq ever[g])
      BY <1>2 DEF LoopInv, PassedInv, EverInv, Linked
    <3> QED BY <3>1, <1>1, <1>2, <2>1 DEF Rests
  <2> QED BY <1>1, <2>2, <2>3, <2>4, LoopsKept
<1>6. CASE d # cursor[h]
  <2>1. ComeTo(h, cursor'[h]) /\ cursor' = [cursor EXCEPT ![h] = Follow(cursor[h])]
    BY <1>3, <1>4, <1>6 DEF GoOn
  <2>2. LoopInv(B)'
    BY <1>1, <1>2, <2>1, StepInv
  <2> QED BY <1>1, <2>2 DEF IInv
<1> QED BY <1>5, <1>6

LEMMA StopInv ==
  ASSUME BaseInv, NEW B, LoopInv(B), NEW h \in Handles, Stop(h)
  PROVE  IInv'
<1>1. /\ BaseInv' /\ \A g, n : Keeps(g, n)' => Keeps(g, n)
      /\ \A g \in Handles \ {h}, n \in Nodes : Keeps(g, n) => Keeps(g, n)'
  BY CloseBase DEF Stop
<1>2. /\ open' = open \ {h} /\ cursor' = [cursor EXCEPT ![h] = NULL]
      /\ retval' = [retval EXCEPT ![h] = 0] /\ passed' = [passed EXCEPT ![h] = {}]
      /\ kept' = [kept EXCEPT ![h] = {}] /\ ever' = [ever EXCEPT ![h] = {}]
      /\ UNCHANGED <<list, erased, trail>>
  BY DEF Stop, Close
<1>3. OrderInv(B)'
  BY <1>1, <1>2, OrderKept DEF LoopInv, Watched
<1>4. LoopTyped'
  BY <1>2 DEF LoopInv, LoopTyped
<1>5. /\ cursor'[h] = NULL /\ retval'[h] = 0 /\ passed'[h] = {} /\ kept'[h] = {} /\ ever'[h] = {}
      /\ Found(h)' = {}
  BY <1>2 DEF BaseInv, TypeOK, LoopInv, LoopTyped, Found
<1>6. PassedInv(h, B)'
  <2>1. IsFiniteSet({}) /\ Cardinality({}) = 0
    BY FS_EmptySet
  <2>2. IsFiniteSet(passed'[h]) /\ retval'[h] = Cardinality(Found(h)')
    BY <2>1, <1>5
  <2> QED BY <2>2, <1>5 DEF PassedInv
<1>7. EverInv(h)'
  BY <1>5 DEF EverInv
<1>8. ASSUME NEW g \in Handles \ {h} PROVE PassedInv(g, B)' /\ EverInv(g)'
  <2>1. /\ cursor'[g] = cursor[g] /\ passed'[g] = passed[g] /\ retval'[g] = retval[g]
        /\ kept'[g] = kept[g] /\ ever'[g] = ever[g] /\ (g \in open => g \in open')
    BY <1>2 DEF BaseInv, TypeOK, LoopInv, LoopTyped
  <2>2. Linked' = Linked /\ kept[g] \subseteq Linked /\ (passed[g] # {} => Linked \subseteq ever[g])
    BY <1>2 DEF LoopInv, PassedInv, EverInv, Linked
  <2>3. \A n : Keeps(g, n) => Keeps(g, n)'
    <3>1. \A n : Keeps(g, n) => n \in Nodes
      BY LinkedAt DEF Keeps, BaseInv, TypeOK
    <3> QED BY <3>1, <1>1
  <2>4. Rests(g, B, B)
    BY <2>1, <2>2, <2>3, <1>2 DEF Rests
  <2> QED BY <2>4, <1>1, RestKept
<1>9. LoopInv(B)'
  BY <1>3, <1>4, <1>6, <1>7, <1>8 DEF LoopInv
<1> QED BY <1>1, <1>9 DEF IInv

LEMMA OtherInv ==
  ASSUME BaseInv, NEW B, LoopInv(B), Other
  PROVE  IInv'
<1>1. UNCHANGED <<list, cursor, retval, passed, kept, ever>>
  BY DEF Other, Open, LockWrite, Reclaim
<1>2. Linked' = Linked
  BY <1>1 DEF Linked
<1>3. \A g \in Handles : kept[g] \subseteq Linked /\ (passed[g] # {} => Linked \subseteq ever[g])
  BY DEF LoopInv, PassedInv, EverInv
<1>4. LoopTyped'
  BY <1>1 DEF LoopInv, LoopTyped
<1>5. CASE \E h \in Handles : Open(h) \/ LockWrite(h)
  <2>1. PICK h \in Handles : Open(h) \/ LockWrite(h)
    BY <1>5
  <2>2. BaseInv' /\ \A g, n : Keeps(g, n) => Keeps(g, n)'
    BY <2>1, OpenBase
  <2>3. UNCHANGED <<erased, trail, watchers, retiring>> /\ open \subseteq open'
    BY <2>1 DEF Open, LockWrite
  <2>4. \A c \in erased : Watched(c)' => Watched(c)
    <3> SUFFICES ASSUME NEW c \in erased, Watched(c)' PROVE Watched(c)
      OBVIOUS
    <3>1. PICK g \in Handles : Keeps(g, c)'
      BY DEF Watched
    <3>2. CASE g \in watchers[c] \/ c \in Linked
      BY <3>2 DEF Watched, Keeps
    <3>3. CASE c = retiring
      <4>1. writer \in open /\ writer \in Handles
        BY <3>3, NullAssumption DEF BaseInv, RetiringInv, TypeOK
      <4> QED BY <4>1, <3>3 DEF Watched, Keeps
    <3> QED BY <3>1, <3>2, <3>3, <2>3, <1>2 DEF Keeps
  <2>5. OrderInv(B)'
    BY <1>1, <2>3, <2>4, OrderKept DEF LoopInv
  <2>6. ASSUME NEW g \in Handles PROVE Rests(g, B, B)
    BY <1>1, <1>2, <1>3, <2>2, <2>3 DEF Rests
  <2> QED BY <1>4, <2>2, <2>5, <2>6, LoopsKept
<1>6. CASE \E n \in Nodes : Reclaim(n)
  <2>1. PICK n \in Nodes : Reclaim(n)
    BY <1>6
  <2>2. /\ BaseInv' /\ \A g \in Handles : ~Keeps(g, n)
        /\ \A m : \A g \in Handles : Keeps(g, m) => Keeps(g, m)'
    BY <2>1, ReclaimBase
  <2>3. PICK C : OrderInv(C)' /\ \A x, y : <<x, y>> \in B /\ x # n /\ y # n => <<x, y>> \in C
    BY <2>1, OrderReclaim DEF LoopInv
  <2>4. /\ erased' = erased \ {n} /\ trail' = [trail EXCEPT ![n] = NULL] /\ UNCHANGED open
    BY <2>1 DEF Reclaim
  <2>5. \A c \in erased' : c \in erased /\ trail'[c] = trail[c]
    BY <2>4 DEF BaseInv, TypeOK
  <2>6. ASSUME NEW g \in Handles PROVE Rests(g, B, C)
    <3>1. \A x, y : <<x, y>> \in B /\ Keeps(g, x) /\ Keeps(g, y) => <<x, y>> \in C
      BY <2>2, <2>3
    <3> QED BY <3>1, <1>1, <1>2, <1>3, <2>2, <2>4, <2>5 DEF Rests
  <2> QED BY <1>4, <2>2, <2>3, <2>6, LoopsKept
<1> QED BY <1>5, <1>6 DEF Other

\* Nothing is left to come to.
LEMMA Empty ==
  ASSUME list = <<>>, erased = {}, LoopTyped,
         \A h \in Handles : /\ cursor[h] = NULL /\ retval[h] = 0 /\ passed[h] = {}
                            /\ kept[h] = {} /\ ever[h] = {}
  PROVE  LoopInv({})
<1>1. OrderInv({})
  BY DEF OrderInv, StrictOrder, Before
<1>2. ASSUME NEW h \in Handles PROVE PassedInv(h, {}) /\ EverInv(h)
  <2>1. IsFiniteSet({}) /\ Cardinality({}) = 0
    BY FS_EmptySet
  <2>2. Found(h) = {}
    BY DEF Found
  <2>3. IsFiniteSet(passed[h]) /\ retval[h] = Cardinality(Found(h))
    BY <2>1, <2>2
  <2> QED BY <2>2, <2>3 DEF PassedInv, EverInv
<1> QED BY <1>1, <1>2 DEF LoopInv

LEMMA EndInv ==
  ASSUME BaseInv, End
  PROVE  IInv'
<1>1. BaseInv'
  BY DestroyBase DEF End
<1>2. /\ list' = <<>> /\ erased' = {} /\ cursor' = [h \in Handles |-> NULL]
      /\ retval' = [h \in Handles |-> 0] /\ passed' = [h \in Handles |-> {}]
      /\ kept' = [h \in Handles |-> {}] /\ ever' = [h \in Handles |-> {}]
  BY DEF End, Destroy
<1>3. LoopTyped'
  BY <1>2 DEF LoopTyped
<1>4. \A h \in Handles : /\ cursor'[h] = NULL /\ retval'[h] = 0 /\ passed'[h] = {}
                         /\ kept'[h] = {} /\ ever'[h] = {}
  BY <1>2
<1>5. LoopInv({})'
  <2>1. OrderInv({})'
    BY <1>2 DEF OrderInv, StrictOrder, Before
  <2>2. ASSUME NEW h \in Handles PROVE PassedInv(h, {})' /\ EverInv(h)'
    <3>1. IsFiniteSet({}) /\ Cardinality({}) = 0
      BY FS_EmptySet
    <3>2. Found(h)' = {}
      BY <1>4 DEF Found
    <3>3. IsFiniteSet(passed'[h]) /\ retval'[h] = Cardinality(Found(h)')
      BY <3>1, <3>2, <1>4
    <3> QED BY <3>2, <3>3, <1>2, <1>4 DEF PassedInv, EverInv
  <2> QED BY <2>1, <2>2, <1>3 DEF LoopInv
<1> QED BY <1>1, <1>5 DEF IInv

LEMMA StutterInv ==
  ASSUME IInv, UNCHANGED tvars
  PROVE  IInv'
<1> USE DEF tvars, vars
<1>1. Linked' = Linked /\ \A g, n : Keeps(g, n)' <=> Keeps(g, n)
  BY DEF Linked, Keeps
<1>2. BaseInv'
  <2>1. TypeOK' /\ Distinct'
    BY DEF IInv, BaseInv, TypeOK, Distinct
  <2>2. RetiringInv' /\ OpenInv' /\ CursorInv' /\ TrailInv'
    BY <1>1 DEF IInv, BaseInv, RetiringInv, OpenInv, CursorInv, TrailInv
  <2> QED BY <1>1, <2>1, <2>2 DEF IInv, BaseInv
<1>3. PICK B : LoopInv(B)
  BY DEF IInv
<1>4. OrderInv(B)'
  BY <1>1, <1>3, OrderKept DEF LoopInv, Watched
<1>5. LoopTyped'
  BY <1>3 DEF LoopInv, LoopTyped
<1>6. ASSUME NEW g \in Handles PROVE Rests(g, B, B)
  <2>1. kept[g] \subseteq Linked /\ (passed[g] # {} => Linked \subseteq ever[g])
    BY <1>3 DEF LoopInv, PassedInv, EverInv
  <2> QED BY <1>1, <2>1 DEF Rests
<1> QED BY <1>2, <1>3, <1>4, <1>5, <1>6, LoopsKept DEF IInv

-----------------------------------------------------------------------------
(* The theorems *)

LEMMA InitInv == TInit => IInv
<1> SUFFICES ASSUME TInit PROVE IInv
  OBVIOUS
<1>1. BaseInv
  BY InitBase DEF TInit
<1>2. LoopTyped
  BY DEF TInit, LoopTyped
<1>3. LoopInv({})
  BY <1>2, Empty DEF TInit, Init
<1> QED BY <1>1, <1>3 DEF IInv

LEMMA NextInv == IInv /\ [TNext]_tvars => IInv'
<1> SUFFICES ASSUME IInv, [TNext]_tvars PROVE IInv'
  OBVIOUS
<1>1. BaseInv
  BY DEF IInv
<1>2. PICK B : LoopInv(B)
  BY DEF IInv
<1>3. ASSUME NEW h \in Handles, Start(h) PROVE IInv'
  BY <1>1, <1>2, <1>3, StartInv
<1>4. ASSUME NEW h \in Handles, Pass(h) PROVE IInv'
  BY <1>1, <1>2, <1>4, PassInv
<1>5. ASSUME NEW h \in Handles, Put(h) PROVE IInv'
  BY <1>1, <1>2, <1>5, PutInv
<1>6. ASSUME NEW h \in Handles, TakeOut(h) PROVE IInv'
  BY <1>1, <1>2, <1>6, TakeOutInv
<1>7. ASSUME NEW h \in Handles, GoOn(h) PROVE IInv'
  BY <1>1, <1>2, <1>7, GoOnInv
<1>8. ASSUME NEW h \in Handles, Stop(h) PROVE IInv'
  BY <1>1, <1>2, <1>8, StopInv
<1>9. CASE Other
  BY <1>1, <1>2, <1>9, OtherInv
<1>10. CASE End
  BY <1>1, <1>10, EndInv
<1>11. CASE UNCHANGED tvars
  BY <1>11, StutterInv
<1> QED BY <1>3, <1>4, <1>5, <1>6, <1>7, <1>8, <1>9, <1>10, <1>11 DEF TNext

\* What is kept for a handle leads to what is kept for it, and there is an order
\* of the elements in which all loops move forward.
THEOREM Invariant == TSpec => []IInv
BY InitInv, NextInv, PTL DEF TSpec

\* Every variable keeps to its domain; only an open handle holds the mutex.
THEOREM TypeCorrect == TSpec => []TypeOK
<1>1. IInv => TypeOK
  BY DEF IInv, BaseInv
<1> QED BY <1>1, Invariant, PTL

\* rcu_guard::unlock() and rcu_list::erase(): an iterator of an open handle
\* stands on an element that has not been given up.
THEOREM CursorsFound == TSpec => []CursorsKnown
<1>1. IInv => CursorsKnown
  BY DEF IInv, BaseInv, CursorInv, Keeps, CursorsKnown
<1> QED BY <1>1, Invariant, PTL

\* iterator::operator++: a loop over the list misses no element that stays
\* linked while it runs, whatever is inserted and erased meanwhile.
THEOREM NothingIsMissed == TSpec => []NothingMissed
<1>1. IInv => NothingMissed
  <2> SUFFICES ASSUME IInv, NEW h \in Handles, NULL \in passed[h], NEW m \in kept[h]
               PROVE  m \in Found(h)
    BY DEF NothingMissed
  <2>1. PICK B : LoopInv(B)
    BY DEF IInv
  <2>2. m \in passed[h] /\ m \in Linked
    BY <2>1 DEF LoopInv, PassedInv
  <2>3. m # NULL
    BY <2>2, LinkedAt, NullAssumption DEF IInv, BaseInv, TypeOK
  <2> QED BY <2>2, <2>3 DEF Found
<1> QED BY <1>1, Invariant, PTL

\* rcu_list::erase() leaves a node leading to the one that follows it then: a
\* loop comes to no element that was erased before the loop began.
THEOREM NothingIsStale == TSpec => []NothingStale
<1>1. IInv => NothingStale
  BY DEF IInv, LoopInv, EverInv, NothingStale
<1> QED BY <1>1, Invariant, PTL

\* iterator::operator++ leads forward only: a loop comes to no element twice,
\* and internal_cntConnections() counts each one once.
THEOREM NothingIsTwice == TSpec => []NothingTwice
<1>1. IInv => NothingTwice
  BY DEF IInv, LoopInv, PassedInv, NothingTwice
<1> QED BY <1>1, Invariant, PTL

=============================================================================
