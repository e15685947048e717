------------------------ MODULE RcuListRefinementProofs ------------------------
(***************************************************************************)
(* RcuList implements SharedList, for any number of handles and records    *)
(* and any finite number of nodes.  What IInv says of the list is local (a *)
(* node and its neighbours); here the nodes that are linked are put in one *)
(* order, from m_head along next, and every step of a function is found to *)
(* be one of the list in that order, or none.                              *)
(*                                                                         *)
(* That order also shows that ~rcu_list frees every element.  What it      *)
(* leaves to the handles that outlive the list is freed by the oldest of   *)
(* them that stands above it, unless a handle's record lies below (LeakInv *)
(* of RcuListInv): an older handle that blocks a newer one frees in its    *)
(* place.                                                                  *)
(***************************************************************************)
EXTENDS RcuListRefinement, RcuListProofs, SequencesExt, FiniteSetTheorems,
        WellFoundedInduction

-----------------------------------------------------------------------------
(* The order of the list *)

\* The i-th element of s, NULL outside of s.
Nth(s, i) == IF i \in 1 .. Len(s) THEN s[i] ELSE NULL

\* s is a list of nodes without repetition, the first of them the head, each
\* one leading to the following.
Leads(s, N, head, nx) ==
  /\ \A i, j \in 1 .. Len(s) : s[i] = s[j] => i = j
  /\ \A n : n \in N <=> \E i \in 1 .. Len(s) : s[i] = n
  /\ head = Nth(s, 1)
  /\ \A i \in 1 .. Len(s) : nx[s[i]] = Nth(s, i + 1)

\* s is the list from m_head.
IsList(s) == Leads(s, Linked, m_head, next)

\* There is such an order while the list exists.
Ordered == dtor = "none" => \E s \in Seq(Nodes) : IsList(s)

\* A set of numbers that is not empty has a least one.
LEMMA Least ==
  ASSUME NEW T \in SUBSET Nat, T # {}
  PROVE  \E n \in T : \A m \in T : n <= m
<1> DEFINE R == OpToRel(<, Nat)
<1>1. IsWellFoundedOn(R, Nat)
  BY NatLessThanWellFounded
<1>2. PICK n \in T : \A m \in T : ~(<<m, n>> \in R)
  <2> HIDE DEF R
  <2> QED BY <1>1, WFMin
<1>3. \A m \in T : ~(m < n)
  BY <1>2 DEF OpToRel
<1> QED BY <1>3

\* A list without repetition is not longer than there are nodes.
LEMMA NotLonger ==
  ASSUME NEW s \in Seq(Nodes), \A i, j \in 1 .. Len(s) : s[i] = s[j] => i = j
  PROVE  Len(s) \in Nat /\ Len(s) <= Cardinality(Nodes) /\ Cardinality(1 .. Len(s)) = Len(s)
<1>1. Len(s) \in Nat /\ s \in [1 .. Len(s) -> Nodes]
  OBVIOUS
<1>2. s \in Injection(1 .. Len(s), Nodes)
  BY <1>1 DEF Injection, IsInjective
<1>3. Cardinality(1 .. Len(s)) = Len(s)
  BY <1>1, FS_Interval
<1>4. Cardinality(1 .. Len(s)) <= Cardinality(Nodes)
  BY <1>2, NodesAssumption, FS_Injection
<1> QED BY <1>1, <1>3, <1>4

\* What NodeAt computes of a list.
LEMMA NodeAtIs ==
  ASSUME NEW s \in Seq(Nodes), IsList(s)
  PROVE  NodeAt = [k \in 1 .. Cardinality(Nodes) |-> Nth(s, k)]
<1> DEFINE D == 1 .. Cardinality(Nodes)
           Step(f) == [k \in D |-> IF k = 1 THEN m_head
                                   ELSE IF f[k - 1] = NULL THEN NULL ELSE next[f[k - 1]]]
           g == [k \in D |-> Nth(s, k)]
<1>0. Cardinality(Nodes) \in Nat /\ Len(s) \in Nat
  BY NodesAssumption, FS_CardinalityType
<1>a. /\ m_head = Nth(s, 1)
      /\ \A i \in 1 .. Len(s) : next[s[i]] = Nth(s, i + 1)
      /\ \A i \in 1 .. Len(s) : s[i] # NULL
  <2>1. \A i \in 1 .. Len(s) : s[i] \in Nodes
    OBVIOUS
  <2> QED BY <2>1, NullAssumption DEF IsList, Leads
<1>1. \A k \in D : k # 1 => Nth(s, k) = IF Nth(s, k - 1) = NULL THEN NULL ELSE next[Nth(s, k - 1)]
  BY <1>0, <1>a DEF Nth
<1>2. g = Step(g)
  <2>1. \A k \in D : k # 1 => k - 1 \in D
    BY <1>0
  <2>2. \A k \in D : g[k] = Step(g)[k]
    BY <1>1, <1>a, <2>1
  <2> QED BY <2>2
<1>3. \A f : f = Step(f) => f = g
  <2> SUFFICES ASSUME NEW f, f = Step(f), f # g PROVE FALSE
    OBVIOUS
  <2> DEFINE T == {k \in D : f[k] # g[k]}
  <2>0. \A k \in D : f[k] = Step(f)[k]
    OBVIOUS
  <2>1. T # {} /\ T \in SUBSET Nat
    OBVIOUS
  <2>2. PICK n \in T : \A m \in T : n <= m
    <3> HIDE DEF T
    <3> QED BY <2>1, Least
  <2>3. n # 1
    BY <2>0, <2>2, <1>a
  <2>4. n - 1 \in D /\ n - 1 \notin T /\ n \in D
    <3>1. n \in D /\ n - 1 \in D /\ ~(n <= n - 1)
      BY <1>0, <2>3
    <3> HIDE DEF T
    <3> QED BY <2>2, <3>1
  <2>5. f[n] = IF f[n - 1] = NULL THEN NULL ELSE next[f[n - 1]]
    BY <2>0, <2>3, <2>4
  <2>6. f[n - 1] = Nth(s, n - 1) /\ f[n] # Nth(s, n)
    BY <2>2, <2>4
  <2> QED BY <2>3, <2>4, <2>5, <2>6, <1>1
<1>4. NodeAt = CHOOSE f : f = Step(f)
  BY DEF NodeAt
<1> HIDE DEF Step, g
<1>5. NodeAt = Step(NodeAt)
  BY <1>2, <1>4
<1>6. NodeAt = g
  BY <1>3, <1>5
<1> QED BY <1>6 DEF g

\* Elements is the list.
LEMMA ElementsAre == \A s \in Seq(Nodes) : IsList(s) => Elements = s
<1> SUFFICES ASSUME NEW s \in Seq(Nodes), IsList(s) PROVE Elements = s
  OBVIOUS
<1>1. /\ Len(s) \in Nat /\ Len(s) <= Cardinality(Nodes)
      /\ Cardinality(1 .. Len(s)) = Len(s) /\ Cardinality(Nodes) \in Nat
  BY NotLonger, NodesAssumption, FS_CardinalityType DEF IsList, Leads
<1>2. NodeAt = [k \in 1 .. Cardinality(Nodes) |-> Nth(s, k)]
  BY NodeAtIs
<1>3. {i \in DOMAIN NodeAt : NodeAt[i] # NULL} = 1 .. Len(s)
  <2>1. \A i \in 1 .. Len(s) : s[i] \in Nodes
    OBVIOUS
  <2> QED BY <1>1, <1>2, <2>1, NullAssumption DEF Nth
<1>4. Elements = [k \in 1 .. Len(s) |-> Nth(s, k)]
  BY <1>1, <1>2, <1>3 DEF Elements
<1>5. s = [k \in 1 .. Len(s) |-> s[k]]
  OBVIOUS
<1>6. \A k \in 1 .. Len(s) : Nth(s, k) = s[k]
  BY DEF Nth
<1> QED BY <1>4, <1>5, <1>6

\* So it is after a step.
LEMMA ElementsNext == (\A s \in Seq(Nodes) : IsList(s) => Elements = s)'
BY ElementsAre, PTL

\* What InsertAt does to a sequence of nodes.
LEMMA InsertedAt ==
  ASSUME NEW s \in Seq(Nodes), NEW n \in Nodes, NEW k \in 1 .. Len(s) + 1
  PROVE  /\ InsertAt(s, k, n) \in Seq(Nodes) /\ Len(InsertAt(s, k, n)) = Len(s) + 1
         /\ \A i \in 1 .. Len(s) + 1 :
              InsertAt(s, k, n)[i] = IF i < k THEN s[i] ELSE IF i = k THEN n ELSE s[i - 1]
<1> DEFINE a == SubSeq(s, 1, k - 1)  b == SubSeq(s, k, Len(s))  c == a \o <<n>>  t == c \o b
<1>0. Len(s) \in Nat /\ k \in Nat
  OBVIOUS
<1>1. a \in Seq(Nodes) /\ Len(a) = k - 1 /\ \A i \in 1 .. k - 1 : a[i] = s[i]
  OBVIOUS
<1>2. b \in Seq(Nodes) /\ Len(b) = Len(s) - k + 1
        /\ \A i \in 1 .. Len(s) - k + 1 : b[i] = s[k + i - 1]
  OBVIOUS
<1>3. InsertAt(s, k, n) = t
  BY DEF InsertAt
<1> HIDE DEF a, b
<1>4. c \in Seq(Nodes) /\ Len(c) = k /\ c[k] = n /\ \A i \in 1 .. k - 1 : c[i] = s[i]
  BY <1>1
<1> HIDE DEF c
<1>5. t \in Seq(Nodes) /\ Len(t) = Len(s) + 1
  BY <1>0, <1>2, <1>4
<1>6. \A i \in 1 .. k : t[i] = c[i]
  BY <1>2, <1>4
<1>7. ASSUME NEW i \in 1 .. Len(s) + 1, i > k PROVE t[i] = s[i - 1]
  <2>1. i - k \in 1 .. Len(s) - k + 1 /\ i \in Nat /\ i = k + (i - k) /\ k + (i - k) - 1 = i - 1
    BY <1>0, <1>7
  <2>2. t[i] = b[i - k]
    BY <1>2, <1>4, <1>7, <2>1
  <2> QED BY <1>2, <2>1, <2>2
<1> HIDE DEF t
<1>8. ASSUME NEW i \in 1 .. Len(s) + 1
      PROVE  t[i] = IF i < k THEN s[i] ELSE IF i = k THEN n ELSE s[i - 1]
  <2>1. CASE i < k
    BY <1>0, <1>4, <1>6, <2>1
  <2>2. CASE i = k
    BY <1>0, <1>4, <1>6, <2>2
  <2>3. CASE i > k
    BY <1>0, <1>7, <2>3
  <2> QED BY <1>0, <2>1, <2>2, <2>3
<1> QED BY <1>3, <1>5, <1>8

\* What RemoveAt does to it.
LEMMA RemovedAt ==
  ASSUME NEW s \in Seq(Nodes), NEW k \in 1 .. Len(s)
  PROVE  /\ RemoveAt(s, k) \in Seq(Nodes) /\ Len(RemoveAt(s, k)) = Len(s) - 1
         /\ \A i \in 1 .. Len(s) - 1 : RemoveAt(s, k)[i] = IF i < k THEN s[i] ELSE s[i + 1]
<1> DEFINE a == SubSeq(s, 1, k - 1)  b == SubSeq(s, k + 1, Len(s))  t == a \o b
<1>0. Len(s) \in Nat /\ k \in Nat
  OBVIOUS
<1>1. a \in Seq(Nodes) /\ Len(a) = k - 1 /\ \A i \in 1 .. k - 1 : a[i] = s[i]
  OBVIOUS
<1>2. b \in Seq(Nodes) /\ Len(b) = Len(s) - k /\ \A i \in 1 .. Len(s) - k : b[i] = s[k + i]
  OBVIOUS
<1>3. RemoveAt(s, k) = t
  BY DEF RemoveAt
<1> HIDE DEF a, b
<1>4. t \in Seq(Nodes) /\ Len(t) = Len(s) - 1
  <2>1. t \in Seq(Nodes) /\ Len(t) = Len(a) + Len(b)
    <3>1. a \in Seq(Nodes) /\ b \in Seq(Nodes) /\ t = a \o b
      BY <1>1, <1>2
    <3> HIDE DEF t
    <3> QED BY <3>1
  <2>2. Len(a) + Len(b) = Len(s) - 1
    BY <1>0, <1>1, <1>2
  <2> QED BY <2>1, <2>2
<1>5. \A i \in 1 .. k - 1 : t[i] = s[i]
  BY <1>1, <1>2
<1>6. ASSUME NEW i \in 1 .. Len(s) - 1, ~(i < k) PROVE t[i] = s[i + 1]
  <2>1. i - k + 1 \in 1 .. Len(s) - k /\ i = (k - 1) + (i - k + 1) /\ k + (i - k + 1) = i + 1
    BY <1>0, <1>6
  <2>2. t[i] = b[i - k + 1]
    BY <1>0, <1>1, <1>2, <1>6, <2>1
  <2> QED BY <1>2, <2>1, <2>2
<1> HIDE DEF t
<1>7. \A i \in 1 .. Len(s) - 1 : t[i] = IF i < k THEN s[i] ELSE s[i + 1]
  <2> TAKE i \in 1 .. Len(s) - 1
  <2>1. i < k => i \in 1 .. k - 1
    BY <1>0
  <2> QED BY <2>1, <1>5, <1>6
<1> QED BY <1>3, <1>4, <1>7

\* A new node between the (k - 1)-th and the k-th.
LEMMA PutLeads ==
  ASSUME NEW s \in Seq(Nodes), NEW N, NEW head, NEW nx, Leads(s, N, head, nx),
         NEW n \in Nodes, n \notin N, NEW k \in 1 .. Len(s) + 1,
         NEW N2, NEW head2, NEW nx2,
         N2 = N \cup {n},
         head2 = IF k = 1 THEN n ELSE head,
         \A m \in Nodes : nx2[m] = IF m = n THEN Nth(s, k)
                                   ELSE IF m = Nth(s, k - 1) THEN n ELSE nx[m]
  PROVE  Leads(InsertAt(s, k, n), N2, head2, nx2)
<1> DEFINE t == InsertAt(s, k, n)
<1>0. Len(s) \in Nat /\ k \in Nat /\ (\A i \in 1 .. Len(s) : s[i] \in Nodes /\ s[i] # n)
  BY DEF Leads
<1>1. /\ t \in Seq(Nodes) /\ Len(t) = Len(s) + 1
      /\ \A i \in 1 .. Len(s) + 1 : t[i] = IF i < k THEN s[i] ELSE IF i = k THEN n ELSE s[i - 1]
  BY InsertedAt
<1> HIDE DEF t
<1>2. \A i, j \in 1 .. Len(t) : t[i] = t[j] => i = j
  <2> SUFFICES ASSUME NEW i \in 1 .. Len(t), NEW j \in 1 .. Len(t), t[i] = t[j] PROVE i = j
    OBVIOUS
  <2> DEFINE Old(x) == IF x < k THEN x ELSE x - 1
  <2>1. \A x \in 1 .. Len(t) : x # k => Old(x) \in 1 .. Len(s) /\ t[x] = s[Old(x)]
    BY <1>0, <1>1
  <2>2. t[k] = n
    BY <1>0, <1>1
  <2>3. \A x \in 1 .. Len(t) : x # k => t[x] # n
    BY <1>0, <2>1
  <2>4. CASE i # k /\ j # k
    <3>1. Old(i) = Old(j)
      <4> HIDE DEF Old
      <4> QED BY <2>1, <2>4 DEF Leads
    <3> QED BY <1>0, <1>1, <2>4, <3>1
  <2> QED BY <2>2, <2>3, <2>4
<1>3. \A m : m \in N2 <=> \E i \in 1 .. Len(t) : t[i] = m
  <2>1. ASSUME NEW m \in N PROVE \E i \in 1 .. Len(t) : t[i] = m
    <3>1. PICK i \in 1 .. Len(s) : s[i] = m
      BY DEF Leads
    <3>2. CASE i < k
      BY <1>0, <1>1, <3>1, <3>2
    <3>3. CASE ~(i < k)
      <4>1. i + 1 \in 1 .. Len(t) /\ ~(i + 1 < k) /\ i + 1 # k /\ (i + 1) - 1 = i
        BY <1>0, <1>1, <3>3
      <4> QED BY <1>1, <3>1, <4>1
    <3> QED BY <3>2, <3>3
  <2>2. k \in 1 .. Len(t) /\ t[k] = n
    BY <1>0, <1>1
  <2>3. ASSUME NEW i \in 1 .. Len(t) PROVE t[i] \in N2
    <3>1. CASE i < k
      <4>1. i \in 1 .. Len(s) /\ t[i] = s[i]
        BY <1>0, <1>1, <3>1
      <4> QED BY <4>1 DEF Leads
    <3>2. CASE i > k
      <4>1. i - 1 \in 1 .. Len(s) /\ t[i] = s[i - 1]
        BY <1>0, <1>1, <3>2
      <4> QED BY <4>1 DEF Leads
    <3> QED BY <1>0, <1>1, <2>2, <3>1, <3>2
  <2> QED BY <2>1, <2>2, <2>3
<1>4. head2 = Nth(t, 1)
  BY <1>0, <1>1 DEF Leads, Nth
<1>5. ASSUME NEW i \in 1 .. Len(t) PROVE nx2[t[i]] = Nth(t, i + 1)
  <2>0. t[i] \in Nodes /\ i \in Nat
    BY <1>0, <1>1
  <2>1. CASE i < k - 1
    <3>1. i \in 1 .. Len(s) /\ t[i] = s[i] /\ i + 1 \in 1 .. Len(s) /\ i + 1 \in 1 .. Len(t) /\ t[i + 1] = s[i + 1]
      BY <1>0, <1>1, <2>0, <2>1
    <3>2. s[i] # Nth(s, k - 1) /\ s[i] # n
      <4>1. k - 1 \in 1 .. Len(s) /\ k - 1 # i
        BY <1>0, <2>0, <2>1
      <4> QED BY <1>0, <3>1, <4>1 DEF Nth, Leads
    <3>3. nx[s[i]] = s[i + 1]
      BY <3>1 DEF Leads, Nth
    <3> QED BY <2>0, <3>1, <3>2, <3>3 DEF Nth
  <2>2. CASE i = k - 1
    <3>1. i \in 1 .. Len(s) /\ t[i] = s[i] /\ i + 1 = k /\ k \in 1 .. Len(t) /\ t[k] = n
      BY <1>0, <1>1, <2>0, <2>2
    <3>2. s[i] = Nth(s, k - 1) /\ s[i] # n
      BY <1>0, <2>2, <3>1 DEF Nth
    <3> QED BY <2>0, <3>1, <3>2 DEF Nth
  <2>3. CASE i = k
    <3>1. t[i] = n
      BY <1>0, <1>1, <2>3
    <3>2. Nth(t, i + 1) = Nth(s, k)
      <4>1. i + 1 \in 1 .. Len(t) <=> k \in 1 .. Len(s)
        BY <1>0, <1>1, <2>3
      <4>2. k \in 1 .. Len(s) => t[i + 1] = s[k]
        <5>1. ~(k + 1 < k) /\ k + 1 # k /\ (k + 1) - 1 = k
          BY <1>0
        <5> QED BY <1>0, <1>1, <2>3, <4>1, <5>1
      <4> QED BY <4>1, <4>2 DEF Nth
    <3> QED BY <2>0, <3>1, <3>2
  <2>4. CASE i > k
    <3>1. /\ i - 1 \in 1 .. Len(s) /\ t[i] = s[i - 1]
          /\ (i - 1) + 1 = i /\ (i + 1) - 1 = i
          /\ i + 1 \in 1 .. Len(t) <=> i \in 1 .. Len(s)
          /\ i \in 1 .. Len(s) => t[i + 1] = s[i]
      BY <1>0, <1>1, <2>0, <2>4
    <3>2. s[i - 1] # Nth(s, k - 1) /\ s[i - 1] # n
      <4>1. s[i - 1] # n /\ s[i - 1] \in Nodes
        BY <1>0, <3>1
      <4>2. k - 1 # i - 1
        BY <1>0, <2>0, <2>4
      <4>3. k - 1 \in 1 .. Len(s) => s[k - 1] # s[i - 1]
        BY <3>1, <4>2 DEF Leads
      <4>4. CASE k - 1 \in 1 .. Len(s)
        BY <4>1, <4>3, <4>4 DEF Nth
      <4>5. CASE k - 1 \notin 1 .. Len(s)
        BY <4>1, <4>5, NullAssumption DEF Nth
      <4> QED BY <4>4, <4>5
    <3>3. nx[s[i - 1]] = Nth(s, i)
      BY <3>1 DEF Leads
    <3>4. Nth(t, i + 1) = Nth(s, i)
      BY <3>1 DEF Nth
    <3> QED BY <2>0, <3>1, <3>2, <3>3, <3>4
  <2> QED BY <1>0, <2>0, <2>1, <2>2, <2>3, <2>4
<1> QED BY <1>2, <1>3, <1>4, <1>5 DEF Leads, t

\* The k-th node taken out.
LEMMA TakeLeads ==
  ASSUME NEW s \in Seq(Nodes), NEW N, NEW head, NEW nx, Leads(s, N, head, nx),
         NEW k \in 1 .. Len(s), NEW N2, NEW head2, NEW nx2,
         N2 = N \ {s[k]},
         head2 = IF k = 1 THEN Nth(s, 2) ELSE head,
         \A m \in Nodes : nx2[m] = IF m = Nth(s, k - 1) THEN Nth(s, k + 1) ELSE nx[m]
  PROVE  Leads(RemoveAt(s, k), N2, head2, nx2)
<1> DEFINE t == RemoveAt(s, k)
           Old(x) == IF x < k THEN x ELSE x + 1
<1>0. Len(s) \in Nat /\ k \in Nat /\ (\A i \in 1 .. Len(s) : s[i] \in Nodes)
  OBVIOUS
<1>1. /\ t \in Seq(Nodes) /\ Len(t) = Len(s) - 1
      /\ \A i \in 1 .. Len(s) - 1 : t[i] = IF i < k THEN s[i] ELSE s[i + 1]
  BY RemovedAt
<1> HIDE DEF t
<1>2. /\ \A i \in 1 .. Len(t) : Old(i) \in 1 .. Len(s) /\ Old(i) # k /\ t[i] = s[Old(i)]
      /\ \A i, j \in 1 .. Len(t) : Old(i) = Old(j) => i = j
      /\ \A j \in 1 .. Len(s) : j # k => \E i \in 1 .. Len(t) : Old(i) = j
  <2>1. ASSUME NEW i \in 1 .. Len(t)
        PROVE  Old(i) \in 1 .. Len(s) /\ Old(i) # k /\ t[i] = s[Old(i)]
    <3>1. CASE i < k
      BY <1>0, <1>1, <3>1
    <3>2. CASE ~(i < k)
      BY <1>0, <1>1, <3>2
    <3> QED BY <3>1, <3>2
  <2>2. \A i, j \in 1 .. Len(t) : Old(i) = Old(j) => i = j
    BY <1>0, <1>1
  <2>3. ASSUME NEW j \in 1 .. Len(s), j # k PROVE \E i \in 1 .. Len(t) : Old(i) = j
    <3>1. CASE j < k
      <4>1. j \in 1 .. Len(t) /\ Old(j) = j
        BY <1>0, <1>1, <3>1
      <4> QED BY <4>1
    <3>2. CASE j > k
      <4>1. j - 1 \in 1 .. Len(t) /\ Old(j - 1) = j
        BY <1>0, <1>1, <3>2
      <4> QED BY <4>1
    <3> QED BY <1>0, <2>3, <3>1, <3>2
  <2> QED BY <2>1, <2>2, <2>3
<1>3. \A i, j \in 1 .. Len(t) : t[i] = t[j] => i = j
  <2> HIDE DEF Old
  <2> QED BY <1>2 DEF Leads
<1>4. \A m : m \in N2 <=> \E i \in 1 .. Len(t) : t[i] = m
  <2> HIDE DEF Old
  <2>1. \A m : m \in N2 <=> \E j \in 1 .. Len(s) : j # k /\ s[j] = m
    BY DEF Leads
  <2>2. ASSUME NEW i \in 1 .. Len(t) PROVE t[i] \in N2
    <3>1. Old(i) \in 1 .. Len(s) /\ Old(i) # k /\ t[i] = s[Old(i)]
      BY <1>2
    <3> QED BY <2>1, <3>1
  <2>3. ASSUME NEW m \in N2 PROVE \E i \in 1 .. Len(t) : t[i] = m
    <3>1. PICK j \in 1 .. Len(s) : j # k /\ s[j] = m
      BY <2>1
    <3>2. PICK i \in 1 .. Len(t) : Old(i) = j
      BY <1>2, <3>1
    <3>3. t[i] = s[Old(i)]
      BY <1>2
    <3> QED BY <3>1, <3>2, <3>3
  <2> QED BY <2>2, <2>3
<1>5. head2 = Nth(t, 1)
  <2>1. CASE k = 1
    <3>1. 2 \in 1 .. Len(s) <=> 1 \in 1 .. Len(t)
      BY <1>0, <1>1
    <3>2. 1 \in 1 .. Len(t) => t[1] = s[2]
      BY <1>0, <1>1, <2>1
    <3> QED BY <2>1, <3>1, <3>2 DEF Nth
  <2>2. CASE k # 1
    <3>1. 1 \in 1 .. Len(s) /\ 1 \in 1 .. Len(t) /\ t[1] = s[1]
      BY <1>0, <1>1, <2>2
    <3> QED BY <2>2, <3>1 DEF Nth, Leads
  <2> QED BY <2>1, <2>2
<1>6. ASSUME NEW i \in 1 .. Len(t) PROVE nx2[t[i]] = Nth(t, i + 1)
  <2>0. t[i] \in Nodes /\ i \in Nat
    BY <1>0, <1>1
  <2>1. CASE i < k - 1
    <3>1. /\ i \in 1 .. Len(s) /\ t[i] = s[i] /\ k - 1 \in 1 .. Len(s) /\ k - 1 # i
          /\ i + 1 \in 1 .. Len(s) /\ i + 1 \in 1 .. Len(t) /\ t[i + 1] = s[i + 1]
      BY <1>0, <1>1, <2>0, <2>1
    <3>2. s[i] # Nth(s, k - 1)
      BY <3>1 DEF Nth, Leads
    <3>3. nx[s[i]] = s[i + 1]
      BY <3>1 DEF Leads, Nth
    <3> QED BY <2>0, <3>1, <3>2, <3>3 DEF Nth
  <2>2. CASE i = k - 1
    <3>1. i \in 1 .. Len(s) /\ t[i] = s[i] /\ i + 1 = k
      BY <1>0, <1>1, <2>0, <2>2
    <3>2. s[i] = Nth(s, k - 1)
      BY <2>2, <3>1 DEF Nth
    <3>3. k + 1 \in 1 .. Len(s) <=> i + 1 \in 1 .. Len(t)
      BY <1>0, <1>1, <3>1
    <3>4. k + 1 \in 1 .. Len(s) => t[i + 1] = s[k + 1]
      BY <1>0, <1>1, <3>1, <3>3
    <3> QED BY <2>0, <3>1, <3>2, <3>3, <3>4 DEF Nth
  <2>3. CASE i >= k
    <3>1. /\ i + 1 \in 1 .. Len(s) /\ t[i] = s[i + 1]
          /\ (i + 1) + 1 \in 1 .. Len(s) <=> i + 1 \in 1 .. Len(t)
          /\ i + 1 \in 1 .. Len(t) => t[i + 1] = s[(i + 1) + 1]
      BY <1>0, <1>1, <2>0, <2>3
    <3>2. s[i + 1] # Nth(s, k - 1)
      <4>1. k - 1 \in 1 .. Len(s) => s[k - 1] # s[i + 1]
        <5>1. k - 1 # i + 1
          BY <1>0, <2>0, <2>3
        <5> QED BY <3>1, <5>1 DEF Leads
      <4>2. s[i + 1] # NULL
        BY <1>0, <3>1, NullAssumption
      <4> QED BY <4>1, <4>2 DEF Nth
    <3>3. nx[s[i + 1]] = Nth(s, (i + 1) + 1)
      BY <3>1 DEF Leads
    <3>4. Nth(t, i + 1) = Nth(s, (i + 1) + 1)
      BY <3>1 DEF Nth
    <3> QED BY <2>0, <3>1, <3>2, <3>3, <3>4
  <2> QED BY <1>0, <2>0, <2>1, <2>2, <2>3
<1> QED BY <1>3, <1>4, <1>5, <1>6 DEF Leads, t

-----------------------------------------------------------------------------
(* The steps that change the list *)

\* The ends of the list and the links back.
LEMMA ListEnds ==
  ASSUME IInv, dtor = "none", NEW s \in Seq(Nodes), IsList(s)
  PROVE  /\ Len(s) \in Nat /\ (m_head = NULL <=> Len(s) = 0)
         /\ m_tail = Nth(s, Len(s))
         /\ \A k \in 1 .. Len(s) : /\ s[k] \in Linked /\ s[k] \in Nodes /\ s[k] # NULL
                                   /\ back[s[k]] = Nth(s, k - 1)
                                   /\ next[s[k]] = Nth(s, k + 1)
<1>0. Len(s) \in Nat /\ \A k \in 1 .. Len(s) : s[k] \in Nodes /\ s[k] # NULL
  BY NullAssumption
<1>1. /\ \A k \in 1 .. Len(s) : s[k] \in Linked /\ next[s[k]] = Nth(s, k + 1)
      /\ m_head = Nth(s, 1)
      /\ \A n \in Linked : \E k \in 1 .. Len(s) : s[k] = n
  BY DEF IsList, Leads
<1>2. m_head = NULL <=> Len(s) = 0
  BY <1>0, <1>1 DEF Nth
<1>3. ASSUME NEW k \in 1 .. Len(s) PROVE back[s[k]] = Nth(s, k - 1)
  <2>1. CASE k = 1
    BY <1>0, <1>1, <1>3, <2>1 DEF IInv, ListShape, Nth
  <2>2. CASE k # 1
    <3>1. k - 1 \in 1 .. Len(s) /\ (k - 1) + 1 = k
      BY <1>0, <2>2
    <3>2. s[k - 1] \in Linked /\ next[s[k - 1]] = s[k]
      BY <1>1, <3>1 DEF Nth
    <3> QED BY <1>0, <3>1, <3>2 DEF IInv, ListShape, Nth
  <2> QED BY <2>1, <2>2
<1>4. m_tail = Nth(s, Len(s))
  <2>1. CASE m_tail = NULL
    <3>1. m_head = NULL
      BY <2>1 DEF IInv, ListShape
    <3> QED BY <1>0, <1>2, <2>1, <3>1 DEF Nth
  <2>2. CASE m_tail # NULL
    <3>1. m_tail \in Linked /\ next[m_tail] = NULL
      BY <2>2 DEF IInv, ListShape
    <3>2. PICK k \in 1 .. Len(s) : s[k] = m_tail
      BY <1>1, <3>1
    <3>3. Nth(s, k + 1) = NULL
      BY <1>1, <3>1, <3>2
    <3>4. k = Len(s)
      BY <1>0, <3>3 DEF Nth
    <3> QED BY <3>2, <3>4 DEF Nth
  <2> QED BY <2>1, <2>2
<1> QED BY <1>0, <1>1, <1>2, <1>3, <1>4

\* What the insertion of n as the k-th node does.
Inserts(s, n, k) ==
  /\ IsList(InsertAt(s, k, n))'
  /\ deleted' = deleted
  /\ \A m \in deleted : next'[m] = next[m]

\* A node that Splice links between two neighbours.
LEMMA SpliceInserts ==
  ASSUME IInv, dtor = "none", NEW s \in Seq(Nodes), IsList(s),
         NEW n \in Nodes \ nodeHeap, NEW k \in 1 .. Len(s) + 1,
         Allocate(n), Splice(n, Nth(s, k - 1), Nth(s, k)),
         m_head' = IF k = 1 THEN n ELSE m_head
  PROVE  Inserts(s, n, k)
<1>1. n \notin Linked /\ n \notin deleted
  BY DEF Linked, IInv, RetiredOnce
<1>2. deleted' = deleted /\ Linked' = Linked \cup {n}
  BY <1>1 DEF Allocate, Linked
<1>3. \A m \in Nodes : next'[m] = IF m = n THEN Nth(s, k) ELSE IF m = Nth(s, k - 1) THEN n ELSE next[m]
  BY DEF Splice
<1>4. Leads(InsertAt(s, k, n), Linked', m_head', next')
  BY <1>1, <1>2, <1>3, PutLeads DEF IsList
<1>5. \A m \in deleted : m \in Nodes /\ m # n /\ m # Nth(s, k - 1)
  <2>1. Nth(s, k - 1) = NULL \/ Nth(s, k - 1) \in Linked
    BY ListEnds DEF Nth
  <2> QED BY <1>1, <2>1, NullAssumption DEF IInv, TypeOK, Linked
<1>6. \A m \in deleted : next'[m] = next[m]
  BY <1>3, <1>5
<1> QED BY <1>2, <1>4, <1>6 DEF Inserts, IsList

LEMMA FrontInserts ==
  ASSUME IInv, dtor = "none", NEW s \in Seq(Nodes), IsList(s),
         NEW n \in Nodes \ nodeHeap, Allocate(n), AtFront(n)
  PROVE  \E k \in 1 .. Len(s) + 1 : Inserts(s, n, k)
<1>1. Len(s) \in Nat
  BY ListEnds
<1>2. Nth(s, 0) = NULL /\ Nth(s, 1) = m_head /\ 1 \in 1 .. Len(s) + 1 /\ 1 - 1 = 0
  BY <1>1 DEF Nth, IsList, Leads
<1>3. Inserts(s, n, 1)
  BY <1>2, SpliceInserts DEF AtFront
<1> QED BY <1>2, <1>3

LEMMA BackInserts ==
  ASSUME IInv, dtor = "none", NEW s \in Seq(Nodes), IsList(s),
         NEW n \in Nodes \ nodeHeap, Allocate(n), AtBack(n)
  PROVE  \E k \in 1 .. Len(s) + 1 : Inserts(s, n, k)
<1>1. Len(s) \in Nat /\ m_tail = Nth(s, Len(s)) /\ (m_head = NULL <=> Len(s) = 0)
  BY ListEnds
<1> DEFINE k == Len(s) + 1
<1>2. Nth(s, k) = NULL /\ Nth(s, k - 1) = m_tail /\ k \in 1 .. Len(s) + 1
  BY <1>1 DEF Nth
<1>3. m_head' = IF k = 1 THEN n ELSE m_head
  BY <1>1 DEF AtBack, IInv, ListShape
<1>4. Splice(n, m_tail, NULL)
  BY DEF AtBack
<1> HIDE DEF k
<1>5. Inserts(s, n, k)
  BY <1>2, <1>3, <1>4, SpliceInserts
<1> QED BY <1>2, <1>5

LEMMA IteratorInserts ==
  ASSUME IInv, dtor = "none", NEW s \in Seq(Nodes), IsList(s),
         NEW n \in Nodes \ nodeHeap, Allocate(n),
         NEW c, c \in Linked \/ m_head = NULL, AtIterator(n, c)
  PROVE  \E k \in 1 .. Len(s) + 1 : Inserts(s, n, k)
<1>1. CASE AtFront(n)
  BY <1>1, FrontInserts
<1>2. CASE AtBack(n)
  BY <1>2, BackInserts
<1>3. CASE m_head \notin {NULL, c} /\ Splice(n, back[c], c) /\ UNCHANGED m_head
  <2>1. PICK k \in 1 .. Len(s) : s[k] = c
    BY <1>3 DEF IsList, Leads
  <2>2. Len(s) \in Nat /\ back[c] = Nth(s, k - 1) /\ c = Nth(s, k)
    BY <2>1, ListEnds DEF Nth
  <2>3. k # 1 /\ k \in 1 .. Len(s) + 1
    BY <1>3, <2>2 DEF IsList, Leads
  <2>4. Inserts(s, n, k)
    BY <1>3, <2>2, <2>3, SpliceInserts
  <2> QED BY <2>3, <2>4
<1> QED BY <1>1, <1>2, <1>3 DEF AtIterator

\* push_front, push_back and emplace put one new node somewhere in the list.
LEMMA WriteInserts ==
  ASSUME IInv, dtor = "none", NEW s \in Seq(Nodes), IsList(s),
         NEW h \in Handles, PushFront(h) \/ PushBack(h) \/ Emplace(h)
  PROVE  \E n \in Nodes \ nodeHeap, k \in 1 .. Len(s) + 1 : Inserts(s, n, k)
<1>1. CASE PushFront(h)
  BY <1>1, FrontInserts DEF PushFront
<1>2. CASE PushBack(h)
  BY <1>2, BackInserts DEF PushBack
<1>3. CASE Emplace(h)
  <2>1. cursor[h] \in Linked \/ m_head = NULL
    BY <1>3 DEF Emplace, EmplaceAnywhere, IInv, CursorInv, Linked
  <2> QED BY <1>3, <2>1, IteratorInserts DEF Emplace, EmplaceAnywhere
<1> QED BY <1>1, <1>2, <1>3

\* What taking out the k-th node does.
Removes(s, k) ==
  /\ IsList(RemoveAt(s, k))'
  /\ deleted' = deleted \cup {s[k]}
  /\ \A m \in deleted' : next'[m] = next[m]

\* erase() takes out the node of the iterator.
LEMMA UnlinkRemoves ==
  ASSUME IInv, dtor = "none", NEW s \in Seq(Nodes), IsList(s),
         NEW h \in Handles, Unlink(h)
  PROVE  \E k \in 1 .. Len(s) : s[k] = cursor[h] /\ Removes(s, k)
<1>1. cursor[h] \in Linked
  BY DEF Unlink, TakeOut, IInv, CursorInv, Linked
<1>2. PICK k \in 1 .. Len(s) : s[k] = cursor[h]
  BY <1>1 DEF IsList, Leads
<1>3. /\ Len(s) \in Nat /\ s[k] \in Nodes
      /\ back[s[k]] = Nth(s, k - 1) /\ next[s[k]] = Nth(s, k + 1)
      /\ m_head = Nth(s, 1)
  BY ListEnds DEF IsList, Leads
<1>4. /\ deleted' = deleted \cup {s[k]} /\ nodeHeap' = nodeHeap
      /\ \A m \in Nodes : next'[m] = IF m = Nth(s, k - 1) THEN Nth(s, k + 1) ELSE next[m]
      /\ m_head' = IF Nth(s, k - 1) = NULL THEN Nth(s, k + 1) ELSE m_head
  BY <1>2, <1>3 DEF Unlink, TakeOut
<1>5. Linked' = Linked \ {s[k]}
  BY <1>4 DEF Linked
<1>6. Nth(s, k - 1) = NULL <=> k = 1
  <2>1. \A i \in 1 .. Len(s) : s[i] # NULL
    BY ListEnds
  <2>2. k - 1 \in 1 .. Len(s) <=> k # 1
    BY <1>3
  <2> QED BY <2>1, <2>2 DEF Nth
<1>7. m_head' = IF k = 1 THEN Nth(s, 2) ELSE m_head
  BY <1>4, <1>6
<1>8. Leads(RemoveAt(s, k), Linked', m_head', next')
  BY <1>4, <1>5, <1>7, TakeLeads DEF IsList
<1>9. \A m \in deleted' : m \in Nodes /\ m # Nth(s, k - 1)
  <2>1. k - 1 \in 1 .. Len(s) => s[k - 1] \in Linked /\ s[k - 1] # s[k]
    <3>1. k - 1 # k
      BY <1>3
    <3> QED BY <3>1, ListEnds DEF IsList, Leads
  <2>2. deleted \subseteq Nodes
    BY DEF IInv, TypeOK
  <2> QED BY <1>3, <1>4, <2>1, <2>2, NullAssumption DEF Nth, Linked
<1> QED BY <1>2, <1>4, <1>8, <1>9 DEF Removes, IsList

-----------------------------------------------------------------------------
(* The steps that leave it alone *)

\* The order is that of the linked nodes and their links alone.
LEMMA ListFrame ==
  ASSUME NEW s \in Seq(Nodes), IsList(s), UNCHANGED <<Linked, m_head>>,
         \A m \in Linked : next'[m] = next[m]
  PROVE  IsList(s)'
<1>1. Leads(s, Linked, m_head, next')
  BY DEF IsList, Leads
<1> QED BY <1>1 DEF IsList

\* The actions that change no node.
KeepsNodes(h) ==
  \/ (\E write \in BOOLEAN : Access(h, write)) \/ Enlist(h) \/ EnlistRetry(h) \/ LockMutex(h)
  \/ Read(h) \/ Retire(h) \/ RetireRetry(h) \/ EraseAgain(h) \/ Unlock(h)
  \/ WalkOn(h) \/ WalkBlocked(h) \/ WalkLast(h) \/ ReapEnd(h) \/ Leave(h)

LEMMA NodesKept ==
  ASSUME NEW h \in Handles, KeepsNodes(h)
  PROVE  UNCHANGED <<m_head, next, deleted, nodeHeap, dtor>>
BY DEF KeepsNodes, Access, Enlist, EnlistRetry, LockMutex, Read, Begin, Advance, Retire, RetireRetry,
   EraseAgain, Unlock, WalkOn, WalkBlocked, WalkLast, ReapEnd, Leave, UnchangedByWalk, listVars, dtorVars

\* unlock() frees no node that is linked.
LEMMA ReapKeeps ==
  ASSUME IInv, NEW h \in Handles, Reap(h)
  PROVE  LET n == zombie_node[scan[h]] IN
         /\ n # NULL => n \in deleted
         /\ deleted' = deleted \ {n} /\ UNCHANGED <<Linked, m_head, dtor>>
         /\ \A m \in Nodes : m # n => next'[m] = next[m]
         /\ \A m \in Linked : next'[m] = next[m]
<1> DEFINE n == zombie_node[scan[h]]
<1>1. scan[h] \in zombieHeap
  BY PushedFacts DEF Reap, Pushed
<1>2. n # NULL => n \in deleted
  BY <1>1 DEF IInv, RetiredOnce
<1>3. /\ deleted' = deleted \ {n} /\ nodeHeap' = nodeHeap \ {n} /\ UNCHANGED <<m_head, dtor>>
      /\ \A m \in Nodes : m # n => next'[m] = next[m]
  BY DEF Reap, FreeRecord, FreeNode, dtorVars
<1>4. \A m \in Linked : m \in Nodes /\ m # n
  BY <1>2, NullAssumption DEF Linked, IInv, TypeOK
<1>5. Linked' = Linked
  BY <1>3, <1>4 DEF Linked
<1> QED BY <1>2, <1>3, <1>4, <1>5

\* While the list exists every step but those of the destructor leaves it so.
LEMMA ExistsStays ==
  ASSUME [Next]_vars, ~Destructor
  PROVE  UNCHANGED dtor
BY DEF Next, Lock, Access, Enlist, EnlistRetry, LockMutex, Read, Begin, Advance, Write, PushFront,
   PushBack, Emplace, EmplaceAnywhere, UnchangedByInsert, Unlink, TakeOut, Retire, RetireRetry,
   EraseAgain, Unlock, Unlocking, WalkOn, WalkBlocked, WalkLast, Reap, ReapEnd, Leave,
   UnchangedByWalk, dtorVars, vars

\* The order survives every step of a list that exists.
LEMMA OrderedStep == IInv /\ Ordered /\ [Next]_vars => Ordered'
<1> SUFFICES ASSUME IInv, Ordered, [Next]_vars, dtor' = "none" PROVE \E s \in Seq(Nodes) : IsList(s)'
  BY DEF Ordered
<1>1. dtor = "none" /\ ~Destructor
  <2>1. ~Destructor
    BY DEF Destructor, Destroy, DestroyNode, DestroyNodesEnd, DestroyZombie, DestroyEnd
  <2> QED BY <2>1, ExistsStays
<1>2. PICK s \in Seq(Nodes) : IsList(s)
  BY <1>1 DEF Ordered
<1>3. ASSUME NEW h \in Handles, KeepsNodes(h) PROVE IsList(s)'
  BY <1>2, <1>3, NodesKept, ListFrame DEF Linked
<1>4. ASSUME NEW h \in Handles, PushFront(h) \/ PushBack(h) \/ Emplace(h)
      PROVE  \E t \in Seq(Nodes) : IsList(t)'
  <2>1. PICK n \in Nodes \ nodeHeap, k \in 1 .. Len(s) + 1 : Inserts(s, n, k)
    BY <1>1, <1>2, <1>4, WriteInserts
  <2>2. InsertAt(s, k, n) \in Seq(Nodes)
    BY InsertedAt
  <2> QED BY <2>1, <2>2 DEF Inserts
<1>5. ASSUME NEW h \in Handles, Unlink(h) PROVE \E t \in Seq(Nodes) : IsList(t)'
  <2>1. PICK k \in 1 .. Len(s) : Removes(s, k)
    BY <1>1, <1>2, <1>5, UnlinkRemoves
  <2>2. RemoveAt(s, k) \in Seq(Nodes)
    BY RemovedAt
  <2> QED BY <2>1, <2>2 DEF Removes
<1>6. ASSUME NEW h \in Handles, Reap(h) PROVE IsList(s)'
  BY <1>2, <1>6, ReapKeeps, ListFrame
<1>7. CASE UNCHANGED vars
  BY <1>2, <1>7, ListFrame DEF vars, Linked
<1> QED BY <1>1, <1>2, <1>3, <1>4, <1>5, <1>6, <1>7 DEF Next, Lock, Write, Unlocking, KeepsNodes

\* It holds at first of the empty list.
LEMMA InitOrdered == Init => Ordered
<1> SUFFICES ASSUME Init PROVE \E s \in Seq(Nodes) : IsList(s)
  BY DEF Ordered
<1>1. <<>> \in Seq(Nodes) /\ Len(<<>>) = 0
  OBVIOUS
<1>2. IsList(<<>>)
  BY <1>1 DEF Init, IsList, Leads, Linked, Nth
<1> QED BY <1>1, <1>2

\* The linked nodes always form one list from m_head.
THEOREM AlwaysOrdered == Spec => []Ordered
BY InitOrdered, OrderedStep, Inductive, PTL DEF Spec

-----------------------------------------------------------------------------
(* What the steps do to the other variables of SharedList *)

\* The handles that node n is kept for, of the records that are pushed.
KeptBy(n) == {h \in OpenHandles : \E z \in Pushed : zombie_node[z] = n /\ m_zombie[h] \in below[z]}

\* Facts about a list that exists, before a step ...
LEMMA Views ==
  IInv /\ dtor = "none" =>
    /\ \A n \in Nodes : KeptFor(n) = KeptBy(n)
    /\ \A h \in Handles : pc[h] = "retire" => Retiring = cursor[h] /\ m_write_mutex = h /\ cursor[h] # NULL
    /\ (\A h \in Handles : pc[h] # "retire") => Retiring = NULL
    /\ \A h \in Handles : m_write_mutex = h /\ pc[h] # "retire" => Retiring = NULL
    /\ m_write_mutex = NULL => Retiring = NULL
    /\ \A h \in OpenHandles : m_zombie[h] \in Pushed
<1> SUFFICES ASSUME IInv, dtor = "none"
    PROVE /\ \A n \in Nodes : KeptFor(n) = KeptBy(n)
          /\ \A h \in Handles : pc[h] = "retire" => Retiring = cursor[h] /\ m_write_mutex = h /\ cursor[h] # NULL
          /\ (\A h \in Handles : pc[h] # "retire") => Retiring = NULL
          /\ \A h \in Handles : m_write_mutex = h /\ pc[h] # "retire" => Retiring = NULL
          /\ m_write_mutex = NULL => Retiring = NULL
          /\ \A h \in OpenHandles : m_zombie[h] \in Pushed
  OBVIOUS
<1>1. \A n \in Nodes : KeptFor(n) = KeptBy(n)
  BY PushedFacts DEF KeptFor, KeptBy
<1>2. \A h \in Handles : pc[h] = "retire" => Retiring = cursor[h] /\ m_write_mutex = h /\ cursor[h] # NULL
  BY NullAssumption DEF IInv, WriterInv, Retiring
<1>3. (\A h \in Handles : pc[h] # "retire") => Retiring = NULL
  BY DEF IInv, TypeOK, Retiring
<1>4. \A h \in Handles : m_write_mutex = h /\ pc[h] # "retire" => Retiring = NULL
  BY DEF Retiring
<1>5. m_write_mutex = NULL => Retiring = NULL
  BY DEF Retiring
<1>6. \A h \in OpenHandles : m_zombie[h] \in Pushed
  BY PushedFacts DEF OpenHandles, Entered
<1> QED BY <1>1, <1>2, <1>3, <1>4, <1>5, <1>6

\* ... and after it.
LEMMA ViewsNext ==
  (IInv /\ dtor = "none" =>
    /\ \A n \in Nodes : KeptFor(n) = KeptBy(n)
    /\ \A h \in Handles : pc[h] = "retire" => Retiring = cursor[h] /\ m_write_mutex = h /\ cursor[h] # NULL
    /\ (\A h \in Handles : pc[h] # "retire") => Retiring = NULL
    /\ \A h \in Handles : m_write_mutex = h /\ pc[h] # "retire" => Retiring = NULL
    /\ m_write_mutex = NULL => Retiring = NULL
    /\ \A h \in OpenHandles : m_zombie[h] \in Pushed)'
BY Views, PTL

\* A step of a list that exists before and after it, with the facts that hold
\* of every state it can be in.
Stays == IInv /\ IInv' /\ dtor = "none" /\ dtor' = "none"

\* Who is kept for what depends on the pushed records and the open handles.
LEMMA KeptFrame ==
  ASSUME Stays, Pushed' = Pushed, NEW H,
         \A z \in Pushed : below'[z] = below[z] /\ zombie_node'[z] = zombie_node[z],
         \A g \in OpenHandles : m_zombie'[g] = m_zombie[g],
         OpenHandles' = OpenHandles \ H
  PROVE  \A n \in Nodes : KeptFor(n)' = KeptFor(n) \ H
<1> TAKE n \in Nodes
<1>1. KeptFor(n) = KeptBy(n) /\ KeptFor(n)' = KeptBy(n)'
  BY Views, ViewsNext DEF Stays
<1>2. KeptBy(n)' = KeptBy(n) \ H
  BY DEF KeptBy
<1> QED BY <1>1, <1>2

\* Actions that push no record and free none also leave the others as they are.
LEMMA RecordsKept ==
  ASSUME IInv, NEW h \in Handles, KeepsStack(h)
  PROVE  /\ Pushed' = Pushed
         /\ \A z \in Pushed : below'[z] = below[z] /\ zombie_node'[z] = zombie_node[z]
         /\ \A g \in OpenHandles : m_zombie'[g] = m_zombie[g]
<1> USE NullAssumption
<1>1. Pushed' = Pushed /\ below' = below
  BY PushedFrame DEF IInv
<1>2. CASE (\E write \in BOOLEAN : Access(h, write)) \/ Unlink(h)
  BY <1>1, <1>2 DEF IInv, TypeOK, Access, Unlink, TakeOut, NewRecord, Pushed, OpenHandles, localVars
<1>3. CASE EnlistRetry(h) \/ LockMutex(h) \/ RetireRetry(h)
  BY <1>1, <1>3 DEF EnlistRetry, LockMutex, RetireRetry, ReloadHead, localVars, recordVars
<1>4. CASE Read(h) \/ PushFront(h) \/ PushBack(h) \/ Emplace(h) \/ EraseAgain(h)
  BY <1>1, <1>4 DEF Read, Begin, Advance, PushFront, PushBack, Emplace, EmplaceAnywhere, EraseAgain,
       UnchangedByInsert, localVars, recordVars
<1>5. CASE Unlock(h) \/ WalkOn(h) \/ WalkBlocked(h) \/ WalkLast(h) \/ ReapEnd(h) \/ Leave(h)
  BY <1>1, <1>5 DEF IInv, TypeOK, Unlock, WalkOn, WalkBlocked, WalkLast, ReapEnd, Leave, UnchangedByWalk,
       OpenHandles, recordVars
<1> QED BY <1>2, <1>3, <1>4, <1>5 DEF KeepsStack

\* The actions that open no handle and close none.
KeepsOpen(h) ==
  \/ (\E write \in BOOLEAN : Access(h, write)) \/ EnlistRetry(h) \/ LockMutex(h)
  \/ Read(h) \/ PushFront(h) \/ PushBack(h) \/ Emplace(h) \/ Unlink(h) \/ RetireRetry(h) \/ EraseAgain(h)
  \/ WalkOn(h) \/ WalkBlocked(h) \/ WalkLast(h) \/ ReapEnd(h) \/ Leave(h)

LEMMA OpenKept ==
  ASSUME IInv, NEW h \in Handles, KeepsOpen(h)
  PROVE  OpenHandles' = OpenHandles
<1>1. CASE (\E write \in BOOLEAN : Access(h, write)) \/ LockMutex(h) \/ Unlink(h)
             \/ WalkBlocked(h) \/ WalkLast(h) \/ ReapEnd(h) \/ Leave(h)
  BY <1>1 DEF IInv, TypeOK, Access, LockMutex, Unlink, TakeOut, Writing, Reading, WalkBlocked, WalkLast,
       ReapEnd, Leave, OpenHandles
<1>2. UNCHANGED pc => OpenHandles' = OpenHandles
  BY DEF OpenHandles
<1>3. CASE EnlistRetry(h) \/ Read(h) \/ PushFront(h) \/ PushBack(h) \/ Emplace(h) \/ RetireRetry(h)
             \/ EraseAgain(h) \/ WalkOn(h)
  BY <1>2, <1>3 DEF EnlistRetry, Read, Begin, Advance, PushFront, PushBack, Emplace, EmplaceAnywhere,
       UnchangedByInsert, RetireRetry, EraseAgain, WalkOn
<1> QED BY <1>1, <1>3 DEF KeepsOpen

\* So they leave alone what the erased nodes are kept for.
LEMMA WatchersKept ==
  ASSUME Stays, NEW h \in Handles, KeepsOpen(h)
  PROVE  OpenHandles' = OpenHandles /\ \A n \in Nodes : KeptFor(n)' = KeptFor(n)
<1>1. KeepsStack(h)
  BY DEF KeepsOpen, KeepsStack
<1>2. OpenHandles' = OpenHandles \ {}
  BY OpenKept DEF Stays
<1>3. \A n \in Nodes : KeptFor(n)' = KeptFor(n) \ {}
  BY <1>1, <1>2, RecordsKept, KeptFrame DEF Stays
<1> QED BY <1>2, <1>3

\* What leaves the nodes alone leaves the list as it is.
LEMMA ElementsKept ==
  ASSUME Stays, Ordered, NEW h \in Handles, KeepsNodes(h) \/ Reap(h)
  PROVE  Elements' = Elements
<1>1. PICK s \in Seq(Nodes) : IsList(s)
  BY DEF Ordered, Stays
<1>2. IsList(s)'
  BY <1>1, NodesKept, ReapKeeps, ListFrame DEF Linked, Stays
<1> QED BY <1>1, <1>2, ElementsAre, ElementsNext

-----------------------------------------------------------------------------
(* One lemma per step of SharedList *)

\* The erased nodes lead where they led.
SameTrail == deleted' = deleted /\ \A n \in deleted : next'[n] = next[n]

SameKept == \A n \in Nodes : KeptFor(n)' = KeptFor(n)

SameCursor == \A g \in Handles : cursor'[g] = cursor[g]

\* No step of the list.
LEMMA StutterMaps ==
  ASSUME Stays, SameTrail, SameKept, SameCursor,
         UNCHANGED <<Elements, Retiring, OpenHandles, m_write_mutex>>
  PROVE  UNCHANGED Shared!vars
BY DEF Stays, Exists, SameTrail, SameKept, SameCursor, Shared!vars

\* The push of the record of a handle opens it.
LEMMA EnlistOpens ==
  ASSUME Stays, Ordered, NEW h \in Handles, Enlist(h)
  PROVE  Shared!Open(h)
<1>1. h \notin OpenHandles /\ OpenHandles' = OpenHandles \cup {h} /\ pc[h] = "enlist"
  BY DEF Stays, IInv, TypeOK, Enlist, OpenHandles
<1>2. Elements' = Elements /\ SameTrail /\ SameCursor /\ UNCHANGED m_write_mutex
  BY ElementsKept, NodesKept DEF KeepsNodes, SameTrail, SameCursor, Enlist, localVars
<1>3. Retiring' = Retiring
  BY DEF Stays, IInv, TypeOK, Enlist, Retiring, localVars
<1>4. SameKept
  <2> SUFFICES ASSUME NEW n \in Nodes PROVE KeptFor(n)' = KeptFor(n)
    BY DEF SameKept
  <2>0. KeptFor(n) = KeptBy(n) /\ KeptFor(n)' = KeptBy(n)'
    BY Views, ViewsNext DEF Stays
  <2>1. PICK x \in zombieHeap \ Pushed : /\ x = m_zombie[h] /\ Pushed' = Pushed \cup {x}
                                         /\ \A z \in Pushed : below'[z] = below[z]
    BY PushedEnlist DEF Stays, IInv
  <2>2. zombie_node' = zombie_node /\ m_zombie' = m_zombie /\ zombie_node[x] = NULL
    BY <1>1, <2>1 DEF Stays, IInv, GuardInv, Enlist, PushRecord, recordVars, localVars
  <2>3. n # NULL
    BY NullAssumption
  <2>4. \A z \in Pushed : x \notin below[z]
    BY <2>1 DEF Stays, IInv, OrderInv
  <2> QED BY <1>1, <2>0, <2>1, <2>2, <2>3, <2>4 DEF KeptBy
<1> QED BY <1>1, <1>2, <1>3, <1>4 DEF Stays, Exists, SameTrail, SameKept, SameCursor, Shared!Open

\* The lock of m_write_mutex makes it the writer.
LEMMA LockWrites ==
  ASSUME Stays, Ordered, NEW h \in Handles, LockMutex(h)
  PROVE  Shared!LockWrite(h)
<1>1. h \in OpenHandles /\ m_write_mutex = NULL /\ m_write_mutex' = h
  BY DEF LockMutex, OpenHandles
<1>2. OpenHandles' = OpenHandles /\ SameKept
  BY WatchersKept DEF KeepsOpen, SameKept
<1>3. Elements' = Elements /\ SameTrail /\ SameCursor
  BY ElementsKept, NodesKept DEF KeepsNodes, SameTrail, SameCursor, LockMutex, localVars
<1>4. Retiring' = Retiring
  <2>1. pc'[h] # "retire"
    BY DEF Stays, IInv, TypeOK, LockMutex
  <2> QED BY <1>1, <2>1, Views, ViewsNext DEF Stays
<1> QED BY <1>1, <1>2, <1>3, <1>4 DEF Stays, Exists, SameTrail, SameKept, SameCursor, Shared!LockWrite

\* A handle between two calls is not in the middle of erase().
LEMMA ReadyAt ==
  ASSUME Stays, NEW h \in Handles, pc[h] = "open"
  PROVE  Shared!Ready(h)
BY Views DEF Stays, Exists, OpenHandles, Shared!Ready

\* begin() leads to the first element.
LEMMA BeginMaps ==
  ASSUME Stays, Ordered, NEW h \in Handles, Begin(h)
  PROVE  Shared!Begin(h)
<1>1. Shared!Ready(h)
  BY ReadyAt DEF Begin, Reading
<1>2. OpenHandles' = OpenHandles /\ SameKept
  BY WatchersKept DEF KeepsOpen, SameKept, Read
<1>3. Elements' = Elements /\ SameTrail /\ UNCHANGED <<m_write_mutex, Retiring>>
  <2>1. KeepsNodes(h)
    BY DEF KeepsNodes, Read
  <2>2. Retiring' = Retiring
    <3>1. m_write_mutex' = m_write_mutex /\ pc' = pc /\ cursor' = [cursor EXCEPT ![h] = m_head] /\ pc[h] = "open"
      BY DEF Begin, Reading
    <3> QED BY <3>1 DEF Stays, IInv, TypeOK, Retiring
  <2> QED BY <2>1, <2>2, ElementsKept, NodesKept DEF SameTrail, Begin
<1>4. m_head = Shared!First(Elements)
  <2>1. PICK s \in Seq(Nodes) : IsList(s) /\ Elements = s
    BY ElementsAre DEF Ordered, Stays
  <2>2. s = <<>> <=> Len(s) = 0
    OBVIOUS
  <2>3. m_head = Nth(s, 1) /\ Len(s) \in Nat
    BY <2>1 DEF IsList, Leads
  <2>4. Len(s) # 0 => 1 \in 1 .. Len(s)
    BY <2>3
  <2> QED BY <2>1, <2>2, <2>3, <2>4 DEF Nth, Shared!First
<1>5. cursor' = [cursor EXCEPT ![h] = m_head] /\ cursor \in [Handles -> Nodes \cup {NULL}]
  BY DEF Begin, Stays, IInv, TypeOK
<1> QED BY <1>1, <1>2, <1>3, <1>4, <1>5 DEF Stays, Exists, SameTrail, SameKept, Shared!Begin

\* The place of a linked node, and what operator++ makes of it.
LEMMA PlaceOf ==
  ASSUME NEW s \in Seq(Nodes), IsList(s), dtor = "none", NEW k \in 1 .. Len(s)
  PROVE  /\ Shared!Index(s[k]) = k
         /\ Shared!After(s[k]) = next[s[k]]
<1>1. Elements = s /\ Len(s) \in Nat /\ DOMAIN s = 1 .. Len(s)
  BY ElementsAre
<1>2. Shared!Index(s[k]) = k
  BY <1>1 DEF Shared!Index, IsList, Leads, Exists
<1>3. next[s[k]] = Nth(s, k + 1)
  BY DEF IsList, Leads
<1>4. k + 1 \in 1 .. Len(s) <=> k # Len(s)
  <2>1. Len(s) \in Nat /\ k \in Nat /\ 1 <= k /\ k <= Len(s)
    OBVIOUS
  <2> QED BY <2>1
<1> QED BY <1>1, <1>2, <1>3, <1>4 DEF Shared!After, Nth, Exists

\* operator++ follows next, on a linked node and on an erased one.
LEMMA FollowIs ==
  ASSUME Stays, Ordered, NEW c \in nodeHeap
  PROVE  Shared!Follow(c) = next[c]
<1>1. c \in Nodes
  BY DEF Stays, IInv, TypeOK
<1>2. CASE c \in deleted
  BY <1>1, <1>2 DEF Stays, Exists, Shared!Follow
<1>3. CASE c \notin deleted
  <2>1. PICK s \in Seq(Nodes) : IsList(s)
    BY DEF Ordered, Stays
  <2>2. PICK k \in 1 .. Len(s) : s[k] = c
    BY <1>3, <2>1 DEF IsList, Leads, Linked
  <2>3. Shared!After(c) = next[c]
    BY <2>1, <2>2, PlaceOf DEF Stays
  <2> QED BY <1>3, <2>3 DEF Stays, Exists, Shared!Follow
<1> QED BY <1>2, <1>3

\* The linked nodes are those of the list.
LEMMA LinkedIs ==
  ASSUME dtor = "none", Ordered
  PROVE  Shared!Linked = Linked
<1>1. PICK s \in Seq(Nodes) : IsList(s) /\ Elements = s
  BY ElementsAre DEF Ordered
<1>2. \A n : n \in Linked <=> \E k \in DOMAIN s : s[k] = n
  BY <1>1 DEF IsList, Leads
<1>3. Shared!Linked = {s[k] : k \in DOMAIN s}
  BY <1>1 DEF Shared!Linked, Shared!Range, Exists
<1> QED BY <1>2, <1>3

\* operator++, and erase() of an element that is erased already.
LEMMA AdvanceMaps ==
  ASSUME Stays, Ordered, NEW h \in Handles, Advance(h)
  PROVE  Shared!Advance(h)
<1>1. Shared!Ready(h)
  BY ReadyAt DEF Advance, Reading
<1>2. OpenHandles' = OpenHandles /\ SameKept
  BY WatchersKept DEF KeepsOpen, SameKept, Read
<1>3. Elements' = Elements /\ SameTrail /\ UNCHANGED <<m_write_mutex, Retiring>>
  <2>1. KeepsNodes(h)
    BY DEF KeepsNodes, Read
  <2>2. Retiring' = Retiring
    <3>1. m_write_mutex' = m_write_mutex /\ pc' = pc /\ pc[h] = "open"
          /\ cursor' = [cursor EXCEPT ![h] = next[cursor[h]]]
      BY DEF Advance, Reading
    <3> QED BY <3>1 DEF Stays, IInv, TypeOK, Retiring
  <2> QED BY <2>1, <2>2, ElementsKept, NodesKept DEF SameTrail, Advance
<1>4. /\ cursor[h] # NULL /\ cursor[h] \in nodeHeap
      /\ cursor' = [cursor EXCEPT ![h] = next[cursor[h]]]
      /\ cursor \in [Handles -> Nodes \cup {NULL}]
  BY DEF Advance, Stays, IInv, TypeOK, CursorInv
<1>5. Shared!Follow(cursor[h]) = next[cursor[h]]
  BY <1>4, FollowIs
<1>6. [g \in Handles |-> cursor[g]]' = [[g \in Handles |-> cursor[g]] EXCEPT ![h] = next[cursor[h]]]
  BY <1>4
<1>7. (IF Exists THEN cursor[h] ELSE NULL) = cursor[h]
  BY DEF Stays, Exists
<1> QED BY <1>1, <1>2, <1>3, <1>4, <1>5, <1>6, <1>7 DEF Stays, Exists, SameTrail, SameKept, Shared!Advance

\* What a write call leaves alone.
LEMMA InsertKeeps ==
  ASSUME NEW h \in Handles, PushFront(h) \/ PushBack(h) \/ Emplace(h)
  PROVE  /\ pc[h] = "open" /\ h \in writer
         /\ UNCHANGED <<m_write_mutex, pc, cursor, Retiring, OpenHandles>>
BY DEF PushFront, PushBack, Emplace, EmplaceAnywhere, Writing, Reading, UnchangedByInsert, localVars,
   Retiring, OpenHandles

\* push_front, push_back and emplace insert a new element.
LEMMA InsertMaps ==
  ASSUME Stays, Ordered, NEW h \in Handles, PushFront(h) \/ PushBack(h) \/ Emplace(h)
  PROVE  Shared!Insert(h)
<1>1. PICK s \in Seq(Nodes) : IsList(s) /\ Elements = s
  BY ElementsAre DEF Ordered, Stays
<1>2. PICK n \in Nodes \ nodeHeap, k \in 1 .. Len(s) + 1 : Inserts(s, n, k)
  BY <1>1, WriteInserts DEF Stays
<1>3. Elements' = InsertAt(s, k, n)
  BY <1>2, InsertedAt, ElementsNext DEF Inserts
<1>4. SameTrail
  BY <1>2 DEF Inserts, SameTrail
<1>5. Shared!Ready(h) /\ m_write_mutex = h
  BY InsertKeeps, ReadyAt DEF Stays, IInv, WriterInv
<1>6. /\ SameKept
      /\ UNCHANGED <<m_write_mutex, cursor, Retiring, OpenHandles>>
  BY WatchersKept, InsertKeeps DEF KeepsOpen, SameKept
<1>7. n \in Nodes \ (Shared!Linked \cup deleted)
  BY LinkedIs DEF Stays, IInv, RetiredOnce, Linked
<1>8. Shared!InsertAt(s, k, n) = InsertAt(s, k, n)
  BY DEF Shared!InsertAt, InsertAt
<1> QED BY <1>1, <1>3, <1>4, <1>5, <1>6, <1>7, <1>8 DEF Stays, Exists, SameTrail, SameKept, Shared!Insert

\* The first half of erase() takes the element out.
LEMMA UnlinkMaps ==
  ASSUME Stays, Ordered, NEW h \in Handles, Unlink(h)
  PROVE  Shared!Erase(h)
<1>1. PICK s \in Seq(Nodes) : IsList(s) /\ Elements = s
  BY ElementsAre DEF Ordered, Stays
<1>2. PICK k \in 1 .. Len(s) : s[k] = cursor[h] /\ Removes(s, k)
  BY <1>1, UnlinkRemoves DEF Stays
<1> DEFINE c == cursor[h]
<1>3. Elements' = RemoveAt(s, k)
  BY <1>2, RemovedAt, ElementsNext DEF Removes
<1>4. /\ c \in Linked /\ c \in Nodes /\ c \notin deleted
      /\ Shared!Index(c) = k /\ Shared!Follow(c) = next[c]
  BY <1>1, <1>2, PlaceOf, FollowIs, ListEnds DEF Stays, Linked
<1>5. /\ deleted' = deleted \cup {c}
      /\ \A n \in deleted \cup {c} : next'[n] = next[n]
  BY <1>2 DEF Removes
<1>6. pc[h] = "open" /\ h \in writer /\ pc'[h] = "retire" /\ UNCHANGED <<m_write_mutex, cursor>>
  BY DEF Unlink, TakeOut, Writing, Reading, Stays, IInv, TypeOK
<1>7. Shared!Ready(h) /\ m_write_mutex = h
  BY <1>6, ReadyAt DEF Stays, IInv, WriterInv
<1>8. Retiring' = c
  BY <1>6, ViewsNext DEF Stays
<1>9. SameKept /\ OpenHandles' = OpenHandles
  BY WatchersKept DEF KeepsOpen, SameKept
<1>10. [n \in Nodes |-> IF n \in deleted THEN next[n] ELSE NULL]'
         = [[n \in Nodes |-> IF n \in deleted THEN next[n] ELSE NULL] EXCEPT ![c] = next[c]]
  BY <1>4, <1>5
<1>11. c \in Shared!Linked
  BY <1>4, LinkedIs DEF Stays
<1>12. Shared!RemoveAt(s, k) = RemoveAt(s, k)
  BY DEF Shared!RemoveAt, RemoveAt
<1> QED BY <1>1, <1>3, <1>4, <1>5, <1>6, <1>7, <1>8, <1>9, <1>10, <1>11, <1>12
        DEF Stays, Exists, SameKept, Shared!Erase

\* The second half of erase() keeps the element for the handles that are open.
LEMMA RetireMaps ==
  ASSUME Stays, Ordered, NEW h \in Handles, Retire(h)
  PROVE  Shared!Retire(h)
<1> DEFINE c == cursor[h]
<1>1. /\ pc[h] = "retire" /\ Retiring = c /\ m_write_mutex = h /\ c # NULL
      /\ c \in Nodes /\ c \in nodeHeap
  BY Views DEF Stays, IInv, TypeOK, CursorInv, Retire
<1>2. pc' = [pc EXCEPT ![h] = "open"] /\ pc'[h] = "open" /\ UNCHANGED <<m_write_mutex, m_zombie, zombie_node>>
  BY DEF Stays, IInv, TypeOK, Retire, PushRecord, recordVars
<1>3. Retiring' = NULL
  BY <1>1, <1>2, ViewsNext DEF Stays
<1>4. OpenHandles' = OpenHandles
  BY <1>1, <1>2 DEF Stays, IInv, TypeOK, OpenHandles
<1>5. Elements' = Elements /\ SameTrail
  BY ElementsKept, NodesKept DEF KeepsNodes, SameTrail
<1>6. Shared!Follow(c) = next[c]
  BY <1>1, FollowIs
<1>7. \E d \in {c, next[c]} : cursor' = [cursor EXCEPT ![h] = d]
  BY DEF Retire
<1>8. PICK x \in zombieHeap \ Pushed : /\ x = fresh[h] /\ Pushed' = Pushed \cup {x}
                                       /\ \A z \in Pushed : below'[z] = below[z]
  BY PushedRetire DEF Stays, IInv
<1>9. zombie_node[x] = c
  BY <1>1, <1>8 DEF Stays, IInv, WriterInv
<1>10. below'[x] = Pushed
  <2>1. Stack = Pushed /\ x \in Zombies
    BY <1>8, PushedFacts DEF Stays, IInv, TypeOK
  <2> QED BY <1>8, <2>1 DEF Retire, PushRecord, Stays, IInv, TypeOK
<1>11. ASSUME NEW n \in Nodes PROVE KeptFor(n)' = IF n = c THEN OpenHandles ELSE KeptFor(n)
  <2>0. KeptFor(n) = KeptBy(n) /\ KeptFor(n)' = KeptBy(n)'
    BY Views, ViewsNext DEF Stays
  <2>1. CASE n # c
    <3>1. KeptBy(n)' = KeptBy(n)
      BY <1>2, <1>4, <1>8, <1>9, <2>1 DEF KeptBy
    <3> QED BY <2>0, <2>1, <3>1
  <2>2. CASE n = c
    <3>1. \A g \in OpenHandles : m_zombie[g] \in Pushed
      BY Views DEF Stays
    <3>2. KeptBy(n)' = OpenHandles
      BY <1>2, <1>4, <1>8, <1>9, <1>10, <2>2, <3>1 DEF KeptBy
    <3> QED BY <2>0, <2>2, <3>2
  <2> QED BY <2>1, <2>2
<1>12. [n \in Nodes |-> KeptFor(n)]' = [[n \in Nodes |-> KeptFor(n)] EXCEPT ![c] = OpenHandles]
  BY <1>1, <1>11
<1>13. \E d \in {c, next[c]} : [g \in Handles |-> cursor[g]]' = [[g \in Handles |-> cursor[g]] EXCEPT ![h] = d]
  BY <1>7 DEF Stays, IInv, TypeOK
<1> QED BY <1>1, <1>2, <1>3, <1>4, <1>5, <1>6, <1>12, <1>13 DEF Stays, Exists, SameTrail, Shared!Retire

\* unlock() closes the handle before it looks at any record.
LEMMA UnlockCloses ==
  ASSUME Stays, Ordered, NEW h \in Handles, Unlock(h)
  PROVE  Shared!Close(h)
<1>1. /\ pc[h] = "open" /\ pc' = [pc EXCEPT ![h] = "walk"]
      /\ cursor' = [cursor EXCEPT ![h] = NULL]
      /\ m_write_mutex' = IF h \in writer THEN NULL ELSE m_write_mutex
  BY DEF Unlock
<1>2. Shared!Ready(h)
  BY <1>1, ReadyAt
<1>3. OpenHandles' = OpenHandles \ {h}
  BY <1>1 DEF Stays, IInv, TypeOK, OpenHandles
<1>4. \A n \in Nodes : KeptFor(n)' = KeptFor(n) \ {h}
  BY <1>3, RecordsKept, KeptFrame DEF KeepsStack, Stays
<1>5. Elements' = Elements /\ SameTrail
  BY ElementsKept, NodesKept DEF KeepsNodes, SameTrail
<1>6. m_write_mutex' = IF m_write_mutex = h THEN NULL ELSE m_write_mutex
  BY <1>1 DEF Stays, IInv, WriterInv
<1>7. Retiring' = Retiring
  <2>1. CASE m_write_mutex = h
    BY <1>1, <1>6, <2>1, Views, ViewsNext DEF Stays
  <2>2. CASE m_write_mutex # h
    BY <1>1, <1>6, <2>2 DEF Stays, IInv, TypeOK, Retiring
  <2> QED BY <2>1, <2>2
<1>8. [g \in Handles |-> cursor[g]]' = [[g \in Handles |-> cursor[g]] EXCEPT ![h] = NULL]
  BY <1>1 DEF Stays, IInv, TypeOK
<1> QED BY <1>2, <1>3, <1>4, <1>5, <1>6, <1>7, <1>8 DEF Stays, Exists, SameTrail, Shared!Close

\* What unlock() frees with a record is given up by every handle; a record
\* without a node is none of the list's affairs.
LEMMA ReapMaps ==
  ASSUME Stays, Ordered, NEW h \in Handles, Reap(h)
  PROVE  (\E n \in Nodes : Shared!Reclaim(n)) \/ UNCHANGED Shared!vars
<1> DEFINE z == scan[h]  n == zombie_node[z]
<1>1. /\ z \in Pushed /\ z \in zombieHeap /\ z \in Zombies
      /\ below[m_zombie[h]] = {z} \cup below[z]
      /\ \A y \in below[m_zombie[h]] : owner[y] = NULL
  BY PushedFacts DEF Stays, IInv, TypeOK, WalkInv, WalkOf, Reap, Pushed
<1>2. \A g \in OpenHandles : m_zombie[g] # z /\ m_zombie[g] \notin below[z]
  BY <1>1, NullAssumption DEF Stays, IInv, GuardInv, OpenHandles
<1>3. Pushed' = Pushed \ {z}
  BY PushedReap DEF Stays, IInv
<1>4. /\ \A y \in Pushed' : zombie_node'[y] = zombie_node[y] /\ below'[y] = below[y] \ {z}
      /\ UNCHANGED <<m_write_mutex, pc, m_zombie, cursor>>
  BY <1>1, <1>3 DEF Stays, IInv, TypeOK, Reap, FreeRecord, Pushed
<1>5. OpenHandles' = OpenHandles /\ Retiring' = Retiring
  BY <1>4 DEF OpenHandles, Retiring
<1>6. SameKept
  <2> SUFFICES ASSUME NEW m \in Nodes PROVE KeptBy(m)' = KeptBy(m)
    BY Views, ViewsNext DEF Stays, SameKept
  <2> QED BY <1>1, <1>2, <1>3, <1>4, <1>5 DEF KeptBy
<1>7. Elements' = Elements
  BY ElementsKept
<1>8. /\ n # NULL => n \in deleted
      /\ deleted' = deleted \ {n}
      /\ \A m \in Nodes : m # n => next'[m] = next[m]
      /\ \A m \in deleted : m \in Nodes
  BY ReapKeeps DEF Stays, IInv, TypeOK
<1>9. CASE n = NULL
  <2>1. NULL \notin deleted
    BY <1>8, NullAssumption
  <2>2. SameTrail /\ SameCursor
    BY <1>4, <1>8, <1>9, <2>1, NullAssumption DEF SameTrail, SameCursor
  <2> QED BY <1>4, <1>5, <1>6, <1>7, <2>2, StutterMaps
<1>10. CASE n # NULL
  <2>1. n \in deleted /\ n \in Nodes
    BY <1>8, <1>10
  <2>2. KeptFor(n) = {}
    <3>1. \A y \in Pushed : zombie_node[y] = n => y = z
      BY <1>1, <1>10 DEF Stays, IInv, RetiredOnce, Pushed
    <3>2. KeptBy(n) = {}
      BY <1>2, <3>1 DEF KeptBy
    <3> QED BY <2>1, <3>2, Views DEF Stays
  <2>3. n # Retiring
    <3> SUFFICES ASSUME n = Retiring PROVE FALSE
      OBVIOUS
    <3>1. PICK w \in Handles : pc[w] = "retire" /\ n = cursor[w]
      BY <1>10 DEF Retiring, Stays, IInv, TypeOK
    <3>2. zombie_node[fresh[w]] = n /\ fresh[w] \in zombieHeap /\ fresh[w] \notin Pushed
      BY <3>1 DEF Stays, IInv, WriterInv, Pushed, UnderConstruction
    <3>3. fresh[w] = z
      BY <1>1, <1>10, <3>2 DEF Stays, IInv, RetiredOnce
    <3> QED BY <1>1, <3>2, <3>3
  <2>4. [m \in Nodes |-> IF m \in deleted THEN next[m] ELSE NULL]'
        = [[m \in Nodes |-> IF m \in deleted THEN next[m] ELSE NULL] EXCEPT ![n] = NULL]
    BY <1>8, <2>1
  <2>5. PICK m \in Nodes : m = n
    BY <2>1
  <2>6. Shared!Reclaim(m)
    BY <1>4, <1>5, <1>6, <1>7, <1>8, <2>1, <2>2, <2>3, <2>4, <2>5 DEF Stays, Exists, SameKept, Shared!Reclaim
  <2> QED BY <2>6
<1> QED BY <1>9, <1>10

\* Between the push of its record and the end of its lock a handle does nothing
\* to the list, and neither do the steps of unlock() after the first.
LEMMA QuietMaps ==
  ASSUME Stays, Ordered, NEW h \in Handles,
         \/ \E write \in BOOLEAN : Access(h, write)
         \/ EnlistRetry(h) \/ RetireRetry(h)
         \/ WalkOn(h) \/ WalkBlocked(h) \/ WalkLast(h) \/ ReapEnd(h) \/ Leave(h)
  PROVE  UNCHANGED Shared!vars
<1>1. OpenHandles' = OpenHandles /\ SameKept
  BY WatchersKept DEF KeepsOpen, SameKept
<1>2. Elements' = Elements /\ SameTrail
  BY ElementsKept, NodesKept DEF KeepsNodes, SameTrail
<1>3. SameCursor /\ UNCHANGED m_write_mutex
  BY DEF SameCursor, Access, EnlistRetry, RetireRetry, WalkOn, WalkBlocked, WalkLast, ReapEnd, Leave,
     UnchangedByWalk, localVars
<1>4. \A g \in Handles : pc[g] = "retire" <=> pc'[g] = "retire"
  BY DEF Access, EnlistRetry, RetireRetry, WalkOn, WalkBlocked, WalkLast, ReapEnd, Leave,
     UnchangedByWalk, Stays, IInv, TypeOK
<1>5. Retiring' = Retiring
  BY <1>3, <1>4 DEF Retiring, SameCursor, Stays, IInv, TypeOK
<1> QED BY <1>1, <1>2, <1>3, <1>5, StutterMaps

\* ~rcu_list ends the list with its first step.
LEMMA DestroyMaps ==
  ASSUME IInv, Destroy
  PROVE  Shared!Destroy
<1>1. m_write_mutex = NULL /\ dtor = "none" /\ dtor' = "nodes"
  BY DEF Destroy
<1>2. Retiring = NULL
  BY <1>1, Views
<1> QED BY <1>1, <1>2 DEF Exists, Shared!Destroy

\* What remains of a list that is destroyed is invisible.
LEMMA GoneMaps ==
  ASSUME [Next]_vars, dtor # "none"
  PROVE  UNCHANGED Shared!vars
<1>1. dtor' # "none"
  BY DEF Next, Lock, Access, Enlist, EnlistRetry, LockMutex, Read, Begin, Advance, Write, PushFront,
       PushBack, Emplace, EmplaceAnywhere, UnchangedByInsert, Unlink, TakeOut, Retire, RetireRetry,
       EraseAgain, Unlock, Unlocking, WalkOn, WalkBlocked, WalkLast, Reap, ReapEnd, Leave,
       UnchangedByWalk, Destructor, Destroy, DestroyNode, DestroyNodesEnd, DestroyZombie, DestroyEnd,
       dtorVars, vars
<1> QED BY <1>1 DEF Exists, Shared!vars

\* Every step is one of the list, or none.
LEMMA NextMaps ==
  IInv /\ IInv' /\ Ordered /\ [Next]_vars => [Shared!Next]_(Shared!vars)
<1> SUFFICES ASSUME IInv, IInv', Ordered, [Next]_vars PROVE [Shared!Next]_(Shared!vars)
  OBVIOUS
<1>1. CASE dtor # "none"
  BY <1>1, GoneMaps
<1>2. CASE Destructor /\ dtor = "none"
  <2>1. Destroy
    BY <1>2 DEF Destructor, DestroyNode, DestroyNodesEnd, DestroyZombie, DestroyEnd
  <2> QED BY <2>1, DestroyMaps DEF Shared!Next
<1>3. CASE dtor = "none" /\ ~Destructor
  <2>1. Stays
    BY <1>3, ExistsStays DEF Stays
  <2>2. ASSUME NEW h \in Handles, Lock(h) PROVE [Shared!Next]_(Shared!vars)
    <3>1. CASE Enlist(h)
      BY <2>1, <3>1, EnlistOpens DEF Shared!Next
    <3>2. CASE LockMutex(h)
      BY <2>1, <3>2, LockWrites DEF Shared!Next
    <3> QED BY <2>1, <2>2, <3>1, <3>2, QuietMaps DEF Lock
  <2>3. ASSUME NEW h \in Handles, Read(h) \/ EraseAgain(h) PROVE [Shared!Next]_(Shared!vars)
    <3>1. CASE Begin(h)
      BY <2>1, <3>1, BeginMaps DEF Shared!Next
    <3>2. CASE Advance(h)
      BY <2>1, <3>2, AdvanceMaps DEF Shared!Next
    <3> QED BY <2>3, <3>1, <3>2 DEF Read, EraseAgain
  <2>4. ASSUME NEW h \in Handles, PushFront(h) \/ PushBack(h) \/ Emplace(h)
        PROVE  [Shared!Next]_(Shared!vars)
    BY <2>1, <2>4, InsertMaps DEF Shared!Next
  <2>5. ASSUME NEW h \in Handles, Unlink(h) PROVE [Shared!Next]_(Shared!vars)
    BY <2>1, <2>5, UnlinkMaps DEF Shared!Next
  <2>6. ASSUME NEW h \in Handles, Retire(h) PROVE [Shared!Next]_(Shared!vars)
    BY <2>1, <2>6, RetireMaps DEF Shared!Next
  <2>7. ASSUME NEW h \in Handles, RetireRetry(h) PROVE [Shared!Next]_(Shared!vars)
    BY <2>1, <2>7, QuietMaps
  <2>8. ASSUME NEW h \in Handles, Unlock(h) PROVE [Shared!Next]_(Shared!vars)
    BY <2>1, <2>8, UnlockCloses DEF Shared!Next
  <2>9. ASSUME NEW h \in Handles, Unlocking(h) PROVE [Shared!Next]_(Shared!vars)
    <3>1. CASE Reap(h)
      BY <2>1, <3>1, ReapMaps DEF Shared!Next
    <3> QED BY <2>1, <2>9, <3>1, QuietMaps DEF Unlocking
  <2>10. CASE UNCHANGED vars
    <3>1. UNCHANGED <<Elements, Retiring, OpenHandles, m_write_mutex, deleted, next, cursor>> /\ SameKept
      BY <2>10 DEF vars, Elements, NodeAt, Retiring, OpenHandles, SameKept, KeptFor, Stack
    <3> QED BY <2>1, <3>1, StutterMaps DEF SameTrail, SameCursor
  <2> QED BY <1>3, <2>2, <2>3, <2>4, <2>5, <2>6, <2>7, <2>8, <2>9, <2>10 DEF Next, Write
<1> QED BY <1>1, <1>2, <1>3

\* The initial list is empty.
LEMMA InitMaps == Init => Shared!Init
<1> SUFFICES ASSUME Init PROVE Shared!Init
  OBVIOUS
<1>1. Elements = <<>>
  <2>1. <<>> \in Seq(Nodes) /\ Len(<<>>) = 0
    OBVIOUS
  <2>2. IsList(<<>>)
    BY <2>1 DEF Init, IsList, Leads, Linked, Nth
  <2> QED BY <2>1, <2>2, ElementsAre
<1>2. OpenHandles = {} /\ Retiring = NULL
  BY DEF Init, OpenHandles, Retiring
<1>3. \A n \in Nodes : KeptFor(n) = {}
  BY <1>2 DEF KeptFor
<1> QED BY <1>1, <1>2, <1>3 DEF Init, Exists, Shared!Init

\* For any number of handles and records and any finite number of nodes, what
\* access(), begin(), operator++, push_front, push_back, emplace, erase, unlock()
\* and the destructor do to nodes, links, records and owners is what SharedList
\* allows: each element kept for the handles that were open when it was retired.
THEOREM ListImplemented == Spec => ImplementsSharedList
BY InitMaps, NextMaps, Inductive, AlwaysOrdered, PTL DEF Spec, ImplementsSharedList, Shared!Spec

-----------------------------------------------------------------------------
(* What the destructor leaves behind *)

\* The nodes that ~rcu_list has not freed yet are the list from its n.
Remaining == dtor = "nodes" => \E s \in Seq(Nodes) : Leads(s, Linked, dnode, next)

\* ~rcu_list frees the first of them.
LEMMA RestLeads ==
  ASSUME IInv, Remaining, DestroyNode
  PROVE  Remaining'
<1>1. dtor = "nodes" /\ dnode # NULL /\ dnode \in Nodes /\ dnode' = next[dnode]
  BY DEF DestroyNode, IInv, TypeOK
<1>2. PICK s \in Seq(Nodes) : Leads(s, Linked, dnode, next)
  BY <1>1 DEF Remaining
<1>3. Len(s) \in Nat /\ Len(s) # 0 /\ 1 \in 1 .. Len(s) /\ dnode = s[1]
  <2>1. Len(s) \in Nat
    OBVIOUS
  <2>2. dnode = Nth(s, 1)
    BY <1>2 DEF Leads
  <2> QED BY <1>1, <2>1, <2>2 DEF Nth
<1>4. dnode' = Nth(s, 2)
  BY <1>1, <1>2, <1>3 DEF Leads
<1>5. dnode \in Linked
  BY <1>2, <1>3 DEF Leads
<1>6. Linked' = Linked \ {dnode} /\ \A m \in Linked \ {dnode} : next'[m] = next[m]
  BY <1>5 DEF DestroyNode, FreeNode, Linked, IInv, TypeOK
<1>7. Leads(RemoveAt(s, 1), Linked', dnode', next)
  <2>1. \A m \in Nodes : m # Nth(s, 1 - 1)
    BY NullAssumption DEF Nth
  <2>2. \A m \in Nodes : next[m] = IF m = Nth(s, 1 - 1) THEN Nth(s, 1 + 1) ELSE next[m]
    BY <2>1
  <2> QED BY <1>2, <1>3, <1>4, <1>6, <2>2, TakeLeads
<1>8. Leads(RemoveAt(s, 1), Linked', dnode', next')
  BY <1>6, <1>7 DEF Leads
<1>9. RemoveAt(s, 1) \in Seq(Nodes)
  BY <1>3, RemovedAt
<1> QED BY <1>8, <1>9 DEF Remaining

\* While ~rcu_list frees the nodes nothing else happens to the list.
LEMMA RemainingStep == IInv /\ Ordered /\ Remaining /\ [Next]_vars => Remaining'
<1> SUFFICES ASSUME IInv, Ordered, Remaining, [Next]_vars PROVE Remaining'
  OBVIOUS
<1>1. CASE DestroyNode
  BY <1>1, RestLeads
<1>2. CASE Destroy
  <2>1. PICK s \in Seq(Nodes) : IsList(s)
    BY <1>2 DEF Ordered, Destroy
  <2>2. Linked' = Linked /\ dnode' = m_head /\ next' = next
    BY <1>2 DEF Destroy, Linked, listVars
  <2>3. Leads(s, Linked', dnode', next')
    BY <2>1, <2>2 DEF IsList
  <2> QED BY <2>3 DEF Remaining
<1>3. CASE DestroyNodesEnd \/ DestroyZombie \/ DestroyEnd
  BY <1>3 DEF DestroyNodesEnd, DestroyZombie, DestroyEnd, Remaining
<1>4. CASE ~Destructor
  <2>1. UNCHANGED dtor
    BY <1>4, ExistsStays
  <2> SUFFICES ASSUME dtor = "nodes" PROVE Remaining'
    BY <2>1 DEF Remaining
  <2>2. UNCHANGED vars
    BY <1>4 DEF IInv, DtorInv, Next, Lock, Access, Enlist, EnlistRetry, LockMutex, Read, Begin, Advance,
       Reading, Write, Writing, PushFront, PushBack, Emplace, EmplaceAnywhere, Unlink, TakeOut, Retire,
       RetireRetry, EraseAgain, Unlock, Unlocking, WalkOn, WalkBlocked, WalkLast, Reap, ReapEnd, Leave
  <2> QED BY <2>2 DEF vars, Remaining, Linked, Leads
<1> QED BY <1>1, <1>2, <1>3, <1>4 DEF Destructor

\* With the loop over the nodes the last of them is gone.
LEMMA NoneLinked ==
  ASSUME Remaining, DestroyNodesEnd
  PROVE  Linked = {}
<1>1. PICK s \in Seq(Nodes) : Leads(s, Linked, NULL, next)
  BY DEF Remaining, DestroyNodesEnd
<1>2. Len(s) \in Nat /\ \A i \in 1 .. Len(s) : s[i] # NULL
  BY NullAssumption
<1>3. Nth(s, 1) = NULL
  BY <1>1 DEF Leads
<1>4. Len(s) = 0
  BY <1>2, <1>3 DEF Nth
<1> QED BY <1>1, <1>4 DEF Leads

\* A record that is freed carries no linked node.
LEMMA FreedNotLinked ==
  ASSUME IInv, NEW z \in zombieHeap, FreeRecord(z)
  PROVE  Linked' = Linked
<1>1. zombie_node[z] # NULL => zombie_node[z] \in deleted
  BY DEF IInv, RetiredOnce
<1>2. /\ deleted' = deleted \ {zombie_node[z]}
      /\ nodeHeap' = nodeHeap \ {zombie_node[z]}
  BY DEF FreeRecord, FreeNode
<1>3. NULL \notin nodeHeap
  BY NullAssumption DEF IInv, TypeOK
<1> QED BY <1>1, <1>2, <1>3 DEF Linked

\* ~rcu_list stops at the record of the handle that was opened last: every
\* other record lies below it.
LEMMA StopsAtGuard ==
  ASSUME IInv, LeakInv, DestroyEnd
  PROVE  LeakInv'
<1>1. /\ dtor = "zombies" /\ Top(dzombie) /\ Linked = {}
      /\ dzombie # NULL => owner[dzombie] # NULL
      /\ \A h \in Handles : pc[h] \in {"idle", "open"}
  BY DEF IInv, DtorInv, LeakInv, DestroyEnd
<1>2. /\ Pushed' = Pushed /\ Linked' = Linked /\ below' = below /\ zombie_node' = zombie_node
      /\ m_zombie' = m_zombie /\ pc' = pc /\ dzombie' = dzombie
  BY PushedDtorFrame DEF DtorKeepsStack, DestroyEnd, Linked, listVars, recordVars, localVars
<1>3. Top(dzombie)'
  BY <1>1, <1>2 DEF Top
<1>4. ASSUME dzombie # NULL
      PROVE  /\ zombie_node[dzombie] = NULL
             /\ pc[owner[dzombie]] = "open" /\ m_zombie[owner[dzombie]] = dzombie
             /\ owner[dzombie] \in Handles
  <2>1. dzombie \in zombieHeap /\ owner[dzombie] \in Handles
    BY <1>1, <1>4 DEF Top, Pushed, IInv, TypeOK
  <2>2. pc[owner[dzombie]] # "idle" /\ m_zombie[owner[dzombie]] = dzombie
    BY <1>1, <1>4, <2>1 DEF IInv, GuardInv
  <2> QED BY <1>1, <2>1, <2>2 DEF IInv, GuardInv
<1>5. ASSUME NEW z \in Pushed, Bare(z) PROVE \E h \in Handles : Frees(h, z)
  <2>1. dzombie # NULL /\ (z = dzombie \/ z \in below[dzombie])
    BY <1>1 DEF Top
  <2>2. z # dzombie
    BY <1>4, <1>5, <2>1 DEF Bare
  <2> QED BY <1>4, <2>1, <2>2 DEF Frees
<1>6. \A z \in Pushed : Bare(z)' <=> Bare(z)
  BY <1>2 DEF Bare
<1>7. \A h \in Handles : \A z : Frees(h, z)' <=> Frees(h, z)
  BY <1>2 DEF Frees
<1>8. \A h \in Handles : pc'[h] # "leave"
  BY <1>1, <1>2
<1>9. dzombie' # NULL => zombie_node'[dzombie'] = NULL
  BY <1>2, <1>4
<1>10. \A z \in Pushed' : Bare(z)' => Covered(z)'
  BY <1>2, <1>5, <1>6, <1>7, <1>8 DEF Covered
<1> QED BY <1>1, <1>2, <1>3, <1>9, <1>10 DEF LeakInv

\* The list is gone and handles that outlived it are given back.
Outlived == IInv /\ LeakInv /\ dtor = "done" /\ dtor' = "done"

\* The steps of unlock() that free nothing.
LEMMA GivenBack ==
  ASSUME Outlived, NEW h \in Handles,
         Unlock(h) \/ WalkOn(h) \/ WalkBlocked(h) \/ WalkLast(h) \/ ReapEnd(h) \/ Leave(h),
         \A z \in Pushed : Bare(z) => Covered(z)'
  PROVE  LeakInv'
<1>1. Pushed' = Pushed /\ below' = below
  BY PushedFrame DEF KeepsStack, Outlived, IInv
<1>2. UNCHANGED <<dzombie, zombie_node, Linked>>
  BY DEF Unlock, WalkOn, WalkBlocked, WalkLast, ReapEnd, Leave, UnchangedByWalk, Linked, listVars, recordVars,
     dtorVars
<1>3. \A z \in Pushed : Bare(z)' <=> Bare(z)
  BY <1>1, <1>2 DEF Bare
<1>4. Top(dzombie)'
  BY <1>1, <1>2 DEF Outlived, LeakInv, Top
<1> QED BY <1>1, <1>2, <1>3, <1>4 DEF Outlived, LeakInv

\* On its way a handle still frees what it was to free.
LEMMA WalkCovers ==
  ASSUME Outlived, NEW h \in Handles, Unlock(h) \/ WalkOn(h) \/ WalkLast(h)
  PROVE  LeakInv'
<1>1. below' = below
  BY PushedFrame DEF KeepsStack, Outlived, IInv
<1>2. /\ m_zombie' = m_zombie
      /\ \A g \in Handles : pc'[g] = "leave" <=> pc[g] = "leave"
      /\ \A g \in Handles : pc'[g] \in {"open", "walk", "reap"} <=> pc[g] \in {"open", "walk", "reap"}
  BY DEF Unlock, WalkOn, WalkLast, UnchangedByWalk, Outlived, IInv, TypeOK
<1>3. \A g \in Handles : \A z : Frees(g, z)' <=> Frees(g, z)
  BY <1>1, <1>2 DEF Frees
<1>4. \A z \in Pushed : Bare(z) => Covered(z)'
  <2> SUFFICES ASSUME NEW z \in Pushed, Covered(z) PROVE Covered(z)'
    BY DEF Outlived, LeakInv
  <2> QED BY <1>1, <1>2, <1>3 DEF Covered
<1> QED BY <1>4, GivenBack

\* A handle that has freed everything below its record has nothing left to free.
LEMMA ReapEndCovers ==
  ASSUME Outlived, NEW h \in Handles, ReapEnd(h)
  PROVE  LeakInv'
<1>1. below' = below
  BY PushedFrame DEF KeepsStack, Outlived, IInv
<1>2. below[m_zombie[h]] = {}
  BY DEF ReapEnd, Outlived, IInv, WalkInv, WalkOf
<1>3. m_zombie' = m_zombie /\ \A g \in Handles : g # h => pc'[g] = pc[g]
  BY DEF ReapEnd, UnchangedByWalk, Outlived, IInv, TypeOK
<1>4. \A g \in Handles : \A z : Frees(g, z) => Frees(g, z)'
  BY <1>1, <1>2, <1>3 DEF Frees
<1>5. \A z \in Pushed : Bare(z) => Covered(z)'
  <2> SUFFICES ASSUME NEW z \in Pushed, Covered(z) PROVE Covered(z)'
    BY DEF Outlived, LeakInv
  <2>1. \A g \in Handles : pc'[g] = "leave" /\ z \in below'[m_zombie'[g]] =>
          pc[g] = "leave" /\ z \in below[m_zombie[g]]
    BY <1>1, <1>2, <1>3
  <2> QED BY <1>1, <1>3, <1>4, <2>1 DEF Covered
<1> QED BY <1>5, GivenBack

\* A handle that leaves has given up what it does not free.
LEMMA LeaveCovers ==
  ASSUME Outlived, NEW h \in Handles, Leave(h)
  PROVE  LeakInv'
<1>1. below' = below
  BY PushedFrame DEF KeepsStack, Outlived, IInv
<1>2. /\ pc[h] = "leave" /\ pc'[h] = "idle"
      /\ \A g \in Handles : g # h => pc'[g] = pc[g] /\ m_zombie'[g] = m_zombie[g]
  BY DEF Leave, Outlived, IInv, TypeOK
<1>3. \A g \in Handles : \A z : Frees(g, z) => Frees(g, z)' /\ m_zombie'[g] = m_zombie[g]
  BY <1>1, <1>2 DEF Frees
<1>4. \A z \in Pushed : Bare(z) => Covered(z)'
  <2> SUFFICES ASSUME NEW z \in Pushed, Covered(z) PROVE Covered(z)'
    BY DEF Outlived, LeakInv
  <2>1. \A g \in Handles : pc'[g] = "leave" => pc[g] = "leave" /\ m_zombie'[g] = m_zombie[g]
    BY <1>2
  <2> QED BY <1>1, <1>3, <2>1 DEF Covered
<1> QED BY <1>4, GivenBack

\* A handle that finds an older one gives up what that one frees, or what one
\* older still frees.
LEMMA BlockedCovers ==
  ASSUME Outlived, NEW h \in Handles, WalkBlocked(h)
  PROVE  LeakInv'
<1>1. below' = below
  BY PushedFrame DEF KeepsStack, Outlived, IInv
<1>2. /\ m_zombie' = m_zombie /\ pc[h] = "walk" /\ pc'[h] = "leave"
      /\ \A g \in Handles : g # h => pc'[g] = pc[g]
  BY DEF WalkBlocked, UnchangedByWalk, Outlived, IInv, TypeOK
<1>3. m_zombie[h] \in Pushed
  BY <1>2, PushedFacts DEF Entered, Outlived
<1>4. PICK r \in Pushed : r = scan[h] /\ r \in below[m_zombie[h]]
  BY <1>2, <1>3 DEF WalkBlocked, Outlived, IInv, OrderInv, WalkInv, WalkOf
<1>5. PICK f \in Handles : f # h /\ m_zombie[f] = r /\ pc[f] # "idle" /\ zombie_node[r] = NULL
  <2>1. r \in zombieHeap /\ owner[r] # NULL /\ owner[r] \in Handles
    BY <1>4 DEF WalkBlocked, Pushed, Outlived, IInv, TypeOK
  <2>2. pc[owner[r]] # "idle" /\ m_zombie[owner[r]] = r /\ zombie_node[r] = NULL
    BY <2>1 DEF Outlived, IInv, GuardInv
  <2>3. owner[r] # h
    BY <1>3, <1>4, <2>2 DEF Outlived, IInv, OrderInv
  <2> QED BY <2>1, <2>2, <2>3
<1>6. pc[f] \in {"open", "walk", "reap", "leave"}
  BY <1>5 DEF Outlived, IInv, DtorInv, TypeOK, Control
<1>7. ASSUME NEW z \in Pushed, Bare(z), z \in below[m_zombie[h]]
      PROVE  \E g \in Handles : g # h /\ Frees(g, z) /\ m_zombie[g] \in below[m_zombie[h]]
  <2>1. z \in below[r]
    <3>1. z # r /\ r \notin below[z]
      BY <1>5, <1>7 DEF Bare
    <3> QED BY <1>4, <3>1 DEF Outlived, IInv, OrderInv
  <2>2. CASE pc[f] # "leave"
    BY <1>4, <1>5, <1>6, <2>1, <2>2 DEF Frees
  <2>3. CASE pc[f] = "leave"
    <3>1. PICK g \in Handles : Frees(g, z) /\ m_zombie[g] \in below[r]
      BY <1>5, <1>7, <2>1, <2>3 DEF Outlived, LeakInv, Covered
    <3>2. m_zombie[g] \in below[m_zombie[h]]
      BY <1>3, <1>4, <3>1 DEF Outlived, IInv, OrderInv
    <3>3. g # h
      BY <1>3, <3>2 DEF Outlived, IInv, OrderInv
    <3> QED BY <3>1, <3>2, <3>3
  <2> QED BY <2>2, <2>3
<1>8. \A g \in Handles : \A z : g # h /\ Frees(g, z) => Frees(g, z)'
  BY <1>1, <1>2 DEF Frees
<1>9. ASSUME NEW z \in Pushed, Bare(z) PROVE Covered(z)'
  <2>1. Covered(z)
    BY <1>9 DEF Outlived, LeakInv
  <2>2. \E g \in Handles : Frees(g, z)'
    <3>1. PICK g \in Handles : Frees(g, z)
      BY <2>1 DEF Covered
    <3>2. CASE g # h
      BY <1>8, <3>1, <3>2
    <3>3. CASE g = h
      BY <1>7, <1>8, <1>9, <3>1, <3>3 DEF Frees
    <3> QED BY <3>2, <3>3
  <2>3. ASSUME NEW g \in Handles, pc'[g] = "leave", z \in below'[m_zombie'[g]]
        PROVE  \E k \in Handles : Frees(k, z)' /\ m_zombie'[k] \in below'[m_zombie'[g]]
    <3>1. CASE g = h
      BY <1>1, <1>2, <1>7, <1>8, <1>9, <2>3, <3>1
    <3>2. CASE g # h
      <4>1. PICK k \in Handles : Frees(k, z) /\ m_zombie[k] \in below[m_zombie[g]]
        BY <1>1, <1>2, <2>1, <2>3, <3>2 DEF Covered
      <4>2. CASE k # h
        BY <1>1, <1>2, <1>8, <4>1, <4>2
      <4>3. CASE k = h
        <5>1. PICK j \in Handles : j # h /\ Frees(j, z) /\ m_zombie[j] \in below[m_zombie[h]]
          BY <1>7, <1>9, <4>1, <4>3 DEF Frees
        <5>2. m_zombie[g] \in Pushed
          BY <1>2, <2>3, <3>2, PushedFacts DEF Entered, Outlived
        <5>3. m_zombie[j] \in below[m_zombie[g]]
          BY <4>1, <4>3, <5>1, <5>2 DEF Outlived, IInv, OrderInv
        <5> QED BY <1>1, <1>2, <1>8, <5>1, <5>3
      <4> QED BY <4>2, <4>3
    <3> QED BY <3>1, <3>2
  <2> QED BY <2>2, <2>3 DEF Covered
<1> QED BY <1>9, GivenBack

\* A handle frees only what lies below its record: what loses a handle's record
\* from below has the record of the one that reaps there.
LEMMA ReapCovers ==
  ASSUME Outlived, NEW h \in Handles, Reap(h)
  PROVE  LeakInv'
<1>1. PICK x \in Pushed, m \in Pushed : /\ x = scan[h] /\ m = m_zombie[h] /\ zombie_node[m] = NULL
                                        /\ below[m] = {x} \cup below[x]
  BY PushedFacts DEF Reap, Entered, Outlived, IInv, GuardInv
<1>2. Pushed' = Pushed \ {x}
  BY <1>1, PushedReap DEF Outlived, IInv
<1>3. /\ \A y \in Pushed' : zombie_node'[y] = zombie_node[y] /\ below'[y] = below[y] \ {x}
      /\ UNCHANGED <<pc, m_zombie, dzombie>>
  BY <1>1, <1>2 DEF Outlived, IInv, TypeOK, Reap, FreeRecord, Pushed, dtorVars
<1>4. Linked' = Linked
  BY <1>1, FreedNotLinked DEF Reap, Outlived, Pushed
<1>5. x # m /\ m \in Pushed' /\ dzombie # NULL /\ dzombie \in Pushed'
  <2>1. x # m
    BY <1>1 DEF Outlived, IInv, OrderInv
  <2>2. dzombie \in Pushed /\ (m = dzombie \/ m \in below[dzombie])
    BY <1>1 DEF Outlived, LeakInv, Top
  <2>3. x # dzombie
    BY <1>1, <2>1, <2>2 DEF Outlived, IInv, OrderInv
  <2> QED BY <1>1, <1>2, <2>1, <2>2, <2>3, NullAssumption DEF Outlived, IInv, TypeOK, Pushed
<1>6. Top(dzombie)' /\ (dzombie' # NULL => zombie_node'[dzombie'] = NULL)
  BY <1>2, <1>3, <1>5 DEF Outlived, LeakInv, Top
<1>7. ASSUME NEW z \in Pushed', Bare(z)' PROVE Bare(z)
  <2>1. zombie_node[z] # NULL /\ z # x /\ z # m
    BY <1>1, <1>2, <1>3, <1>7 DEF Bare
  <2>2. \A r \in below[z] : r # x => zombie_node[r] # NULL
    BY <1>2, <1>3, <1>7 DEF Bare, Outlived, IInv, OrderInv
  <2>3. x \in below[z] => m \in below[z]
    BY <1>1, <1>2, <2>1 DEF Outlived, IInv, OrderInv
  <2> QED BY <1>1, <1>5, <2>1, <2>2, <2>3 DEF Bare
<1>8. \A g \in Handles : Entered(g) => m_zombie[g] \in Pushed'
  <2>1. owner[x] = NULL
    BY <1>1 DEF Reap, Outlived, IInv, WalkInv, WalkOf
  <2> QED BY <1>2, <2>1, PushedFacts, NullAssumption DEF Outlived, IInv, GuardInv, Entered
<1>9. \A g \in Handles : \A z \in Pushed' : Frees(g, z)' <=> Frees(g, z)
  <2> TAKE g \in Handles
  <2> TAKE z \in Pushed'
  <2>1. z # x
    BY <1>2
  <2>2. CASE pc[g] \in {"open", "walk", "reap"}
    BY <1>3, <1>8, <2>1, <2>2 DEF Frees, Entered
  <2>3. CASE pc[g] \notin {"open", "walk", "reap"}
    BY <1>3, <2>3 DEF Frees
  <2> QED BY <2>2, <2>3
<1>10. ASSUME NEW z \in Pushed', Bare(z)' PROVE Covered(z)'
  <2>1. Covered(z) /\ z # x
    BY <1>2, <1>7, <1>10 DEF Outlived, LeakInv
  <2>2. \E g \in Handles : Frees(g, z)'
    BY <1>9, <2>1 DEF Covered
  <2>3. ASSUME NEW g \in Handles, pc'[g] = "leave", z \in below'[m_zombie'[g]]
        PROVE  \E k \in Handles : Frees(k, z)' /\ m_zombie'[k] \in below'[m_zombie'[g]]
    <3>1. pc[g] = "leave" /\ m_zombie[g] \in Pushed' /\ z \in below[m_zombie[g]]
      BY <1>3, <1>8, <2>3 DEF Entered
    <3>2. PICK k \in Handles : Frees(k, z) /\ m_zombie[k] \in below[m_zombie[g]]
      BY <2>1, <3>1 DEF Covered
    <3>3. m_zombie[k] # x
      BY <1>2, <1>8, <3>2 DEF Frees, Entered
    <3> QED BY <1>3, <1>9, <3>1, <3>2, <3>3
  <2> QED BY <2>2, <2>3 DEF Covered
<1> QED BY <1>4, <1>6, <1>10 DEF Outlived, LeakInv

\* LeakInv is inductive, given the invariants before.
LEMMA LeakStep == IInv /\ Remaining /\ LeakInv /\ [Next]_vars => LeakInv'
<1> SUFFICES ASSUME IInv, Remaining, LeakInv, [Next]_vars PROVE LeakInv'
  OBVIOUS
<1>1. CASE Destroy \/ DestroyNode
  BY <1>1 DEF Destroy, DestroyNode, LeakInv
<1>2. CASE DestroyNodesEnd
  <2>1. Linked' = {} /\ dtor' = "zombies"
    BY <1>2, NoneLinked DEF DestroyNodesEnd, Linked, listVars
  <2> QED BY <2>1 DEF LeakInv
<1>3. CASE DestroyZombie
  <2>1. dzombie \in zombieHeap /\ FreeRecord(dzombie) /\ dtor = "zombies" /\ dtor' = "zombies"
    BY <1>3 DEF DestroyZombie, IInv, DtorInv, Top, Pushed
  <2>2. Linked' = Linked
    BY <2>1, FreedNotLinked
  <2> QED BY <2>1, <2>2 DEF LeakInv
<1>4. CASE DestroyEnd
  BY <1>4, StopsAtGuard
<1>5. CASE ~Destructor
  <2>1. UNCHANGED dtor
    BY <1>5, ExistsStays
  <2>2. CASE dtor \in {"none", "nodes"}
    BY <2>1, <2>2 DEF LeakInv
  <2>3. CASE dtor = "zombies"
    <3>1. UNCHANGED vars
      BY <1>5, <2>3 DEF IInv, DtorInv, Next, Lock, Access, Enlist, EnlistRetry, LockMutex, Read, Begin,
         Advance, Reading, Write, Writing, PushFront, PushBack, Emplace, EmplaceAnywhere, Unlink, TakeOut,
         Retire, RetireRetry, EraseAgain, Unlock, Unlocking, WalkOn, WalkBlocked, WalkLast, Reap, ReapEnd, Leave
    <3> QED BY <2>3, <3>1 DEF vars, LeakInv, Linked
  <2>4. CASE dtor = "done"
    <3>1. Outlived
      BY <2>1, <2>4 DEF Outlived
    <3>2. CASE UNCHANGED vars
      BY <2>4, <3>2 DEF vars, LeakInv, Linked, Top, Pushed, UnderConstruction, Bare, Covered, Frees
    <3>3. ASSUME NEW h \in Handles, Unlock(h) \/ Unlocking(h) PROVE LeakInv'
      BY <3>1, <3>3, WalkCovers, BlockedCovers, ReapCovers, ReapEndCovers, LeaveCovers DEF Unlocking
    <3>4. UNCHANGED vars \/ \E h \in Handles : Unlock(h) \/ Unlocking(h)
      BY <1>5, <2>4 DEF IInv, DtorInv, Next, Lock, Access, Enlist, EnlistRetry, LockMutex, Read, Begin,
         Advance, Reading, Write, Writing, PushFront, PushBack, Emplace, EmplaceAnywhere, Unlink, TakeOut,
         Retire, RetireRetry, EraseAgain
    <3> QED BY <3>2, <3>3, <3>4
  <2> QED BY <2>2, <2>3, <2>4 DEF IInv, TypeOK
<1> QED BY <1>1, <1>2, <1>3, <1>4, <1>5 DEF Destructor

LEMMA InitLeak == Init => Remaining /\ LeakInv
BY DEF Init, Remaining, LeakInv

\* ~rcu_list frees every element, and it leaves the record of an erased one
\* only between those of two handles.
THEOREM OnlyNestedLeak == Spec => []OnlyNestedGuardsLeak
<1>1. IInv /\ LeakInv => OnlyNestedGuardsLeak
  <2> DEFINE guards == {z \in zombieHeap : zombie_node[z] = NULL}
  <2> SUFFICES ASSUME IInv, LeakInv, dtor = "done", \A h \in Handles : pc[h] = "idle"
               PROVE  /\ nodeHeap = {zombie_node[z] : z \in zombieHeap \ guards}
                      /\ \A z \in zombieHeap \ guards :
                           \E older \in guards, newer \in guards : older \in below[z] /\ z \in below[newer]
    BY DEF OnlyNestedGuardsLeak
  <2>1. Pushed = zombieHeap
    BY DEF Pushed, UnderConstruction
  <2>2. nodeHeap = deleted
    BY DEF LeakInv, Linked, IInv, RetiredOnce
  <2>3. deleted = {zombie_node[z] : z \in zombieHeap \ guards}
    <3>1. NULL \notin deleted
      BY NullAssumption DEF IInv, TypeOK
    <3>2. \A n \in deleted : \E z \in zombieHeap \ guards : zombie_node[z] = n
      BY <3>1 DEF IInv, RetiredOnce
    <3>3. \A z \in zombieHeap \ guards : zombie_node[z] \in deleted
      BY DEF IInv, RetiredOnce
    <3> HIDE DEF guards
    <3> QED BY <3>2, <3>3
  <2>4. ASSUME NEW z \in zombieHeap \ guards
        PROVE  \E older \in guards, newer \in guards : older \in below[z] /\ z \in below[newer]
    <3>1. dzombie \in guards /\ z \in below[dzombie]
      BY <2>1 DEF LeakInv, Top
    <3>2. ~Bare(z)
      BY <2>1 DEF LeakInv, Covered, Frees
    <3>3. \E older \in guards : older \in below[z]
      BY <2>1, <3>2 DEF Bare, IInv, OrderInv
    <3> QED BY <3>1, <3>3
  <2> QED BY <2>2, <2>3, <2>4
<1> QED BY <1>1, InitLeak, RemainingStep, LeakStep, Inductive, AlwaysOrdered, PTL DEF Spec

=============================================================================
