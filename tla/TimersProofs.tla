---------------------------- MODULE TimersProofs ----------------------------
(***************************************************************************)
(* The timers of a poller, for every bound on timers and clock, every set  *)
(* of delays and every use of AddTimer and CancelTimer: what timers_ and   *)
(* timer_ids_ agree on, that timers_ stays sorted, that timers fire in     *)
(* order, that none is overslept, and what may fire after its end.         *)
(***************************************************************************)
EXTENDS Timers, SequenceTheorems, FiniteSetTheorems, TLAPS

\* A set of naturals has a least element: 0..x is smallest for it.
LEMMA Least ==
  ASSUME NEW T, T \subseteq Nat, T # {}
  PROVE  \E x \in T : \A y \in T : x <= y
<1> DEFINE I == {0..x : x \in T}
<1>1. IsWellFoundedOn(StrictSubsetOrdering(Nat), FiniteSubsetsOf(Nat))
  BY FS_StrictSubsetOrderingWellFounded
<1>2. I \subseteq FiniteSubsetsOf(Nat) /\ I # {}
  <2>1. \A x \in T : 0..x \subseteq Nat /\ IsFiniteSet(0..x)
    BY FS_Interval
  <2>2. QED
    BY <2>1 DEF FiniteSubsetsOf
<1>3. PICK s \in I : \A t \in I : ~(<<t, s>> \in StrictSubsetOrdering(Nat))
  BY <1>1, <1>2, WFMin
<1>4. PICK x \in T : s = 0..x
  BY <1>3
<1>5. ASSUME NEW y \in T, y < x PROVE FALSE
  <2>1. 0..y \subseteq 0..x /\ 0..y # 0..x /\ 0..y \in SUBSET Nat /\ 0..x \in SUBSET Nat
    BY <1>5
  <2>2. <<0..y, 0..x>> \in StrictSubsetOrdering(Nat)
    BY <2>1 DEF StrictSubsetOrdering
  <2>3. QED
    BY <1>3, <1>4, <2>2
<1>6. QED
  BY <1>4, <1>5

Sorted(ts) == \A j, k \in DOMAIN ts : j < k => ts[j].at <= ts[k].at

LEMMA NodeAt ==
  /\ \A n \in Node : n.at \in Nat /\ n.id \in Ids
  /\ \A ts \in Seq(Node) : \A j \in 1..Len(ts) : ts[j] \in Node
<1>1. \A n \in Node : n.at \in Nat /\ n.id \in Ids
  BY DEF Node
<1>2. ASSUME NEW ts \in Seq(Node), NEW j \in 1..Len(ts) PROVE ts[j] \in Node
  BY <1>2
<1>3. QED
  BY <1>1, <1>2

\* upper_bound in a sorted map: nodes before it are not later, others are.
LEMMA UpperBoundFacts ==
  ASSUME NEW ts \in Seq(Node), Sorted(ts), NEW at \in Nat
  PROVE  /\ UpperBound(ts, at) \in 0..Len(ts)
         /\ \A j \in 1..UpperBound(ts, at) : ts[j].at <= at
         /\ \A j \in (UpperBound(ts, at) + 1)..Len(ts) : ts[j].at > at
<1>1. Len(ts) \in Nat /\ DOMAIN ts = 1..Len(ts) /\ \A j \in 1..Len(ts) : ts[j].at \in Nat
  BY NodeAt
<1> DEFINE later == {j \in 1..Len(ts) : ts[j].at > at}
           fits(k) == (\A j \in 1..k : ts[j].at <= at) /\ (k < Len(ts) => ts[k + 1].at > at)
<1>2. \E k \in 0..Len(ts) : fits(k)
  <2>1. CASE later = {}
    <3>1. ASSUME NEW j \in 1..Len(ts) PROVE ts[j].at <= at
      <4>1. j \notin later
        BY <2>1
      <4>2. QED
        BY <1>1, <4>1
    <3>2. Len(ts) \in 0..Len(ts) /\ fits(Len(ts))
      BY <1>1, <3>1
    <3>3. QED
      BY <3>2
  <2>2. CASE later # {}
    <3> later \subseteq Nat
      BY <1>1
    <3> HIDE DEF later
    <3>1. PICK x \in later : \A y \in later : x <= y
      BY <2>2, Least
    <3> USE DEF later
    <3>2. x \in 1..Len(ts) /\ x - 1 \in 0..Len(ts) /\ (x - 1) + 1 = x
      BY <1>1, <3>1
    <3>3. ASSUME NEW j \in 1..(x - 1) PROVE ts[j].at <= at
      <4>1. j \in 1..Len(ts) /\ ~(x <= j)
        BY <1>1, <3>2
      <4>2. j \notin later
        BY <3>1, <4>1
      <4>3. QED
        BY <1>1, <4>1, <4>2
    <3>4. fits(x - 1)
      BY <3>1, <3>2, <3>3
    <3>5. QED
      BY <3>2, <3>4
  <2>3. QED
    BY <2>1, <2>2
<1>3. UpperBound(ts, at) \in 0..Len(ts) /\ fits(UpperBound(ts, at))
  <2>1. UpperBound(ts, at) = CHOOSE k \in 0..Len(ts) : fits(k)
    BY DEF UpperBound
  <2> HIDE DEF fits
  <2>2. QED
    BY <1>2, <2>1
<1>4. ASSUME NEW j \in (UpperBound(ts, at) + 1)..Len(ts) PROVE ts[j].at > at
  <2> DEFINE m == UpperBound(ts, at) + 1
  <2>1. m \in 1..Len(ts) /\ j \in 1..Len(ts) /\ m <= j /\ ts[m].at > at
    BY <1>1, <1>3
  <2> HIDE DEF m
  <2>2. ts[m].at <= ts[j].at
    BY <1>1, <2>1 DEF Sorted
  <2>3. QED
    BY <1>1, <2>1, <2>2
<1>5. QED
  BY <1>3, <1>4

\* Where insert puts a node, and that everything else keeps its order.
Inserted(ts, n, k, us) ==
  /\ us \in Seq(Node) /\ Len(us) = Len(ts) + 1
  /\ \A j \in 1..k : us[j] = ts[j]
  /\ us[k + 1] = n
  /\ \A j \in (k + 1)..Len(ts) : us[j + 1] = ts[j]

LEMMA InsertFacts ==
  ASSUME NEW ts \in Seq(Node), Sorted(ts), NEW n \in Node
  PROVE  \E k \in 0..Len(ts) :
           /\ Inserted(ts, n, k, Insert(ts, n))
           /\ \A j \in 1..k : ts[j].at <= n.at
           /\ \A j \in (k + 1)..Len(ts) : ts[j].at > n.at
<1> DEFINE k == UpperBound(ts, n.at)
<1>1. n.at \in Nat /\ Len(ts) \in Nat /\ \A j \in 1..Len(ts) : ts[j] \in Node
  BY NodeAt
<1>2. /\ k \in 0..Len(ts) /\ \A j \in 1..k : ts[j].at <= n.at
      /\ \A j \in (k + 1)..Len(ts) : ts[j].at > n.at
  BY <1>1, UpperBoundFacts
<1>3. Insert(ts, n) = SubSeq(ts, 1, k) \o <<n>> \o SubSeq(ts, k + 1, Len(ts))
  <2>1. (k + 1) - 1 = k
    BY <1>1, <1>2
  <2>2. QED
    BY <2>1 DEF Insert, InsertAt
<1> HIDE DEF k
<1> DEFINE a == SubSeq(ts, 1, k)  b == SubSeq(ts, k + 1, Len(ts))
<1>4. a \in Seq(Node) /\ Len(a) = k /\ \A j \in 1..k : a[j] = ts[j]
  BY <1>1, <1>2, SubSeqProperties
<1>5. b \in Seq(Node) /\ Len(b) = Len(ts) - k /\ \A j \in 1..(Len(ts) - k) : b[j] = ts[k + j]
  BY <1>1, <1>2, SubSeqProperties
<1> HIDE DEF a, b
<1>6. <<n>> \in Seq(Node) /\ Len(<<n>>) = 1 /\ <<n>>[1] = n
  OBVIOUS
<1> DEFINE c == a \o <<n>>
<1>7. /\ c \in Seq(Node) /\ Len(c) = k + 1 /\ c[k + 1] = n
      /\ \A j \in 1..k : c[j] = ts[j]
  BY <1>2, <1>4, <1>6, ConcatProperties
<1> HIDE DEF c
<1>8. /\ c \o b \in Seq(Node) /\ Len(c \o b) = Len(ts) + 1
      /\ \A j \in 1..(Len(ts) + 1) : (c \o b)[j] = IF j <= k + 1 THEN c[j] ELSE b[j - (k + 1)]
  BY <1>1, <1>2, <1>5, <1>7, ConcatProperties
<1>9. Inserted(ts, n, k, c \o b)
  <2>1. \A j \in 1..k : (c \o b)[j] = ts[j]
    BY <1>1, <1>2, <1>7, <1>8
  <2>2. (c \o b)[k + 1] = n
    BY <1>1, <1>2, <1>7, <1>8
  <2>3. \A j \in (k + 1)..Len(ts) : (c \o b)[j + 1] = ts[j]
    <3>1. ASSUME NEW j \in (k + 1)..Len(ts) PROVE (c \o b)[j + 1] = ts[j]
      <4>1. j - k \in 1..(Len(ts) - k) /\ (j + 1) - (k + 1) = j - k /\ k + (j - k) = j
        BY <1>1, <1>2
      <4>2. (c \o b)[j + 1] = b[j - k]
        BY <1>1, <1>2, <1>8, <4>1
      <4>3. QED
        BY <1>5, <4>1, <4>2
    <3>2. QED
      BY <3>1
  <2>4. QED
    BY <1>8, <2>1, <2>2, <2>3 DEF Inserted
<1>10. QED
  BY <1>2, <1>3, <1>9 DEF a, b, c

\* Where the k-th node is erased.
Erased(ts, k, us) ==
  /\ us \in Seq(Node) /\ Len(us) = Len(ts) - 1
  /\ \A j \in 1..(k - 1) : us[j] = ts[j]
  /\ \A j \in k..(Len(ts) - 1) : us[j] = ts[j + 1]

LEMMA RemoveFacts ==
  ASSUME NEW ts \in Seq(Node), NEW k \in 1..Len(ts)
  PROVE  Erased(ts, k, RemoveAt(ts, k))
<1>1. Len(ts) \in Nat /\ \A j \in 1..Len(ts) : ts[j] \in Node
  OBVIOUS
<1> DEFINE a == SubSeq(ts, 1, k - 1)  b == SubSeq(ts, k + 1, Len(ts))
<1>2. a \in Seq(Node) /\ Len(a) = k - 1 /\ \A j \in 1..(k - 1) : a[j] = ts[j]
  BY <1>1, SubSeqProperties
<1>3. b \in Seq(Node) /\ Len(b) = Len(ts) - k /\ \A j \in 1..(Len(ts) - k) : b[j] = ts[k + j]
  BY <1>1, SubSeqProperties
<1>4. RemoveAt(ts, k) = a \o b
  BY DEF RemoveAt
<1> HIDE DEF a, b
<1>5. /\ a \o b \in Seq(Node) /\ Len(a \o b) = Len(ts) - 1
      /\ \A j \in 1..(Len(ts) - 1) : (a \o b)[j] = IF j <= k - 1 THEN a[j] ELSE b[j - (k - 1)]
  BY <1>1, <1>2, <1>3, ConcatProperties
<1>6. \A j \in k..(Len(ts) - 1) : (a \o b)[j] = ts[j + 1]
  <2>1. ASSUME NEW j \in k..(Len(ts) - 1) PROVE (a \o b)[j] = ts[j + 1]
    <3>1. j - (k - 1) \in 1..(Len(ts) - k) /\ k + (j - (k - 1)) = j + 1
      BY <1>1
    <3>2. (a \o b)[j] = b[j - (k - 1)]
      BY <1>1, <1>5
    <3>3. QED
      BY <1>3, <3>1, <3>2
  <2>2. QED
    BY <2>1
<1>7. QED
  BY <1>1, <1>2, <1>4, <1>5, <1>6 DEF Erased

IdsOf(ts) == {ts[k].id : k \in DOMAIN ts}
Distinct(ts) == \A j, k \in DOMAIN ts : ts[j].id = ts[k].id => j = k

\* What the nodes from m + 1 on of us are: those of ts, and those of S.
Behind(us, ts, m, S) ==
  \A j \in (m + 1)..Len(us) : us[j] \in S \/ \E l \in (m + 1)..Len(ts) : us[j] = ts[l]

\* The first m nodes are not later than at; the first m nodes are the same.
Ahead(ts, m, at) == \A k \in 1..m : ts[k].at <= at
SameFront(us, ts, m) == \A k \in 1..m : us[k] = ts[k]

LEMMA InsertKeeps ==
  ASSUME NEW ts \in Seq(Node), Sorted(ts), NEW n \in Node, NEW us, us = Insert(ts, n),
         NEW m \in 0..Len(ts), Ahead(ts, m, n.at)
  PROVE  /\ us \in Seq(Node) /\ Len(us) = Len(ts) + 1 /\ Sorted(us)
         /\ SameFront(us, ts, m)
         /\ Behind(us, ts, m, {n})
         /\ IdsOf(us) = IdsOf(ts) \cup {n.id}
         /\ (Distinct(ts) /\ n.id \notin IdsOf(ts)) => Distinct(us)
<1>1. PICK k \in 0..Len(ts) :
        /\ Inserted(ts, n, k, us)
        /\ \A j \in 1..k : ts[j].at <= n.at
        /\ \A j \in (k + 1)..Len(ts) : ts[j].at > n.at
  BY InsertFacts
<1>2. /\ us \in Seq(Node) /\ Len(us) = Len(ts) + 1 /\ Len(ts) \in Nat
      /\ DOMAIN us = 1..Len(us) /\ DOMAIN ts = 1..Len(ts)
      /\ n.at \in Nat /\ \A j \in 1..Len(ts) : ts[j].at \in Nat
  BY <1>1, NodeAt DEF Inserted
\* Where a node of us comes from.
<1>3. \A j \in 1..Len(us) :
        \/ j <= k /\ us[j] = ts[j]
        \/ j = k + 1 /\ us[j] = n
        \/ j > k + 1 /\ j - 1 \in (k + 1)..Len(ts) /\ us[j] = ts[j - 1]
  <2>1. ASSUME NEW j \in 1..Len(us), j > k + 1
        PROVE  j - 1 \in (k + 1)..Len(ts) /\ us[j] = ts[j - 1]
    <3>1. j - 1 \in (k + 1)..Len(ts) /\ (j - 1) + 1 = j
      BY <1>2, <2>1
    <3>2. QED
      BY <1>1, <3>1 DEF Inserted
  <2>2. ASSUME NEW j \in 1..Len(us), j <= k PROVE us[j] = ts[j]
    BY <1>1, <1>2, <2>2 DEF Inserted
  <2>3. us[k + 1] = n
    BY <1>1 DEF Inserted
  <2>4. QED
    BY <1>2, <2>1, <2>2, <2>3
<1>4. Sorted(us)
  <2>1. \A j, l \in 1..Len(ts) : j < l => ts[j].at <= ts[l].at
    BY <1>2 DEF Sorted
  <2>2. ASSUME NEW j \in 1..Len(us), NEW l \in 1..Len(us), j < l PROVE us[j].at <= us[l].at
    <3>1. CASE l <= k /\ us[l] = ts[l]
      <4>1. j \in 1..Len(ts) /\ l \in 1..Len(ts) /\ us[j] = ts[j]
        BY <1>2, <1>3, <2>2, <3>1
      <4>2. QED
        BY <2>1, <2>2, <3>1, <4>1
    <3>2. CASE l = k + 1 /\ us[l] = n
      <4>1. j \in 1..k /\ us[j] = ts[j]
        BY <1>2, <1>3, <2>2, <3>2
      <4>2. QED
        BY <1>1, <3>2, <4>1
    <3>3. CASE l > k + 1 /\ l - 1 \in (k + 1)..Len(ts) /\ us[l] = ts[l - 1]
      <4>1. CASE j <= k /\ us[j] = ts[j]
        <5>1. j \in 1..Len(ts) /\ l - 1 \in 1..Len(ts) /\ j < l - 1
          BY <1>2, <3>3, <4>1
        <5>2. QED
          BY <2>1, <3>3, <4>1, <5>1
      <4>2. CASE j = k + 1 /\ us[j] = n
        <5>1. ts[l - 1].at > n.at /\ ts[l - 1].at \in Nat
          BY <1>1, <1>2, <3>3
        <5>2. QED
          BY <1>2, <3>3, <4>2, <5>1
      <4>3. CASE j > k + 1 /\ j - 1 \in (k + 1)..Len(ts) /\ us[j] = ts[j - 1]
        <5>1. j - 1 \in 1..Len(ts) /\ l - 1 \in 1..Len(ts) /\ j - 1 < l - 1
          BY <1>2, <2>2, <3>3, <4>3
        <5>2. QED
          BY <2>1, <3>3, <4>3, <5>1
      <4>4. QED
        BY <1>3, <4>1, <4>2, <4>3
    <3>4. QED
      BY <1>3, <3>1, <3>2, <3>3
  <2>3. QED
    BY <1>2, <2>2 DEF Sorted
<1>5. m <= k
  BY <1>1, <1>2 DEF Ahead
<1>6. SameFront(us, ts, m)
  BY <1>2, <1>3, <1>5 DEF SameFront
<1>7. Behind(us, ts, m, {n})
  <2>1. ASSUME NEW j \in (m + 1)..Len(us)
        PROVE  us[j] \in {n} \/ \E l \in (m + 1)..Len(ts) : us[j] = ts[l]
    <3>1. j \in 1..Len(us)
      BY <1>2
    <3>2. CASE j <= k /\ us[j] = ts[j]
      BY <1>2, <3>2
    <3>3. CASE j = k + 1 /\ us[j] = n
      BY <3>3
    <3>4. CASE j > k + 1 /\ j - 1 \in (k + 1)..Len(ts) /\ us[j] = ts[j - 1]
      <4>1. j - 1 \in (m + 1)..Len(ts)
        BY <1>2, <1>5, <3>4
      <4>2. QED
        BY <3>4, <4>1
    <3>5. QED
      BY <1>3, <3>1, <3>2, <3>3, <3>4
  <2>2. QED
    BY <2>1 DEF Behind
<1>8. IdsOf(us) = IdsOf(ts) \cup {n.id}
  <2>1. ASSUME NEW j \in 1..Len(us) PROVE us[j].id \in IdsOf(ts) \cup {n.id}
    <3>1. \A l \in 1..Len(ts) : ts[l].id \in IdsOf(ts)
      BY <1>2 DEF IdsOf
    <3>2. CASE us[j] = n
      BY <3>2
    <3>3. ASSUME NEW l \in 1..Len(ts), us[j] = ts[l] PROVE us[j].id \in IdsOf(ts) \cup {n.id}
      BY <3>1, <3>3
    <3>4. us[j] = n \/ \E l \in 1..Len(ts) : us[j] = ts[l]
      <4>1. CASE j <= k /\ us[j] = ts[j]
        <5>1. j \in 1..Len(ts)
          BY <1>2, <4>1
        <5>2. QED
          BY <4>1, <5>1
      <4>2. CASE j > k + 1 /\ j - 1 \in (k + 1)..Len(ts) /\ us[j] = ts[j - 1]
        <5>1. j - 1 \in 1..Len(ts)
          BY <1>2, <4>2
        <5>2. QED
          BY <4>2, <5>1
      <4>3. QED
        BY <1>3, <4>1, <4>2
    <3>5. QED
      BY <3>2, <3>3, <3>4
  <2>2. ASSUME NEW j \in 1..Len(ts) PROVE ts[j].id \in IdsOf(us)
    <3>1. CASE j <= k
      <4>1. j \in 1..Len(us) /\ us[j] = ts[j]
        BY <1>1, <1>2, <3>1 DEF Inserted
      <4>2. QED
        BY <1>2, <4>1 DEF IdsOf
    <3>2. CASE j > k
      <4>1. j \in (k + 1)..Len(ts) /\ j + 1 \in 1..Len(us)
        BY <1>2, <3>2
      <4>2. us[j + 1] = ts[j]
        BY <1>1, <4>1 DEF Inserted
      <4>3. QED
        BY <1>2, <4>1, <4>2 DEF IdsOf
    <3>3. QED
      BY <1>2, <3>1, <3>2
  <2>3. n.id \in IdsOf(us)
    <3>1. k + 1 \in 1..Len(us) /\ us[k + 1] = n
      BY <1>1, <1>2 DEF Inserted
    <3>2. QED
      BY <1>2, <3>1 DEF IdsOf
  <2>4. QED
    BY <1>2, <2>1, <2>2, <2>3 DEF IdsOf
<1>9. ASSUME Distinct(ts), n.id \notin IdsOf(ts) PROVE Distinct(us)
  <2>1. /\ \A j \in 1..Len(ts) : ts[j].id # n.id
        /\ \A j, l \in 1..Len(ts) : ts[j].id = ts[l].id => j = l
    BY <1>2, <1>9 DEF IdsOf, Distinct
  <2>2. \A j \in 1..Len(us) :
          \/ j <= k /\ j \in 1..Len(ts) /\ us[j].id = ts[j].id
          \/ j = k + 1 /\ us[j].id = n.id
          \/ j > k + 1 /\ j - 1 \in 1..Len(ts) /\ us[j].id = ts[j - 1].id
    BY <1>2, <1>3
  <2>3. ASSUME NEW j \in 1..Len(us), NEW l \in 1..Len(us), us[j].id = us[l].id PROVE j = l
    <3>1. CASE j <= k /\ j \in 1..Len(ts) /\ us[j].id = ts[j].id
      <4>1. ASSUME l > k + 1, l - 1 \in 1..Len(ts), us[l].id = ts[l - 1].id PROVE FALSE
        <5>1. j = l - 1
          BY <2>1, <2>3, <3>1, <4>1
        <5>2. QED
          BY <1>2, <3>1, <4>1, <5>1
      <4>2. QED
        BY <2>1, <2>2, <2>3, <3>1, <4>1
    <3>2. CASE j = k + 1 /\ us[j].id = n.id
      BY <2>1, <2>2, <2>3, <3>2
    <3>3. CASE j > k + 1 /\ j - 1 \in 1..Len(ts) /\ us[j].id = ts[j - 1].id
      <4>1. ASSUME l <= k, l \in 1..Len(ts), us[l].id = ts[l].id PROVE FALSE
        <5>1. l = j - 1
          BY <2>1, <2>3, <3>3, <4>1
        <5>2. QED
          BY <1>2, <3>3, <4>1, <5>1
      <4>2. ASSUME l > k + 1, l - 1 \in 1..Len(ts), us[l].id = ts[l - 1].id PROVE j = l
        <5>1. j - 1 = l - 1
          BY <2>1, <2>3, <3>3, <4>2
        <5>2. QED
          BY <1>2, <5>1
      <4>3. QED
        BY <2>1, <2>2, <2>3, <3>3, <4>1, <4>2
    <3>4. QED
      BY <2>2, <3>1, <3>2, <3>3
  <2>4. QED
    BY <1>2, <2>3 DEF Distinct
<1>10. QED
  BY <1>2, <1>4, <1>6, <1>7, <1>8, <1>9

LEMMA EraseKeeps ==
  ASSUME NEW ts \in Seq(Node), Sorted(ts), Distinct(ts), NEW k \in 1..Len(ts), NEW us,
         Erased(ts, k, us), NEW m \in 0..(k - 1)
  PROVE  /\ us \in Seq(Node) /\ Len(us) = Len(ts) - 1 /\ Sorted(us) /\ Distinct(us)
         /\ SameFront(us, ts, m)
         /\ Behind(us, ts, m, {})
         /\ IdsOf(us) = IdsOf(ts) \ {ts[k].id}
<1>1. /\ us \in Seq(Node) /\ Len(us) = Len(ts) - 1 /\ Len(ts) \in Nat
      /\ DOMAIN us = 1..Len(us) /\ DOMAIN ts = 1..Len(ts)
      /\ \A j \in 1..Len(ts) : ts[j].at \in Nat
  BY NodeAt DEF Erased
<1>2. \A j \in 1..Len(us) :
        \/ j < k /\ us[j] = ts[j]
        \/ j >= k /\ j + 1 \in 1..Len(ts) /\ us[j] = ts[j + 1]
  <2>1. ASSUME NEW j \in 1..Len(us), j < k PROVE us[j] = ts[j]
    <3>1. j \in 1..(k - 1)
      BY <1>1, <2>1
    <3>2. QED
      BY <3>1 DEF Erased
  <2>2. ASSUME NEW j \in 1..Len(us), ~(j < k)
        PROVE  j >= k /\ j + 1 \in 1..Len(ts) /\ us[j] = ts[j + 1]
    <3>1. j \in k..(Len(ts) - 1) /\ j >= k /\ j + 1 \in 1..Len(ts)
      BY <1>1, <2>2
    <3>2. QED
      BY <3>1 DEF Erased
  <2>3. QED
    BY <2>1, <2>2
\* The node a node of us was in ts.
<1> DEFINE from(j) == IF j < k THEN j ELSE j + 1
<1>3. /\ \A j \in 1..Len(us) : from(j) \in 1..Len(ts) /\ us[j] = ts[from(j)] /\ from(j) # k
      /\ \A j, l \in 1..Len(us) : j < l => from(j) < from(l)
      /\ \A j, l \in 1..Len(us) : from(j) = from(l) => j = l
  BY <1>1, <1>2
<1> HIDE DEF from
<1>4. /\ \A j, l \in 1..Len(ts) : j < l => ts[j].at <= ts[l].at
      /\ \A j, l \in 1..Len(ts) : ts[j].id = ts[l].id => j = l
  BY <1>1 DEF Sorted, Distinct
<1>5. Sorted(us)
  <2>1. ASSUME NEW j \in 1..Len(us), NEW l \in 1..Len(us), j < l PROVE us[j].at <= us[l].at
    BY <1>3, <1>4, <2>1
  <2>2. QED
    BY <1>1, <2>1 DEF Sorted
<1>6. Distinct(us)
  <2>1. ASSUME NEW j \in 1..Len(us), NEW l \in 1..Len(us), us[j].id = us[l].id PROVE j = l
    BY <1>3, <1>4, <2>1
  <2>2. QED
    BY <1>1, <2>1 DEF Distinct
<1>7. SameFront(us, ts, m)
  BY <1>1 DEF Erased, SameFront
<1>8. Behind(us, ts, m, {})
  <2>1. ASSUME NEW j \in (m + 1)..Len(us) PROVE \E l \in (m + 1)..Len(ts) : us[j] = ts[l]
    <3>1. j \in 1..Len(us)
      BY <1>1
    <3>2. CASE j < k /\ us[j] = ts[j]
      BY <1>1, <3>2
    <3>3. CASE j >= k /\ j + 1 \in 1..Len(ts) /\ us[j] = ts[j + 1]
      <4>1. j + 1 \in (m + 1)..Len(ts)
        BY <1>1, <3>3
      <4>2. QED
        BY <3>3, <4>1
    <3>4. QED
      BY <1>2, <3>1, <3>2, <3>3
  <2>2. QED
    BY <2>1 DEF Behind
<1>9. IdsOf(us) = IdsOf(ts) \ {ts[k].id}
  <2>1. ASSUME NEW j \in 1..Len(us) PROVE us[j].id \in IdsOf(ts) \ {ts[k].id}
    <3>1. us[j].id = ts[from(j)].id /\ ts[from(j)].id # ts[k].id
      BY <1>3, <1>4
    <3>2. ts[from(j)].id \in IdsOf(ts)
      BY <1>1, <1>3 DEF IdsOf
    <3>3. QED
      BY <3>1, <3>2
  <2>2. ASSUME NEW j \in 1..Len(ts), j # k PROVE ts[j].id \in IdsOf(us)
    <3>1. CASE j < k
      <4>1. j \in 1..Len(us) /\ us[j] = ts[j]
        BY <1>1, <3>1 DEF Erased
      <4>2. QED
        BY <1>1, <4>1 DEF IdsOf
    <3>2. CASE j > k
      <4>1. j - 1 \in k..(Len(ts) - 1) /\ j - 1 \in 1..Len(us) /\ (j - 1) + 1 = j
        BY <1>1, <3>2
      <4>2. us[j - 1] = ts[j]
        BY <4>1 DEF Erased
      <4>3. QED
        BY <1>1, <4>1, <4>2 DEF IdsOf
    <3>3. QED
      BY <1>1, <2>2, <3>1, <3>2
  <2>3. IdsOf(us) = {us[j].id : j \in 1..Len(us)} /\ IdsOf(ts) = {ts[j].id : j \in 1..Len(ts)}
    BY <1>1 DEF IdsOf
  <2>4. QED
    BY <2>1, <2>2, <2>3
<1>10. QED
  BY <1>1, <1>5, <1>6, <1>7, <1>8, <1>9

LEMMA TailErases ==
  ASSUME NEW ts \in Seq(Node), ts # <<>>
  PROVE  1 \in 1..Len(ts) /\ Erased(ts, 1, Tail(ts))
<1>1. Len(ts) \in Nat \ {0} /\ Tail(ts) \in Seq(Node) /\ Len(Tail(ts)) = Len(ts) - 1
  BY EmptySeq, HeadTailProperties
<1>2. \A j \in 1..(Len(ts) - 1) : Tail(ts)[j] = ts[j + 1]
  BY <1>1, HeadTailProperties
<1>3. QED
  BY <1>1, <1>2 DEF Erased

\* The nodes of us are those of ts and those of S.
From(us, ts, S) == \A j \in DOMAIN us : us[j] \in S \/ \E l \in DOMAIN ts : us[j] = ts[l]

LEMMA WhereFrom ==
  ASSUME NEW ts \in Seq(Node), NEW us \in Seq(Node), NEW S, NEW m \in 0..Len(ts),
         SameFront(us, ts, m), Behind(us, ts, m, S)
  PROVE  From(us, ts, S)
<1>1. Len(ts) \in Nat /\ DOMAIN ts = 1..Len(ts) /\ Len(us) \in Nat /\ DOMAIN us = 1..Len(us)
  OBVIOUS
<1>2. ASSUME NEW j \in DOMAIN us PROVE us[j] \in S \/ \E l \in DOMAIN ts : us[j] = ts[l]
  <2>1. CASE j <= m
    <3>1. j \in 1..m /\ j \in DOMAIN ts
      BY <1>1, <2>1
    <3>2. us[j] = ts[j]
      BY <3>1 DEF SameFront
    <3>3. QED
      BY <3>1, <3>2
  <2>2. CASE ~(j <= m)
    <3>1. j \in (m + 1)..Len(us) /\ \A l \in (m + 1)..Len(ts) : l \in DOMAIN ts
      BY <1>1, <2>2
    <3>2. QED
      BY <3>1 DEF Behind
  <2>3. QED
    BY <2>1, <2>2
<1>3. QED
  BY <1>2 DEF From

(***************************************************************************)
(* The inductive invariant.                                                *)
(***************************************************************************)

\* The node of a timer in timer_ids_ is not earlier than the expiry in its
\* entry, and has exactly that key until it fires.
PlacedNode(n, is, es, fs) ==
  n.id \in is => /\ es[n.id].expire <= n.at
                 /\ n.id \notin fs => n.at = es[n.id].expire
Placed == \A k \in DOMAIN timers : PlacedNode(timers[k], ids, entry, fired)

\* timers_ is sorted, and an id is given once.
Entries ==
  /\ Sorted(timers)
  /\ \A id \in ids \cup fired : id <= maxId
  /\ Placed

\* What is behind the timers fired in this round, once their loop has ended.
Pending(n) == Again(n) \/ (n.at > now /\ now + wait <= n.at)

\* The timers fired in this round are in front, with entries that live, and
\* those behind them are not due once the loop has ended.
Round ==
  /\ now <= clock
  /\ pc = "poll" => i = 0
  /\ \A k \in 1..i : timers[k].at <= now
  /\ pc # "undefined" => \A k \in 1..i : timers[k].id \in ids \cap fired
  /\ pc = "reap" => \A k \in (i + 1)..Len(timers) : Pending(timers[k])

\* What fired last comes before all that has not, and a once timer that fired
\* and has not ended is still in front of timers_.
InFront(id, m) == \E k \in 1..m : timers[k].id = id
Fires ==
  /\ last <= now
  /\ \A k \in (i + 1)..Len(timers) : last <= timers[k].at
  /\ \A id \in ids \cap fired : Once(id) => InFront(id, i)

Inv == MapsAgree /\ Entries /\ Round /\ Fires

\* The invariant by its parts, before and after a step.
LEMMA MapsAgreeParts ==
  /\ MapsAgree <=>
       /\ TypeOK /\ Distinct(timers) /\ IdsOf(timers) \subseteq ids \cup fired
       /\ \A id \in Ids : id \in ids <=> entry[id] # NULL
       /\ ~late => IdsOf(timers) = ids /\ pc # "undefined"
  /\ MapsAgree' <=>
       /\ TypeOK' /\ Distinct(timers') /\ IdsOf(timers') \subseteq ids' \cup fired'
       /\ \A id \in Ids : id \in ids' <=> entry'[id] # NULL
       /\ ~late' => IdsOf(timers') = ids' /\ pc' # "undefined"
BY DEF MapsAgree, Distinct, IdsOf

LEMMA Ranges ==
  ASSUME TypeOK
  PROVE  /\ clock \in Nat /\ now \in Nat /\ i \in Nat /\ i <= Len(timers) /\ maxId \in Nat
         /\ last \in Nat /\ wait \in Nat
         /\ Len(timers) \in Nat /\ DOMAIN timers = 1..Len(timers) /\ timers \in Seq(Node)
         /\ \A k \in 1..Len(timers) : timers[k] \in Node /\ timers[k].at \in Nat /\ timers[k].id \in Ids
         /\ Ids \subseteq Nat /\ MaxTimers \in Nat /\ ids \subseteq Ids /\ fired \subseteq Ids
<1>1. timers \in Seq(Node)
  BY DEF TypeOK
<1>2. \A k \in 1..Len(timers) : timers[k] \in Node /\ timers[k].at \in Nat /\ timers[k].id \in Ids
  BY <1>1, NodeAt
<1>3. QED
  BY <1>1, <1>2, TimersAssumption DEF TypeOK, Ids

LEMMA InitInv == Init => Inv
<1> SUFFICES ASSUME Init PROVE Inv
  OBVIOUS
<1>1. <<>> \in Seq(Node) /\ Len(<<>>) = 0 /\ DOMAIN <<>> = 1..0
  OBVIOUS
<1>2. TypeOK
  <2>1. late \in BOOLEAN
    BY DEF Init
  <2>2. QED
    BY <1>1, <2>1, TimersAssumption DEF Init, TypeOK
<1>3. MapsAgree
  BY <1>1, <1>2 DEF Init, MapsAgree
<1>4. Entries /\ Round /\ Fires
  BY <1>1 DEF Init, Entries, Placed, Sorted, Round, Fires
<1>5. QED
  BY <1>3, <1>4 DEF Inv

LEMMA AddTimerInv ==
  ASSUME Inv, NEW d \in Delays, NEW t \in Types, AddTimer(d, t)
  PROVE  Inv'
<1> DEFINE n == [at |-> clock + d, id |-> maxId + 1]
           e == [timeout |-> d, expire |-> clock + d, type |-> t]
<1>0. /\ IdsOf(timers) \subseteq ids \cup fired
      /\ ~late => IdsOf(timers) = ids /\ pc # "undefined"
      /\ \A id \in ids \cup fired : id <= maxId
      /\ pc \in {"poll", "fire"}
  BY MapsAgreeParts DEF Inv, Entries, AddTimer, InCallback
<1>1. TypeOK /\ Sorted(timers) /\ Distinct(timers)
  BY MapsAgreeParts DEF Inv, Entries
<1>2. /\ d \in Nat /\ maxId + 1 \in Ids /\ n \in Node /\ n.at = clock + d /\ n.id = maxId + 1
      /\ now <= n.at /\ n.at \in Nat
  BY <1>1, Ranges, TimersAssumption DEF AddTimer, Inv, Round, Node, Ids
<1>3. now \in Nat /\ last \in Nat /\ i \in Nat /\ i <= Len(timers)
  BY <1>1, Ranges
<1>4. /\ timers' = Insert(timers, n) /\ ids' = ids \cup {n.id}
      /\ maxId' = maxId + 1 /\ UNCHANGED <<clock, now, pc, i, wait, last, fired, late>>
      /\ entry' = [entry EXCEPT ![maxId + 1] = e]
      /\ e \in TimerEntry /\ e.expire = n.at
  <2>1. e \in TimerEntry /\ e.expire = n.at
    BY <1>1, <1>2, Ranges DEF TimerEntry
  <2>2. QED
    BY <1>2, <2>1 DEF AddTimer, history
<1>5. n.id \notin ids \cup fired
  <2>1. ASSUME NEW id \in ids \cup fired PROVE id # maxId + 1
    BY <1>0, <1>1, Ranges
  <2>2. QED
    BY <1>2, <2>1
<1> HIDE DEF n, e
<1>6. i \in 0..Len(timers) /\ timers \in Seq(Node)
  BY <1>1 DEF TypeOK
<1>a. Ahead(timers, i, n.at)
  <2>1. ASSUME NEW k \in 1..i PROVE timers[k].at <= n.at
    <3>1. k \in 1..Len(timers)
      BY <1>3, <1>6
    <3>2. timers[k].at <= now /\ timers[k].at \in Nat
      BY <1>1, <3>1, Ranges DEF Inv, Round
    <3>3. QED
      BY <1>2, <1>3, <3>2
  <2>2. QED
    BY <2>1 DEF Ahead
<1>7. /\ timers' \in Seq(Node) /\ Len(timers') = Len(timers) + 1 /\ Sorted(timers')
      /\ \A k \in 1..i : timers'[k] = timers[k]
      /\ Behind(timers', timers, i, {n}) /\ From(timers', timers, {n})
      /\ IdsOf(timers') = IdsOf(timers) \cup {n.id} /\ Distinct(timers')
  <2> DEFINE us == Insert(timers, n)
  <2>1. us = Insert(timers, n)
    OBVIOUS
  <2> HIDE DEF us
  <2>2. n.id \notin IdsOf(timers)
    BY <1>0, <1>5
  <2>3. /\ us \in Seq(Node) /\ Len(us) = Len(timers) + 1 /\ Sorted(us)
        /\ SameFront(us, timers, i)
        /\ Behind(us, timers, i, {n})
        /\ IdsOf(us) = IdsOf(timers) \cup {n.id}
        /\ (Distinct(timers) /\ n.id \notin IdsOf(timers)) => Distinct(us)
    <3>1. Sorted(timers) /\ n \in Node
      BY <1>1, <1>2
    <3>2. QED
      BY <1>a, <1>6, <2>1, <3>1, InsertKeeps
  <2>4. From(us, timers, {n})
    BY <1>6, <2>3, WhereFrom
  <2>5. QED
    BY <1>1, <1>4, <2>1, <2>2, <2>3, <2>4 DEF SameFront
<1>8. TypeOK'
  <2>1. entry' \in [Ids -> TimerEntry \cup {NULL}]
    BY <1>1, <1>2, <1>4 DEF TypeOK
  <2>3. ids' \subseteq Ids /\ maxId' \in 0..MaxTimers /\ i' \in 0..Len(timers')
    BY <1>1, <1>2, <1>4, <1>7, Ranges DEF TypeOK, Ids
  <2>4. QED
    BY <1>1, <1>4, <1>7, <2>1, <2>3 DEF TypeOK
<1>9. /\ \A id \in Ids : id \in ids' <=> entry'[id] # NULL
      /\ \A id \in ids \cup fired : entry'[id] = entry[id] /\ (id \in ids' <=> id \in ids)
      /\ entry'[n.id] = e
  BY <1>1, <1>2, <1>4, <1>5, NULLAssumption, MapsAgreeParts DEF Inv, TypeOK
<1>10. MapsAgree'
  <2>1. IdsOf(timers') \subseteq ids' \cup fired'
    BY <1>0, <1>4, <1>7
  <2>2. ~late' => IdsOf(timers') = ids' /\ pc' # "undefined"
    BY <1>0, <1>4, <1>7
  <2>3. QED
    BY <1>7, <1>8, <1>9, <2>1, <2>2, MapsAgreeParts
<1>11. Entries'
  <2>1. ASSUME NEW id \in ids' \cup fired' PROVE id <= maxId'
    <3>1. CASE id \in ids \cup fired
      BY <1>0, <1>1, <1>4, <3>1, Ranges
    <3>2. CASE id = maxId + 1
      BY <1>1, <1>4, <3>2, Ranges
    <3>3. QED
      BY <1>2, <1>4, <3>1, <3>2
  <2>2. ASSUME NEW k \in DOMAIN timers' PROVE PlacedNode(timers'[k], ids', entry', fired')
    <3>1. CASE timers'[k] = n
      <4>1. n.at <= n.at /\ entry'[n.id].expire = n.at
        BY <1>2, <1>4, <1>9
      <4>2. QED
        BY <3>1, <4>1 DEF PlacedNode
    <3>2. ASSUME NEW l \in DOMAIN timers, timers'[k] = timers[l]
          PROVE  PlacedNode(timers'[k], ids', entry', fired')
      <4>1. timers[l].id \in ids \cup fired
        BY <1>0 DEF IdsOf
      <4>2. PlacedNode(timers[l], ids, entry, fired)
        BY DEF Inv, Entries, Placed
      <4>3. /\ entry'[timers[l].id] = entry[timers[l].id] /\ fired' = fired
            /\ timers[l].id \in ids' <=> timers[l].id \in ids
        BY <1>4, <1>9, <4>1
      <4>4. QED
        BY <3>2, <4>2, <4>3 DEF PlacedNode
    <3>3. QED
      BY <1>7, <3>1, <3>2 DEF From
  <2>3. Placed'
    BY <2>2 DEF Placed
  <2>4. QED
    BY <1>7, <2>1, <2>3 DEF Entries
<1>12. Round'
  <2>1. pc' # "reap" /\ (pc' = "poll" => i' = 0)
    BY <1>0, <1>4 DEF Inv, Round
  <2>2. \A k \in 1..i : timers[k].id \in ids \cap fired /\ timers[k].at <= now
    BY <1>0 DEF Inv, Round
  <2>3. \A k \in 1..i' : timers'[k].id \in ids' \cap fired' /\ timers'[k].at <= now'
    BY <1>4, <1>7, <2>2
  <2>4. now' <= clock'
    BY <1>4 DEF Inv, Round
  <2>5. QED
    BY <2>1, <2>3, <2>4 DEF Round
<1>13. Fires'
  <2>1. ASSUME NEW k \in (i + 1)..Len(timers') PROVE last <= timers'[k].at
    <3>1. CASE timers'[k] = n
      <4>1. last <= now
        BY DEF Inv, Fires
      <4>2. QED
        BY <1>2, <1>3, <3>1, <4>1
    <3>2. CASE \E l \in (i + 1)..Len(timers) : timers'[k] = timers[l]
      BY <3>2 DEF Inv, Fires
    <3>3. QED
      BY <1>7, <3>1, <3>2 DEF Behind
  <2>2. ASSUME NEW id \in ids' \cap fired', Once(id)' PROVE InFront(id, i)'
    <3>1. id \in ids \cap fired /\ entry'[id] = entry[id]
      BY <1>4, <1>9
    <3>2. Once(id)
      BY <2>2, <3>1 DEF Once
    <3>3. InFront(id, i)
      BY <3>1, <3>2 DEF Inv, Fires
    <3>4. QED
      BY <1>4, <1>7, <3>3 DEF InFront
  <2>3. QED
    BY <1>4, <2>1, <2>2 DEF Inv, Fires
<1>14. QED
  BY <1>10, <1>11, <1>12, <1>13 DEF Inv

\* The node that CancelTimer finds for a timer whose node has its entry's
\* expiry for a key.
LEMMA FoundOwn ==
  ASSUME TypeOK, Distinct(timers), NEW id \in Ids, NEW k \in DOMAIN timers,
         timers[k].id = id, timers[k].at = entry[id].expire
  PROVE  Found(id) = k
<1> DEFINE own == {l \in DOMAIN timers : timers[l] = [at |-> entry[id].expire, id |-> id]}
<1>1. k \in own
  <2>1. timers[k] \in Node
    BY Ranges
  <2>2. timers[k] = [at |-> timers[k].at, id |-> timers[k].id]
    BY <2>1 DEF Node
  <2>3. QED
    BY <2>2
<1>2. \A l \in own : l = k
  BY DEF Distinct
<1>3. Found(id) = CHOOSE l \in own : TRUE
  BY <1>1 DEF Found
<1> HIDE DEF own
<1>4. QED
  BY <1>1, <1>2, <1>3

\* A timer that has fired in this round has its node in front of what
\* CancelTimer erases.
LEMMA FoundFront ==
  ASSUME Inv, NEW id \in ids, pc # "undefined", Found(id) \in (i + 1)..Len(timers)
  PROVE  \A k \in 1..i : timers[k].id # id
<1>1. /\ TypeOK /\ Sorted(timers) /\ Distinct(timers) /\ timers \in Seq(Node)
      /\ i \in Nat /\ i <= Len(timers) /\ Len(timers) \in Nat /\ DOMAIN timers = 1..Len(timers)
      /\ id \in Ids
  BY MapsAgreeParts, Ranges DEF Inv, Entries
<1>2. entry[id] \in TimerEntry /\ entry[id].expire \in Nat
  <2>1. entry[id] \in TimerEntry
    BY <1>1, MapsAgreeParts DEF Inv, TypeOK
  <2>2. QED
    BY <2>1 DEF TimerEntry
<1>3. ASSUME NEW k \in 1..i, timers[k].id = id PROVE FALSE
  <2>1. k \in 1..Len(timers) /\ k \in DOMAIN timers /\ timers[k].at \in Nat
    <3>1. k \in 1..Len(timers) /\ k \in DOMAIN timers
      BY <1>1
    <3>2. QED
      BY <1>1, <3>1, Ranges
  <2>2. entry[id].expire <= timers[k].at
    BY <1>3, <2>1 DEF Inv, Entries, Placed, PlacedNode
  <2>3. CASE timers[k].at = entry[id].expire
    <3>1. Found(id) = k
      BY <1>1, <1>3, <2>1, <2>3, FoundOwn
    <3>2. QED
      BY <1>1, <3>1
  <2>4. CASE timers[k].at # entry[id].expire
    <3> DEFINE own == {l \in DOMAIN timers : timers[l] = [at |-> entry[id].expire, id |-> id]}
               u == UpperBound(timers, entry[id].expire)
    <3>1. own = {}
      <4>1. ASSUME NEW l \in own PROVE FALSE
        <5>1. l \in DOMAIN timers /\ timers[l].id = id /\ timers[l].at = entry[id].expire
          OBVIOUS
        <5>2. l = k
          BY <1>3, <1>1, <2>1, <5>1 DEF Distinct
        <5>3. QED
          BY <2>4, <5>1, <5>2
      <4>2. QED
        BY <4>1
    <3>2. Found(id) = u + 1
      BY <3>1 DEF Found
    <3>3. u \in 0..Len(timers) /\ \A j \in 1..u : timers[j].at <= entry[id].expire
      BY <1>1, <1>2, UpperBoundFacts
    <3> HIDE DEF u, own
    <3>4. ~(k <= u)
      <4>1. ASSUME k <= u PROVE FALSE
        <5>1. k \in 1..u
          BY <2>1, <3>3, <4>1
        <5>2. timers[k].at <= entry[id].expire
          BY <3>3, <5>1
        <5>3. QED
          BY <1>2, <2>1, <2>2, <2>4, <5>2
      <4>2. QED
        BY <4>1
    <3>5. QED
      BY <1>1, <3>2, <3>3, <3>4
  <2>5. QED
    BY <2>3, <2>4
<1>4. QED
  BY <1>3

\* The node of a timer that has not fired is its own, and if no timer was
\* cancelled late CancelTimer does what it should.
LEMMA FoundFacts ==
  ASSUME Inv, NEW id \in ids, pc # "undefined", id \notin fired
  PROVE  /\ id \in IdsOf(timers) => Found(id) \in DOMAIN timers /\ timers[Found(id)].id = id
         /\ ~late => Defined(id)
<1>1. /\ TypeOK /\ Distinct(timers) /\ i \in Nat /\ i <= Len(timers) /\ Len(timers) \in Nat
      /\ DOMAIN timers = 1..Len(timers) /\ id \in Ids
  BY MapsAgreeParts, Ranges DEF Inv
<1>2. ASSUME NEW k \in DOMAIN timers, timers[k].id = id PROVE Found(id) = k
  <2>1. timers[k].at = entry[id].expire
    BY <1>2 DEF Inv, Entries, Placed, PlacedNode
  <2>2. QED
    BY <1>1, <1>2, <2>1, FoundOwn
<1>3. id \in IdsOf(timers) => Found(id) \in DOMAIN timers /\ timers[Found(id)].id = id
  BY <1>2 DEF IdsOf
<1>4. ASSUME ~late PROVE Defined(id)
  <2>1. IdsOf(timers) = ids
    BY <1>4, MapsAgreeParts DEF Inv
  <2>2. Found(id) \in DOMAIN timers /\ timers[Found(id)].id = id
    BY <1>3, <2>1
  <2>3. ~(Found(id) \in 1..i)
    BY <2>2 DEF Inv, Round
  <2>4. Found(id) \in (i + 1)..Len(timers)
    BY <1>1, <2>2, <2>3
  <2>5. ASSUME NEW k \in 1..(Found(id) - 1) PROVE entry[timers[k].id] # NULL
    <3>1. k \in 1..Len(timers)
      BY <1>1, <2>2
    <3>2. timers[k].id \in ids /\ timers[k].id \in Ids
      BY <1>1, <2>1, <3>1, Ranges DEF IdsOf
    <3>3. QED
      BY <3>2, MapsAgreeParts DEF Inv
  <2>6. QED
    BY <2>4, <2>5 DEF Defined
<1>5. QED
  BY <1>3, <1>4

\* Nothing but pc and late changes when what is next is undefined.
LEMMA UndefinedInv ==
  ASSUME Inv, pc' = "undefined", late', late' \in BOOLEAN,
         UNCHANGED <<clock, now, timers, ids, entry, maxId, i, wait, last, fired>>
  PROVE  Inv'
<1>1. TypeOK
  BY MapsAgreeParts DEF Inv
<1>2. TypeOK'
  BY <1>1 DEF TypeOK
<1>3. /\ Distinct(timers') /\ IdsOf(timers') \subseteq ids' \cup fired'
      /\ \A id \in Ids : id \in ids' <=> entry'[id] # NULL
  BY MapsAgreeParts DEF Inv
<1>4. MapsAgree'
  BY <1>2, <1>3, MapsAgreeParts
<1>5. Entries'
  BY DEF Inv, Entries, Placed
<1>6. Round'
  BY DEF Inv, Round
<1>7. Fires'
  BY DEF Inv, Fires, InFront, Once
<1>8. QED
  BY <1>4, <1>5, <1>6, <1>7 DEF Inv

LEMMA CancelTimerInv ==
  ASSUME Inv, NEW id \in Ids, CancelTimer(id)
  PROVE  Inv'
<1>0. /\ id \in ids /\ pc \in {"poll", "fire"} /\ late \in BOOLEAN
      /\ late' = (late \/ id \in fired) /\ late' \in BOOLEAN
      /\ UNCHANGED <<clock, now, maxId, i, wait, last, fired>>
  BY MapsAgreeParts DEF Inv, TypeOK, CancelTimer, InCallback
<1>1. CASE ~Defined(id)
  <2>1. pc' = "undefined" /\ UNCHANGED <<timers, ids, entry>>
    BY <1>1 DEF CancelTimer
  <2>2. late'
    <3>1. CASE id \in fired
      BY <1>0, <3>1, Zenon
    <3>2. CASE id \notin fired
      <4>1. late
        BY <1>0, <1>1, <3>2, FoundFacts
      <4>2. QED
        BY <1>0, <4>1, Zenon
    <3>3. QED
      BY <3>1, <3>2
  <2>3. QED
    BY <1>0, <2>1, <2>2, UndefinedInv
<1>2. CASE Defined(id)
  <2> DEFINE f == Found(id)
  <2>1. /\ timers' = RemoveAt(timers, f) /\ ids' = ids \ {id} /\ pc' = pc
        /\ entry' = [entry EXCEPT ![id] = NULL]
        /\ f \in (i + 1)..Len(timers)
    BY <1>2 DEF CancelTimer, Defined
  <2>2. /\ TypeOK /\ Sorted(timers) /\ Distinct(timers) /\ timers \in Seq(Node)
        /\ i \in 0..Len(timers) /\ i \in Nat /\ Len(timers) \in Nat
        /\ DOMAIN timers = 1..Len(timers)
    BY MapsAgreeParts, Ranges DEF Inv, Entries, TypeOK
  <2>3. \A k \in 1..i : timers[k].id # id
    BY <1>0, <2>1, FoundFront
  <2>4. id \notin fired /\ id \in IdsOf(timers) => timers[f].id = id
    BY <1>0, FoundFacts
  <2>5. /\ IdsOf(timers) \subseteq ids \cup fired
        /\ ~late => IdsOf(timers) = ids /\ pc # "undefined"
    BY MapsAgreeParts DEF Inv
  <2> HIDE DEF f
  <2>6. f \in 1..Len(timers) /\ i \in 0..(f - 1)
    BY <2>1, <2>2
  <2>7. Erased(timers, f, timers')
    BY <2>1, <2>2, <2>6, RemoveFacts
  <2>8. /\ timers' \in Seq(Node) /\ Len(timers') = Len(timers) - 1 /\ Sorted(timers') /\ Distinct(timers')
        /\ SameFront(timers', timers, i)
        /\ Behind(timers', timers, i, {}) /\ From(timers', timers, {})
        /\ IdsOf(timers') = IdsOf(timers) \ {timers[f].id}
    <3>1. PICK us : us = timers'
      OBVIOUS
    <3>2. Erased(timers, f, us)
      BY <2>7, <3>1
    <3>3. /\ us \in Seq(Node) /\ Len(us) = Len(timers) - 1 /\ Sorted(us) /\ Distinct(us)
          /\ SameFront(us, timers, i)
          /\ Behind(us, timers, i, {})
          /\ IdsOf(us) = IdsOf(timers) \ {timers[f].id}
      <4>1. timers \in Seq(Node) /\ Sorted(timers) /\ Distinct(timers)
        BY <2>2
      <4>2. QED
        BY <2>6, <3>2, <4>1, EraseKeeps
    <3>4. From(us, timers, {})
      BY <2>2, <3>3, WhereFrom
    <3>5. QED
      BY <3>1, <3>3, <3>4
  <2>9. TypeOK'
    <3>1. i' \in 0..Len(timers')
      BY <1>0, <2>2, <2>6, <2>8
    <3>2. entry' \in [Ids -> TimerEntry \cup {NULL}]
      BY <2>1, <2>2 DEF TypeOK
    <3>3. QED
      BY <1>0, <2>1, <2>2, <2>8, <3>1, <3>2 DEF TypeOK
  <2>10. \A x \in Ids : x # id => entry'[x] = entry[x]
    BY <2>1, <2>2 DEF TypeOK
  <2>11. \A x \in Ids : x \in ids' <=> entry'[x] # NULL
    BY <2>1, <2>2, MapsAgreeParts DEF Inv, TypeOK
  <2>12. IdsOf(timers') \subseteq ids' \cup fired'
    BY <1>0, <2>1, <2>4, <2>5, <2>8
  <2>13. ASSUME ~late' PROVE IdsOf(timers') = ids' /\ pc' # "undefined"
    <3>1. ~late /\ id \notin fired
      BY <1>0, <2>13, Zenon
    <3>2. IdsOf(timers) = ids
      BY <2>5, <3>1
    <3>3. timers[f].id = id
      BY <1>0, <2>4, <3>1, <3>2
    <3>4. QED
      BY <1>0, <2>1, <2>8, <3>2, <3>3
  <2>14. MapsAgree'
    BY <2>8, <2>9, <2>11, <2>12, <2>13, MapsAgreeParts
  <2>15. Entries'
    <3>1. \A x \in ids' \cup fired' : x <= maxId'
      BY <1>0, <2>1 DEF Inv, Entries
    <3>2. ASSUME NEW k \in DOMAIN timers' PROVE PlacedNode(timers'[k], ids', entry', fired')
      <4>1. PICK l \in DOMAIN timers : timers'[k] = timers[l]
        BY <2>8 DEF From
      <4>2. PlacedNode(timers[l], ids, entry, fired) /\ timers[l].id \in Ids
        BY <2>2, Ranges DEF Inv, Entries, Placed
      <4>3. CASE timers[l].id = id
        BY <2>1, <4>1, <4>3 DEF PlacedNode
      <4>4. CASE timers[l].id # id
        BY <1>0, <2>1, <2>10, <4>1, <4>2, <4>4 DEF PlacedNode
      <4>5. QED
        BY <4>3, <4>4
    <3>3. QED
      BY <2>8, <3>1, <3>2 DEF Entries, Placed
  <2>16. Round'
    <3>1. pc' # "reap" /\ pc # "undefined"
      BY <1>0, <2>1
    <3>2. \A k \in 1..i : timers[k].id \in ids \cap fired /\ timers[k].at <= now
      BY <3>1 DEF Inv, Round
    <3>3. \A k \in 1..i' : timers'[k].id \in ids' \cap fired' /\ timers'[k].at <= now'
      BY <1>0, <2>1, <2>3, <2>8, <3>2 DEF SameFront
    <3>4. now' <= clock' /\ (pc' = "poll" => i' = 0)
      BY <1>0, <2>1 DEF Inv, Round
    <3>5. QED
      BY <3>1, <3>3, <3>4 DEF Round
  <2>17. Fires'
    <3>1. ASSUME NEW k \in (i + 1)..Len(timers') PROVE last <= timers'[k].at
      <4>1. PICK l \in (i + 1)..Len(timers) : timers'[k] = timers[l]
        BY <2>8 DEF Behind
      <4>2. QED
        BY <4>1 DEF Inv, Fires
    <3>2. ASSUME NEW x \in ids' \cap fired', Once(x)' PROVE InFront(x, i)'
      <4>1. x \in Ids /\ x \in ids \cap fired /\ x # id
        BY <1>0, <2>1, <2>2, Ranges
      <4>2. Once(x)
        BY <2>10, <3>2, <4>1 DEF Once
      <4>3. InFront(x, i)
        BY <4>1, <4>2 DEF Inv, Fires
      <4>4. QED
        BY <1>0, <2>8, <4>3 DEF InFront, SameFront
    <3>3. QED
      BY <1>0, <3>1, <3>2 DEF Inv, Fires
  <2>18. QED
    BY <2>14, <2>15, <2>16, <2>17 DEF Inv
<1>3. QED
  BY <1>1, <1>2

LEMMA FireNextInv ==
  ASSUME Inv, FireNext
  PROVE  Inv'
<1> DEFINE n == timers[i + 1]
<1>0. /\ i' = i + 1 /\ pc = "fire" /\ last' = n.at /\ fired' = fired \cup {n.id}
      /\ pc' = IF entry[n.id] # NULL THEN pc ELSE "undefined"
      /\ UNCHANGED <<clock, now, timers, ids, entry, maxId, wait, late>>
      /\ n.at <= now /\ i < Len(timers)
  BY DEF FireNext, Due
<1>1. /\ TypeOK /\ Sorted(timers) /\ Distinct(timers)
      /\ i + 1 \in 1..Len(timers) /\ i \in Nat /\ Len(timers) \in Nat
      /\ DOMAIN timers = 1..Len(timers)
  BY <1>0, MapsAgreeParts, Ranges DEF Inv, Entries
<1>2. n \in Node /\ n.at \in Nat /\ n.id \in Ids /\ n.id \in ids \cup fired
  <2>1. n.id \in IdsOf(timers)
    BY <1>1 DEF IdsOf
  <2>2. QED
    BY <1>1, <2>1, Ranges, MapsAgreeParts DEF Inv
<1>3. n.id \in ids <=> entry[n.id] # NULL
  BY <1>2, MapsAgreeParts DEF Inv
<1>4. \A k \in (i + 1)..Len(timers) : n.at <= timers[k].at
  <2>1. ASSUME NEW k \in (i + 1)..Len(timers) PROVE n.at <= timers[k].at
    <3>1. CASE k = i + 1
      BY <1>2, <3>1
    <3>2. CASE k # i + 1
      <4>1. k \in DOMAIN timers /\ i + 1 \in DOMAIN timers /\ i + 1 < k
        BY <1>1, <3>2
      <4>2. QED
        BY <1>1, <4>1 DEF Sorted
    <3>3. QED
      BY <3>1, <3>2
  <2>2. QED
    BY <2>1
<1>5. \A k \in 1..(i + 1) : k \in 1..i \/ timers[k] = n
  BY <1>1
<1> HIDE DEF n
<1>6. MapsAgree'
  <2>1. TypeOK'
    BY <1>0, <1>1, <1>2 DEF TypeOK
  <2>2. IdsOf(timers') \subseteq ids' \cup fired'
    BY <1>0, MapsAgreeParts DEF Inv
  <2>3. ASSUME ~late' PROVE IdsOf(timers') = ids' /\ pc' # "undefined"
    <3>1. ~late
      BY <1>0, <2>3, Zenon
    <3>2. IdsOf(timers) = ids
      BY <3>1, MapsAgreeParts DEF Inv
    <3>3. n.id \in ids
      BY <1>1, <3>2 DEF IdsOf, n
    <3>4. pc' = pc
      BY <1>0, <1>3, <3>3
    <3>5. QED
      BY <1>0, <3>2, <3>4
  <2>4. /\ Distinct(timers') /\ \A id \in Ids : id \in ids' <=> entry'[id] # NULL
    BY <1>0, <1>1, MapsAgreeParts DEF Inv
  <2>5. QED
    BY <2>1, <2>2, <2>3, <2>4, MapsAgreeParts
<1>7. Entries'
  <2>1. \A id \in ids' \cup fired' : id <= maxId'
    BY <1>0, <1>2 DEF Inv, Entries
  <2>2. ASSUME NEW k \in DOMAIN timers PROVE PlacedNode(timers[k], ids, entry, fired')
    <3>1. PlacedNode(timers[k], ids, entry, fired)
      BY DEF Inv, Entries, Placed
    <3>2. QED
      BY <1>0, <3>1 DEF PlacedNode
  <2>3. QED
    BY <1>0, <1>1, <2>1, <2>2 DEF Entries, Placed
<1>8. Round'
  <2>1. /\ now <= clock /\ \A k \in 1..i : timers[k].at <= now
        /\ \A k \in 1..i : timers[k].id \in ids \cap fired
    BY <1>0 DEF Inv, Round
  <2>2. \A k \in 1..(i + 1) : timers[k].at <= now
    BY <1>0, <1>5, <2>1
  <2>3. pc' # "undefined" => \A k \in 1..(i + 1) : timers[k].id \in ids \cap fired'
    BY <1>0, <1>3, <1>5, <2>1
  <2>4. pc' # "reap" /\ pc' # "poll"
    BY <1>0
  <2>5. QED
    BY <1>0, <2>1, <2>2, <2>3, <2>4 DEF Round
<1>9. Fires'
  <2>1. ASSUME NEW k \in ((i + 1) + 1)..Len(timers) PROVE n.at <= timers[k].at
    <3>1. k \in (i + 1)..Len(timers)
      BY <1>1
    <3>2. QED
      BY <1>4, <3>1
  <2>2. ASSUME NEW id \in ids \cap fired', Once(id) PROVE \E k \in 1..(i + 1) : timers[k].id = id
    <3>1. CASE id \in fired
      <4>1. PICK k \in 1..i : timers[k].id = id
        BY <2>2, <3>1 DEF Inv, Fires, InFront
      <4>2. k \in 1..(i + 1)
        BY <1>1, <4>1
      <4>3. QED
        BY <4>1, <4>2
    <3>2. CASE id = n.id
      BY <1>1, <3>2 DEF n
    <3>3. QED
      BY <1>0, <3>1, <3>2
  <2>3. QED
    BY <1>0, <2>1, <2>2 DEF Fires, InFront, Once
<1>10. QED
  BY <1>6, <1>7, <1>8, <1>9 DEF Inv

LEMMA EraseFiredInv ==
  ASSUME Inv, EraseFired
  PROVE  Inv'
<1> DEFINE id == timers[1].id
           ts == Tail(timers)
<1>0. /\ pc = "reap" /\ i > 0 /\ i' = i - 1
      /\ UNCHANGED <<clock, now, maxId, pc, wait, last, fired, late>>
  BY DEF EraseFired, history
<1>1. /\ TypeOK /\ Sorted(timers) /\ Distinct(timers) /\ timers \in Seq(Node)
      /\ i \in 1..Len(timers) /\ Len(timers) \in Nat /\ DOMAIN timers = 1..Len(timers)
      /\ now \in Nat
  BY <1>0, MapsAgreeParts, Ranges DEF Inv, Entries
<1>2. /\ timers # <<>> /\ id \in ids \cap fired /\ id \in Ids /\ timers[1].at <= now
      /\ timers[1].at \in Nat /\ timers[1].id = id
  <2>1. 1 \in 1..i /\ 1 \in 1..Len(timers) /\ timers # <<>>
    BY <1>1
  <2>2. QED
    BY <1>0, <1>1, <2>1, Ranges DEF Inv, Round
<1>3. Erased(timers, 1, ts) /\ 1 \in 1..Len(timers)
  BY <1>1, <1>2, TailErases
<1> HIDE DEF ts, id
<1>4. /\ ts \in Seq(Node) /\ Len(ts) = Len(timers) - 1 /\ Sorted(ts) /\ Distinct(ts)
      /\ IdsOf(ts) = IdsOf(timers) \ {id} /\ From(ts, timers, {})
  <2>1. 0 \in 0..(1 - 1) /\ 0 \in 0..Len(timers)
    BY <1>1
  <2>2. /\ ts \in Seq(Node) /\ Len(ts) = Len(timers) - 1 /\ Sorted(ts) /\ Distinct(ts)
        /\ SameFront(ts, timers, 0) /\ Behind(ts, timers, 0, {})
        /\ IdsOf(ts) = IdsOf(timers) \ {timers[1].id}
    <3>1. timers \in Seq(Node) /\ Sorted(timers) /\ Distinct(timers)
      BY <1>1
    <3>2. QED
      BY <1>3, <2>1, <3>1, EraseKeeps
  <2>3. From(ts, timers, {})
    BY <1>1, <2>1, <2>2, WhereFrom
  <2>4. QED
    BY <1>2, <2>2, <2>3
<1>5. /\ \A k \in 1..(i - 1) : k + 1 \in 1..i /\ ts[k] = timers[k + 1] /\ k \in 1..Len(ts)
      /\ \A k \in i..Len(ts) : k + 1 \in (i + 1)..Len(timers) /\ ts[k] = timers[k + 1]
      /\ DOMAIN ts = 1..Len(ts) /\ (i - 1) + 1 = i /\ i - 1 \in 0..Len(ts)
  <2>1. ASSUME NEW k \in 1..Len(ts) PROVE ts[k] = timers[k + 1]
    BY <1>1, <1>3, <1>4 DEF Erased
  <2>2. ASSUME NEW k \in 1..(i - 1) PROVE k + 1 \in 1..i /\ k \in 1..Len(ts)
    BY <1>1, <1>4
  <2>3. ASSUME NEW k \in i..Len(ts) PROVE k + 1 \in (i + 1)..Len(timers) /\ k \in 1..Len(ts)
    BY <1>1, <1>4
  <2>4. DOMAIN ts = 1..Len(ts) /\ (i - 1) + 1 = i /\ i - 1 \in 0..Len(ts)
    BY <1>1, <1>4
  <2>5. QED
    BY <2>1, <2>2, <2>3, <2>4
<1>6. /\ \A k \in 1..(i - 1) : ts[k].at <= now /\ ts[k].id \in ids \cap fired /\ ts[k].id # id
      /\ \A k \in i..Len(ts) : Pending(ts[k]) /\ last <= ts[k].at /\ ts[k].id # id
  <2>1. /\ \A k \in 1..i : timers[k].at <= now /\ timers[k].id \in ids \cap fired
        /\ \A k \in (i + 1)..Len(timers) : Pending(timers[k]) /\ last <= timers[k].at
    BY <1>0 DEF Inv, Round, Fires
  <2>2. ASSUME NEW k \in 1..Len(ts) PROVE ts[k].id # id
    <3>1. ts[k].id \in IdsOf(ts)
      BY <1>5 DEF IdsOf
    <3>2. QED
      BY <1>4, <3>1
  <2>3. \A k \in i..Len(ts) : k \in 1..Len(ts)
    BY <1>1, <1>4
  <2>4. QED
    BY <1>5, <2>1, <2>2, <2>3
\* A once timer that fired before is still in front.
<1>7. ASSUME NEW x \in ids \cap fired, x # id, Once(x)
      PROVE  \E k \in 1..(i - 1) : ts[k].id = x
  <2>1. PICK k \in 1..i : timers[k].id = x
    BY <1>7 DEF Inv, Fires, InFront
  <2>2. k - 1 \in 1..(i - 1) /\ (k - 1) + 1 = k
    BY <1>1, <1>2, <1>7, <2>1
  <2>3. ts[k - 1].id = x
    BY <1>5, <2>1, <2>2
  <2>4. QED
    BY <2>2, <2>3
<1>8. /\ IdsOf(timers) \subseteq ids \cup fired
      /\ ~late => IdsOf(timers) = ids /\ pc # "undefined"
  BY MapsAgreeParts DEF Inv
<1>9. CASE Once(id)
  <2>1. timers' = ts /\ ids' = ids \ {id} /\ entry' = [entry EXCEPT ![id] = NULL]
    BY <1>9 DEF EraseFired, Forgotten, ts, id
  <2>2. \A x \in Ids : x # id => entry'[x] = entry[x]
    BY <1>1, <1>2, <2>1 DEF TypeOK
  <2>3. MapsAgree'
    <3>1. i' \in 0..Len(timers')
      BY <1>0, <1>5, <2>1
    <3>2. entry' \in [Ids -> TimerEntry \cup {NULL}]
      BY <1>1, <2>1 DEF TypeOK
    <3>3. TypeOK'
      BY <1>0, <1>1, <1>4, <2>1, <3>1, <3>2 DEF TypeOK
    <3>4. \A x \in Ids : x \in ids' <=> entry'[x] # NULL
      BY <1>1, <1>2, <2>1, MapsAgreeParts DEF Inv, TypeOK
    <3>5. IdsOf(timers') \subseteq ids' \cup fired'
      BY <1>0, <1>4, <1>8, <2>1
    <3>6. ~late' => IdsOf(timers') = ids' /\ pc' # "undefined"
      BY <1>0, <1>4, <1>8, <2>1
    <3>7. QED
      BY <1>4, <2>1, <3>3, <3>4, <3>5, <3>6, MapsAgreeParts
  <2>4. Entries'
    <3>1. \A x \in ids' \cup fired' : x <= maxId'
      BY <1>0, <2>1 DEF Inv, Entries
    <3>2. ASSUME NEW k \in DOMAIN ts PROVE PlacedNode(ts[k], ids', entry', fired')
      <4>1. PICK l \in DOMAIN timers : ts[k] = timers[l]
        BY <1>4 DEF From
      <4>2. PlacedNode(timers[l], ids, entry, fired) /\ timers[l].id \in Ids
        BY <1>1, Ranges DEF Inv, Entries, Placed
      <4>3. CASE timers[l].id = id
        BY <2>1, <4>1, <4>3 DEF PlacedNode
      <4>4. CASE timers[l].id # id
        BY <1>0, <2>1, <2>2, <4>1, <4>2, <4>4 DEF PlacedNode
      <4>5. QED
        BY <4>3, <4>4
    <3>3. QED
      BY <1>4, <2>1, <3>1, <3>2 DEF Entries, Placed
  <2>5. Round'
    <3>1. \A k \in 1..(i - 1) : ts[k].at <= now /\ ts[k].id \in ids' \cap fired'
      BY <1>0, <1>6, <2>1
    <3>2. ASSUME NEW k \in i..Len(ts), NEW n, n = ts[k] PROVE Pending(n)'
      <4>1. Pending(n) /\ n.id # id
        BY <1>6, <3>2
      <4>2. CASE Again(n)
        <5>1. n.id \in Ids /\ n.id \in ids \cap fired /\ n = Rearm(n.id)
          BY <1>1, <4>2, Ranges DEF Again
        <5>2. entry'[n.id] = entry[n.id] /\ n.id \in ids' \cap fired'
          BY <1>0, <2>1, <2>2, <4>1, <5>1
        <5>3. Again(n)'
          BY <1>0, <5>1, <5>2 DEF Again, Rearm
        <5>4. QED
          BY <5>3 DEF Pending
      <4>3. CASE n.at > now /\ now + wait <= n.at
        BY <1>0, <4>3 DEF Pending
      <4>4. QED
        BY <4>1, <4>2, <4>3 DEF Pending
    <3>3. \A k \in i..Len(ts) : Pending(timers[k])'
      BY <2>1, <3>2
    <3>4. now' <= clock' /\ pc' = "reap"
      BY <1>0 DEF Inv, Round
    <3>5. QED
      BY <1>0, <1>5, <2>1, <3>1, <3>3, <3>4 DEF Round
  <2>6. Fires'
    <3>1. \A k \in i..Len(ts) : last <= ts[k].at
      BY <1>6
    <3>2. ASSUME NEW x \in ids' \cap fired', Once(x)' PROVE \E k \in 1..(i - 1) : ts[k].id = x
      <4>1. x \in ids \cap fired /\ x # id /\ x \in Ids
        BY <1>0, <1>1, <2>1, Ranges
      <4>2. Once(x)
        BY <2>2, <3>2, <4>1 DEF Once
      <4>3. QED
        BY <1>7, <4>1, <4>2
    <3>3. last' <= now'
      BY <1>0 DEF Inv, Fires
    <3>4. QED
      BY <1>0, <1>5, <2>1, <3>1, <3>2, <3>3 DEF Fires, InFront
  <2>7. QED
    BY <2>3, <2>4, <2>5, <2>6 DEF Inv
<1>10. CASE ~Once(id)
  <2> DEFINE n == Rearm(id)
             us == Insert(ts, n)
  <2>1. timers' = us /\ ids' = ids /\ entry' = entry
    BY <1>10 DEF EraseFired, ts, id
  <2>2. /\ n \in Node /\ n.id = id /\ n.at \in Nat /\ n.at >= now
        /\ entry[id].expire <= n.at
    <3>1. entry[id] \in TimerEntry
      BY <1>1, <1>2, MapsAgreeParts DEF Inv, TypeOK
    <3>2. entry[id].timeout \in Nat /\ entry[id].expire \in Nat
      BY <3>1 DEF TimerEntry
    <3>3. entry[id].expire <= timers[1].at
      <4>1. PlacedNode(timers[1], ids, entry, fired)
        BY <1>1, <1>3 DEF Inv, Entries, Placed
      <4>2. QED
        BY <1>2, <4>1 DEF PlacedNode
    <3>4. n = [at |-> now + entry[id].timeout, id |-> id]
      BY DEF Rearm
    <3>5. n.id = id /\ n.at = now + entry[id].timeout
      BY <3>4
    <3> HIDE DEF n
    <3>6. \A a, b, x, y \in Nat : a <= b /\ b <= x => a <= x + y /\ x + y >= x /\ x + y \in Nat
      OBVIOUS
    <3>7. n.at \in Nat /\ n.at >= now /\ entry[id].expire <= n.at
      BY <1>1, <1>2, <3>2, <3>3, <3>5, <3>6
    <3>8. n \in Node
      BY <1>2, <3>4, <3>5, <3>7 DEF Node
    <3>9. QED
      BY <3>5, <3>7, <3>8
  <2>3. n.id \notin IdsOf(ts)
    BY <1>4, <2>2
  <2>4. us = Insert(ts, n)
    OBVIOUS
  <2>a. n = Rearm(id)
    OBVIOUS
  <2> HIDE DEF n, us
  <2>5. Ahead(ts, i - 1, n.at)
    <3>1. ASSUME NEW k \in 1..(i - 1) PROVE ts[k].at <= n.at
      <4>1. ts[k].at <= now /\ k \in 1..Len(ts)
        BY <1>5, <1>6
      <4>2. ts[k].at \in Nat
        BY <1>4, <4>1, NodeAt
      <4>3. QED
        BY <1>1, <2>2, <4>1, <4>2
    <3>2. QED
      BY <3>1 DEF Ahead
  <2>6. /\ us \in Seq(Node) /\ Len(us) = Len(ts) + 1 /\ Sorted(us)
        /\ SameFront(us, ts, i - 1)
        /\ Behind(us, ts, i - 1, {n})
        /\ IdsOf(us) = IdsOf(ts) \cup {n.id}
        /\ (Distinct(ts) /\ n.id \notin IdsOf(ts)) => Distinct(us)
    <3>1. ts \in Seq(Node) /\ Sorted(ts) /\ i - 1 \in 0..Len(ts) /\ n \in Node
      BY <1>4, <1>5, <2>2
    <3>2. QED
      BY <2>4, <2>5, <3>1, InsertKeeps
  <2>7. From(us, ts, {n})
    BY <1>4, <1>5, <2>6, WhereFrom
  <2>8. Distinct(us) /\ IdsOf(us) = (IdsOf(timers) \ {id}) \cup {id}
    BY <1>4, <2>2, <2>3, <2>6
  <2>9. ASSUME NEW k \in i..Len(us) PROVE us[k] = n \/ \E l \in i..Len(ts) : us[k] = ts[l]
    BY <1>5, <2>6 DEF Behind
  <2>10. MapsAgree'
    <3>1. i' \in 0..Len(timers')
      <4>1. \A a, b \in Nat : a \in 0..b => a \in 0..(b + 1)
        OBVIOUS
      <4>2. QED
        BY <1>0, <1>4, <1>5, <2>1, <2>6, <4>1
    <3>2. TypeOK'
      BY <1>0, <1>1, <2>1, <2>6, <3>1 DEF TypeOK
    <3>3. IdsOf(timers') \subseteq ids' \cup fired'
      BY <1>0, <1>2, <1>8, <2>1, <2>8
    <3>4. ~late' => IdsOf(timers') = ids' /\ pc' # "undefined"
      BY <1>0, <1>2, <1>8, <2>1, <2>8
    <3>5. \A x \in Ids : x \in ids' <=> entry'[x] # NULL
      BY <2>1, MapsAgreeParts DEF Inv
    <3>6. QED
      BY <2>1, <2>8, <3>2, <3>3, <3>4, <3>5, MapsAgreeParts
  <2>11. Entries'
    <3>1. \A x \in ids' \cup fired' : x <= maxId'
      BY <1>0, <2>1 DEF Inv, Entries
    <3>2. ASSUME NEW k \in DOMAIN us PROVE PlacedNode(us[k], ids, entry, fired)
      <4>1. CASE us[k] = n
        BY <1>2, <2>2, <4>1 DEF PlacedNode
      <4>2. ASSUME NEW l \in DOMAIN ts, us[k] = ts[l] PROVE PlacedNode(us[k], ids, entry, fired)
        <5>1. PICK j \in DOMAIN timers : ts[l] = timers[j]
          BY <1>4 DEF From
        <5>2. QED
          BY <4>2, <5>1 DEF Inv, Entries, Placed
      <4>3. QED
        BY <2>7, <4>1, <4>2 DEF From
    <3>3. QED
      BY <1>0, <2>1, <2>6, <3>1, <3>2 DEF Entries, Placed
  <2>12. Round'
    <3>1. \A k \in 1..(i - 1) : us[k].at <= now /\ us[k].id \in ids \cap fired
      BY <1>6, <2>6 DEF SameFront
    <3>2. Again(n)
      BY <1>2, <2>2, <2>a DEF Again
    <3>3. ASSUME NEW k \in i..Len(us) PROVE Pending(us[k])
      BY <1>6, <2>9, <3>2 DEF Pending
    <3>4. ASSUME NEW k \in i..Len(us), NEW m, m = us[k] PROVE Pending(m)'
      <4>1. Pending(m)
        BY <3>3, <3>4
      <4>2. QED
        BY <1>0, <2>1, <4>1 DEF Pending, Again, Rearm
    <3>5. \A k \in i..Len(us) : Pending(timers[k])'
      BY <2>1, <3>4
    <3>6. now' <= clock' /\ pc' = "reap"
      BY <1>0 DEF Inv, Round
    <3>7. QED
      BY <1>0, <1>5, <2>1, <3>1, <3>5, <3>6 DEF Round
  <2>13. Fires'
    <3>1. last <= now /\ last \in Nat
      BY <1>1, Ranges DEF Inv, Fires
    <3>2. ASSUME NEW k \in i..Len(us) PROVE last <= us[k].at
      <4>1. CASE us[k] = n
        BY <1>1, <2>2, <3>1, <4>1
      <4>2. CASE \E l \in i..Len(ts) : us[k] = ts[l]
        BY <1>6, <4>2
      <4>3. QED
        BY <2>9, <4>1, <4>2
    <3>3. ASSUME NEW x \in ids \cap fired, Once(x) PROVE \E k \in 1..(i - 1) : us[k].id = x
      <4>1. x # id
        BY <1>10, <3>3
      <4>2. PICK k \in 1..(i - 1) : ts[k].id = x
        BY <1>7, <3>3, <4>1
      <4>3. us[k] = ts[k]
        BY <2>6 DEF SameFront
      <4>4. QED
        BY <4>2, <4>3
    <3>4. QED
      BY <1>0, <1>5, <2>1, <3>1, <3>2, <3>3 DEF Fires, InFront, Once
  <2>14. QED
    BY <2>10, <2>11, <2>12, <2>13 DEF Inv
<1>11. QED
  BY <1>9, <1>10

\* What executeTimers computes for the sleep ends no later than any timer that
\* is not due.
LEMMA EndLoopFacts ==
  ASSUME Inv, EndLoop
  PROVE  /\ wait' \in Nat \ {0}
         /\ \A k \in (i + 1)..Len(timers) : timers[k].at > now /\ now + wait' <= timers[k].at
<1> DEFINE rest == SubSeq(timers, i + 1, Len(timers))
<1>1. /\ TypeOK /\ timers \in Seq(Node) /\ i \in Nat /\ i <= Len(timers) /\ Len(timers) \in Nat
      /\ now \in Nat
  BY MapsAgreeParts, Ranges DEF Inv
<1>2. wait' = TimeLeft(rest) /\ (i < Len(timers) => ~(timers[i + 1].at <= now))
  BY DEF EndLoop, Due
<1>3. CASE i = Len(timers)
  <2>1. Len(rest) = 0 /\ rest \in Seq(Node)
    BY <1>1, <1>3, SubSeqProperties
  <2> HIDE DEF rest
  <2>2. rest = <<>>
    BY <2>1, EmptySeq
  <2>3. wait' = Default /\ \A k \in (i + 1)..Len(timers) : FALSE
    BY <1>1, <1>2, <1>3, <2>2 DEF TimeLeft
  <2>4. QED
    BY <2>3, TimersAssumption
<1>4. CASE i # Len(timers)
  <2>1. i + 1 \in 1..Len(timers) /\ i < Len(timers)
    BY <1>1, <1>4
  <2>2. Len(rest) = Len(timers) - (i + 1) + 1 /\ rest[1] = timers[i + 1]
    <3>1. Len(rest) = Len(timers) - (i + 1) + 1
      BY <1>1, <2>1, SubSeqProperties
    <3>2. 1 \in 1..(Len(timers) - (i + 1) + 1) /\ (i + 1) + 1 - 1 = i + 1
      BY <1>1, <2>1
    <3>3. rest[1] = timers[i + 1]
      BY <1>1, <2>1, <3>2, SubSeqProperties
    <3>4. QED
      BY <3>1, <3>3
  <2> HIDE DEF rest
  <2>3. Len(rest) # 0 /\ Len(<<>>) = 0
    <3>1. Len(rest) \in Nat \ {0}
      BY <1>1, <2>1, <2>2
    <3>2. QED
      BY <3>1
  <2>4. rest # <<>>
    BY <2>3
  <2>5. wait' = timers[i + 1].at - now
    BY <1>2, <2>2, <2>4 DEF TimeLeft
  <2>6. timers[i + 1].at \in Nat /\ timers[i + 1].at > now
    BY <1>1, <1>2, <2>1, Ranges
  <2>7. ASSUME NEW k \in (i + 1)..Len(timers)
        PROVE  timers[k].at \in Nat /\ timers[i + 1].at <= timers[k].at
    <3>1. k \in 1..Len(timers) /\ timers[k].at \in Nat
      BY <1>1, <2>1, Ranges
    <3>2. CASE k = i + 1
      BY <2>6, <3>1, <3>2
    <3>3. CASE k # i + 1
      <4>1. i + 1 < k /\ DOMAIN timers = 1..Len(timers) /\ Sorted(timers)
        BY <1>1, <2>1, <3>1, <3>3 DEF Inv, Entries
      <4>2. QED
        BY <2>1, <3>1, <4>1 DEF Sorted
    <3>4. QED
      BY <3>2, <3>3
  <2>8. wait' \in Nat \ {0} /\ now + wait' = timers[i + 1].at
    <3>1. \A a, b \in Nat : a > b => a - b \in Nat \ {0} /\ b + (a - b) = a
      OBVIOUS
    <3>2. timers[i + 1].at - now \in Nat \ {0} /\ now + (timers[i + 1].at - now) = timers[i + 1].at
      BY <1>1, <2>6, <3>1
    <3>3. QED
      BY <2>5, <3>2
  <2>9. ASSUME NEW k \in (i + 1)..Len(timers)
        PROVE  timers[k].at > now /\ now + wait' <= timers[k].at
    BY <1>1, <2>6, <2>7, <2>8
  <2>10. QED
    BY <2>8, <2>9
<1>5. QED
  BY <1>3, <1>4

\* The clock, the rounds and the end of the loops.
LEMMA OtherInv ==
  ASSUME Inv, Tick \/ Dispatch \/ EndLoop \/ Return \/ UNCHANGED vars
  PROVE  Inv'
<1>1. /\ TypeOK /\ UNCHANGED <<timers, ids, entry, maxId, last, fired, late>>
      /\ IdsOf(timers) \subseteq ids \cup fired
  BY MapsAgreeParts DEF Inv, Tick, Dispatch, EndLoop, Return, vars, history
<1>a. /\ pc = "undefined" <=> pc' = "undefined"
      /\ pc' \in {"poll", "fire", "reap", "undefined"}
  BY <1>1 DEF TypeOK, Tick, Dispatch, EndLoop, Return, vars
<1>b. clock \in Nat /\ now \in Nat /\ i \in Nat /\ i <= Len(timers) /\ Len(timers) \in Nat /\ now <= clock
  BY <1>1, Ranges DEF Inv, Round
<1>2. /\ i' = i /\ clock' \in Nat /\ now' \in Nat /\ now <= now' /\ now' <= clock'
      /\ (pc' = "poll" => i' = 0)
  BY <1>b DEF Inv, Round, Tick, Dispatch, EndLoop, Return, vars
<1>3. wait' \in Nat \ {0}
  <2>1. CASE ~EndLoop
    BY <1>1, <2>1 DEF TypeOK, Tick, Dispatch, Return, vars
  <2>2. QED
    BY <2>1, EndLoopFacts
<1>4. MapsAgree'
  <2>1. TypeOK'
    BY <1>1, <1>a, <1>2, <1>3 DEF TypeOK
  <2>2. /\ Distinct(timers') /\ \A id \in Ids : id \in ids' <=> entry'[id] # NULL
    BY <1>1, MapsAgreeParts DEF Inv
  <2>3. ~late' => IdsOf(timers') = ids' /\ pc' # "undefined"
    BY <1>1, <1>a, MapsAgreeParts DEF Inv
  <2>4. QED
    BY <1>1, <2>1, <2>2, <2>3, MapsAgreeParts
<1>5. Entries'
  BY <1>1 DEF Inv, Entries, Placed
<1>6. Round'
  <2>1. ASSUME NEW k \in 1..i PROVE timers[k].at <= now'
    <3>1. timers[k].at <= now /\ timers[k].at \in Nat
      BY <1>1, <1>b, Ranges DEF Inv, Round
    <3>2. QED
      BY <1>b, <1>2, <3>1
  <2>2. pc' # "undefined" => \A k \in 1..i : timers[k].id \in ids \cap fired
    BY <1>a DEF Inv, Round
  <2>3. ASSUME pc' = "reap", NEW k \in (i + 1)..Len(timers), NEW n, n = timers[k] PROVE Pending(n)'
    <3>1. CASE EndLoop
      <4>1. n.at > now /\ now + wait' <= n.at /\ now' = now
        BY <2>3, <3>1, EndLoopFacts DEF EndLoop
      <4>2. QED
        BY <4>1 DEF Pending
    <3>2. CASE ~EndLoop
      <4>1. pc = "reap" /\ UNCHANGED <<now, wait>>
        BY <2>3, <3>2 DEF Tick, Dispatch, Return, vars
      <4>2. Pending(n)
        BY <2>3, <4>1 DEF Inv, Round
      <4>3. QED
        BY <1>1, <4>1, <4>2 DEF Pending, Again, Rearm
    <3>3. QED
      BY <3>1, <3>2
  <2>4. pc' = "reap" => \A k \in (i + 1)..Len(timers) : Pending(timers[k])'
    BY <1>1, <2>3
  <2>5. QED
    BY <1>1, <1>2, <2>1, <2>2, <2>4 DEF Round
<1>7. Fires'
  <2>1. last <= now'
    <3>1. last <= now /\ last \in Nat
      BY <1>1, Ranges DEF Inv, Fires
    <3>2. QED
      BY <1>b, <1>2, <3>1
  <2>2. QED
    BY <1>1, <1>2, <2>1 DEF Inv, Fires, InFront, Once
<1>8. QED
  BY <1>4, <1>5, <1>6, <1>7 DEF Inv

LEMMA NextInv == Inv /\ [Next]_vars => Inv'
<1> SUFFICES ASSUME Inv, [Next]_vars PROVE Inv'
  OBVIOUS
<1>1. CASE \E d \in Delays, t \in Types : AddTimer(d, t)
  BY <1>1, AddTimerInv
<1>2. CASE \E id \in Ids : CancelTimer(id)
  BY <1>2, CancelTimerInv
<1>3. CASE FireNext
  BY <1>3, FireNextInv
<1>4. CASE EraseFired
  BY <1>4, EraseFiredInv
<1>5. CASE Tick \/ Dispatch \/ EndLoop \/ Return \/ UNCHANGED vars
  BY <1>5, OtherInv
<1>6. QED
  BY <1>1, <1>2, <1>3, <1>4, <1>5 DEF Next, ExecuteTimers

\* The invariant of the poller's timers, whatever callbacks add and cancel, the
\* clock ticking or not.
THEOREM InvHolds == Spec => []Inv
<1>1. QED
  BY InitInv, NextInv, PTL DEF Spec

\* AddTimer, CancelTimer and the loop over del_timers keep every timer at most
\* once in timers_ and no deleted entry in timer_ids_; until a timer is
\* cancelled that has fired, timers_ and timer_ids_ hold the same timers and
\* nothing undefined happens, and no timer that has not fired is ever in
\* timers_ alone.
THEOREM OneTable == Spec => []MapsAgree
<1>1. Inv => MapsAgree
  BY DEF Inv
<1>2. QED
  BY InvHolds, <1>1, PTL

\* Timers fire in the order of their expiry, over all rounds of executeTimers,
\* whatever callbacks add and cancel, and none before its time.
THEOREM InOrder == Spec => FiredInOrder
<1>1. ASSUME Inv, [Next]_vars PROVE Ordered \/ UNCHANGED vars
  <2>1. /\ TypeOK /\ i \in Nat /\ Len(timers) \in Nat /\ last \in Nat /\ now \in Nat /\ clock \in Nat
        /\ last <= now /\ now <= clock
    BY <1>1, MapsAgreeParts, Ranges DEF Inv, Fires, Round
  <2>2. CASE FireNext
    <3>1. i + 1 \in (i + 1)..Len(timers) /\ i + 1 \in 1..Len(timers)
      BY <2>1, <2>2 DEF FireNext
    <3>2. /\ last <= timers[i + 1].at /\ timers[i + 1].at <= now /\ last' = timers[i + 1].at
          /\ timers[i + 1].at \in Nat
      BY <1>1, <2>1, <2>2, <3>1, Ranges DEF Inv, Fires, FireNext, Due
    <3>3. QED
      BY <2>1, <3>2 DEF Ordered
  <2>3. CASE ~FireNext
    <3>1. last' = last
      BY <1>1, <2>3 DEF Next, ExecuteTimers, EndLoop, EraseFired, Return, Tick, Dispatch, AddTimer,
         CancelTimer, vars, history
    <3>2. QED
      BY <2>1, <3>1 DEF Ordered
  <2>4. QED
    BY <2>2, <2>3
<1>2. Inv /\ [Next]_vars => [Ordered]_vars
  BY <1>1
<1>3. QED
  BY InvHolds, <1>2, PTL DEF Spec, FiredInOrder

\* executeTimers returns with no timer overdue, but for permanent ones armed
\* again with a timeout of zero, and the sleep it gives to Poll ends no later
\* after the expiry of a timer that was pending than callbacks took.
THEOREM Timely == Spec => NoneOverdue
<1>1. ASSUME Inv, Return, NEW k \in DOMAIN timers
      PROVE  \/ Again(timers[k])
             \/ timers[k].at > now /\ clock + wait <= timers[k].at + (clock - now)
  <2>1. /\ TypeOK /\ pc = "reap" /\ i = 0 /\ now \in Nat /\ clock \in Nat /\ wait \in Nat
        /\ now <= clock /\ Len(timers) \in Nat /\ DOMAIN timers = 1..Len(timers)
    BY <1>1, MapsAgreeParts, Ranges DEF Inv, Return, Round
  <2>2. k \in (i + 1)..Len(timers) /\ timers[k].at \in Nat
    BY <2>1, Ranges
  <2>3. Pending(timers[k])
    BY <1>1, <2>1, <2>2 DEF Inv, Round
  <2>4. ASSUME timers[k].at > now, now + wait <= timers[k].at
        PROVE  clock + wait <= timers[k].at + (clock - now)
    <3>1. \A a, b, x, y \in Nat : a <= b /\ a + x <= y => b + x <= y + (b - a)
      OBVIOUS
    <3>2. QED
      BY <2>1, <2>2, <2>4, <3>1
  <2>5. QED
    BY <2>3, <2>4 DEF Pending
<1>2. Inv => InTime
  BY <1>1 DEF InTime
<1>3. QED
  BY InvHolds, <1>2, PTL DEF Spec, NoneOverdue

\* A timer that was cancelled before it fired never fires, one that was
\* cancelled after that is reached only through its deleted entry, and a once
\* timer fires once.
THEOREM FiresNoMore == Spec => NoneAfterEnd
<1> DEFINE Ended == \A id \in Ids : Firing(id) => Expected(id)
<1>1. ASSUME Inv, FireNext, NEW id \in Ids, Firing(id) PROVE Expected(id)
  <2>1. /\ TypeOK /\ Distinct(timers) /\ IdsOf(timers) \subseteq ids \cup fired
        /\ i \in Nat /\ i + 1 \in 1..Len(timers) /\ DOMAIN timers = 1..Len(timers)
        /\ Len(timers) \in Nat
    BY <1>1, MapsAgreeParts, Ranges DEF Inv, FireNext
  <2>2. timers[i + 1].id = id
    BY <1>1 DEF Firing, FireNext
  <2>3. id \in ids \cup fired
    BY <2>1, <2>2 DEF IdsOf
  <2>4. id \notin ids => pc' = "undefined"
    <3>1. id \in ids <=> entry[id] # NULL
      BY <1>1, MapsAgreeParts DEF Inv
    <3>2. QED
      BY <1>1, <2>2, <3>1 DEF FireNext
  <2>5. ASSUME id \in ids \cap fired, Once(id) PROVE FALSE
    <3>1. PICK j \in 1..i : timers[j].id = id
      BY <1>1, <2>5 DEF Inv, Fires, InFront
    <3>2. j \in DOMAIN timers /\ i + 1 \in DOMAIN timers /\ j # i + 1
      BY <2>1
    <3>3. QED
      BY <2>1, <2>2, <3>1, <3>2 DEF Distinct
  <2>6. QED
    BY <2>3, <2>4, <2>5 DEF Expected
<1>2. ASSUME Inv, [Next]_vars, ~FireNext, NEW id \in Ids, Firing(id) PROVE FALSE
  <2>1. i \in Nat
    BY <1>2, MapsAgreeParts, Ranges DEF Inv
  <2>2. i' \in {i, 0, i - 1}
    BY <1>2 DEF Next, ExecuteTimers, EndLoop, EraseFired, Return, Tick, Dispatch, AddTimer,
       CancelTimer, vars
  <2>3. QED
    BY <1>2, <2>1, <2>2 DEF Firing
<1>3. Inv /\ [Next]_vars => [Ended]_vars
  BY <1>1, <1>2
<1>4. QED
  BY InvHolds, <1>3, PTL DEF Spec, NoneAfterEnd
=============================================================================
