------------------------ MODULE BlockingQueueProofs ------------------------
(***************************************************************************)
(* The properties of the queue for any threads, addresses and data: the    *)
(* list is consistent, every element has one owner, no wake-up is lost,    *)
(* and the queue implements the deque.                                     *)
(***************************************************************************)
EXTENDS BlockingQueue, SequenceTheorems, FiniteSetTheorems,
        WellFoundedInduction, TLAPS

\* LinksMatch and the first part of EveryElementOwned, of any list.
Linked(q, h, t, nx, pv) ==
  /\ h = IF q = << >> THEN NULL ELSE q[1]
  /\ t = IF q = << >> THEN NULL ELSE q[Len(q)]
  /\ \A i \in 1..Len(q) :
       /\ nx[q[i]] = IF i = 1 THEN NULL ELSE q[i - 1]
       /\ pv[q[i]] = IF i = Len(q) THEN NULL ELSE q[i + 1]

Distinct(q) == \A i, j \in 1..Len(q) : q[i] = q[j] => i = j

Links == [Elements -> Elements \cup {NULL}]

IInv == TypeOK /\ LinksMatch /\ EveryElementOwned /\ NoLostWakeup

-----------------------------------------------------------------------------
\* Every set of naturals that is not empty has a least element.
LEMMA LeastNatural ==
  ASSUME NEW T, T \subseteq Nat, T # {}
  PROVE  \E x \in T : \A y \in T : x <= y
<1>1. IsWellFoundedOn(OpToRel(<, Nat), Nat)
  BY NatLessThanWellFounded
<1>2. PICK x \in T : \A y \in T : ~(<<y, x>> \in OpToRel(<, Nat))
  BY <1>1, WFMin
<1>3. \A y \in T : ~ (y < x)
  BY <1>2 DEF OpToRel
<1>4. \A y \in T : y \in Int /\ x \in Int
  OBVIOUS
<1>5. \A y \in T : x <= y
  BY <1>3, <1>4
<1>. QED
  BY <1>5

-----------------------------------------------------------------------------
\* What <<e>> \o q holds, for an element that q does not hold.
LEMMA PrependProperties ==
  ASSUME NEW S, NEW q \in Seq(S), NEW e \in S
  PROVE  /\ <<e>> \o q \in Seq(S)
         /\ Len(<<e>> \o q) = Len(q) + 1
         /\ (<<e>> \o q)[1] = e
         /\ \A i \in 2..(Len(q) + 1) : (<<e>> \o q)[i] = q[i - 1]
<1>1. <<e>> \in Seq(S) /\ Len(<<e>>) = 1 /\ <<e>>[1] = e
  OBVIOUS
<1>2. /\ <<e>> \o q \in Seq(S)
      /\ Len(<<e>> \o q) = Len(<<e>>) + Len(q)
      /\ \A i \in 1..(Len(<<e>>) + Len(q)) :
           (<<e>> \o q)[i] = IF i <= Len(<<e>>) THEN <<e>>[i] ELSE q[i - Len(<<e>>)]
  BY <1>1, ConcatProperties
<1>3. Len(q) \in Nat
  OBVIOUS
<1>. QED
  BY <1>1, <1>2, <1>3

\* Q_put at the head of a consistent list.
LEMMA PutHeadLinked ==
  ASSUME NEW q \in Seq(Elements), NEW h, NEW t, NEW nx \in Links, NEW pv \in Links,
         Linked(q, h, t, nx, pv), Distinct(q),
         NEW e \in Elements, \A i \in 1..Len(q) : q[i] # e
  PROVE  /\ Linked(<<e>> \o q, e, IF t = NULL THEN e ELSE t,
                   [x \in Elements |-> IF x = e THEN NULL
                                       ELSE IF x = h THEN e ELSE nx[x]],
                   [pv EXCEPT ![e] = h])
         /\ Distinct(<<e>> \o q)
<1> DEFINE r == <<e>> \o q
           n == [x \in Elements |-> IF x = e THEN NULL
                                    ELSE IF x = h THEN e ELSE nx[x]]
           p == [pv EXCEPT ![e] = h]
<1>0. NULL \notin Elements
  BY NullAssumption
<1>1. /\ r \in Seq(Elements) /\ Len(r) = Len(q) + 1 /\ r[1] = e
      /\ \A i \in 2..(Len(q) + 1) : r[i] = q[i - 1]
  BY PrependProperties
<1>2. Len(q) \in Nat /\ \A i \in 1..Len(q) : q[i] \in Elements
  OBVIOUS
<1>3. r # << >>
  BY <1>1, <1>2
<1>4. CASE Len(q) = 0
  <2>1. q = << >> /\ h = NULL /\ t = NULL
    BY <1>4 DEF Linked
  <2>2. n[e] = NULL /\ p[e] = NULL
    BY <2>1 DEF Links
  <2> HIDE DEF r, n, p
  <2>3. Linked(r, e, e, n, p) /\ Distinct(r)
    BY <1>1, <1>3, <1>4, <2>2 DEF Linked, Distinct
  <2>. QED
    BY <2>1, <2>3 DEF r, n, p
<1>5. CASE Len(q) # 0
  <2>1. Len(q) > 0 /\ q # << >> /\ h = q[1] /\ t = q[Len(q)] /\ t # NULL
    BY <1>0, <1>2, <1>5 DEF Linked
  <2>2. /\ n[e] = NULL /\ p[e] = q[1] /\ n[q[1]] = e
        /\ \A i \in 1..Len(q) : p[q[i]] = pv[q[i]]
        /\ \A i \in 2..Len(q) : n[q[i]] = nx[q[i]]
    BY <1>2, <2>1 DEF Links, Distinct
  <2> HIDE DEF r, n, p
  <2>3. r[Len(r)] = t
    BY <1>1, <1>2, <2>1
  <2>4. ASSUME NEW i \in 1..Len(r)
        PROVE  /\ n[r[i]] = IF i = 1 THEN NULL ELSE r[i - 1]
               /\ p[r[i]] = IF i = Len(r) THEN NULL ELSE r[i + 1]
    <3>1. CASE i = 1
      BY <1>1, <1>2, <2>1, <2>2, <3>1
    <3>2. CASE i = 2
      <4>1. r[2] = q[1] /\ n[q[1]] = e /\ p[q[1]] = pv[q[1]] /\ 1 \in 1..Len(q)
        BY <1>1, <1>2, <2>1, <2>2
      <4>2. pv[q[1]] = IF 1 = Len(q) THEN NULL ELSE q[1 + 1]
        BY <4>1 DEF Linked
      <4>3. Len(q) # 1 => r[3] = q[3 - 1]
        <5>1. Len(q) # 1 => 3 \in 2..(Len(q) + 1)
          BY <1>2, <2>1
        <5>. QED
          BY <1>1, <5>1
      <4>4. 1 + 1 = 2 /\ 3 - 1 = 2 /\ 2 + 1 = 3 /\ 2 - 1 = 1
        OBVIOUS
      <4>5. Len(r) = 2 <=> Len(q) = 1
        <5>1. Len(r) = Len(q) + 1 /\ Len(q) \in Nat
          BY <1>1, <1>2
        <5> DEFINE m == Len(q)
                   n1 == Len(r)
        <5>2. n1 = m + 1 /\ m \in Nat
          BY <5>1
        <5> HIDE DEF m, n1
        <5>3. n1 = 2 <=> m = 1
          BY <5>2
        <5>. QED
          BY <5>3 DEF m, n1
      <4>6. r[1] = e
        BY <1>1
      <4>. QED
        BY <3>2, <4>1, <4>2, <4>3, <4>4, <4>5, <4>6
    <3>3. CASE i > 2
      <4>1. /\ i - 1 \in 2..Len(q) /\ i - 1 \in 1..Len(q)
            /\ r[i] = q[i - 1] /\ r[i - 1] = q[i - 2]
        BY <1>1, <1>2, <3>3
      <4>2. n[q[i - 1]] = q[i - 2]
        BY <1>2, <2>2, <3>3, <4>1 DEF Linked
      <4>3. p[q[i - 1]] = IF i - 1 = Len(q) THEN NULL ELSE q[i]
        BY <1>2, <2>2, <4>1 DEF Linked
      <4>4. i - 1 # Len(q) => r[i + 1] = q[i]
        BY <1>1, <1>2, <4>1
      <4>. QED
        BY <1>1, <1>2, <3>3, <4>1, <4>2, <4>3, <4>4
    <3>. QED
      BY <1>1, <1>2, <3>1, <3>2, <3>3
  <2>5. Linked(r, e, t, n, p)
    BY <1>1, <1>3, <2>3, <2>4 DEF Linked
  <2>6. Distinct(r)
    BY <1>1, <1>2 DEF Distinct
  <2>. QED
    BY <2>1, <2>5, <2>6 DEF r, n, p
<1>. QED
  BY <1>4, <1>5

\* Q_put at the tail.
LEMMA PutTailLinked ==
  ASSUME NEW q \in Seq(Elements), NEW h, NEW t, NEW nx \in Links, NEW pv \in Links,
         Linked(q, h, t, nx, pv), Distinct(q),
         NEW e \in Elements, \A i \in 1..Len(q) : q[i] # e
  PROVE  /\ Linked(Append(q, e), IF h = NULL THEN e ELSE h, e,
                   [nx EXCEPT ![e] = t],
                   [x \in Elements |-> IF x = e THEN NULL
                                       ELSE IF x = t THEN e ELSE pv[x]])
         /\ Distinct(Append(q, e))
<1> DEFINE r == Append(q, e)
           n == [nx EXCEPT ![e] = t]
           p == [x \in Elements |-> IF x = e THEN NULL
                                    ELSE IF x = t THEN e ELSE pv[x]]
<1>0. NULL \notin Elements
  BY NullAssumption
<1>1. /\ r \in Seq(Elements) /\ Len(r) = Len(q) + 1 /\ r # << >>
      /\ \A i \in 1..Len(q) : r[i] = q[i]
      /\ r[Len(q) + 1] = e
  BY AppendProperties
<1>2. Len(q) \in Nat /\ \A i \in 1..Len(q) : q[i] \in Elements
  OBVIOUS
<1>3. CASE Len(q) = 0
  <2>1. q = << >> /\ h = NULL /\ t = NULL
    BY <1>3 DEF Linked
  <2>2. n[e] = NULL /\ p[e] = NULL
    BY <2>1 DEF Links
  <2> HIDE DEF r, n, p
  <2>3. Linked(r, e, e, n, p) /\ Distinct(r)
    BY <1>1, <1>3, <2>2 DEF Linked, Distinct
  <2>. QED
    BY <2>1, <2>3 DEF r, n, p
<1>4. CASE Len(q) # 0
  <2>1. Len(q) > 0 /\ q # << >> /\ h = q[1] /\ t = q[Len(q)] /\ h # NULL
    BY <1>0, <1>2, <1>4 DEF Linked
  <2>2. /\ p[e] = NULL /\ n[e] = q[Len(q)] /\ p[q[Len(q)]] = e
        /\ \A i \in 1..Len(q) : n[q[i]] = nx[q[i]]
        /\ \A i \in 1..(Len(q) - 1) : p[q[i]] = pv[q[i]]
    BY <1>2, <2>1 DEF Links, Distinct
  <2> HIDE DEF r, n, p
  <2>3. r[1] = h
    BY <1>1, <1>2, <2>1
  <2>4. ASSUME NEW i \in 1..Len(r)
        PROVE  /\ n[r[i]] = IF i = 1 THEN NULL ELSE r[i - 1]
               /\ p[r[i]] = IF i = Len(r) THEN NULL ELSE r[i + 1]
    <3>1. CASE i = Len(r)
      BY <1>1, <1>2, <2>1, <2>2, <3>1
    <3>2. CASE i # Len(r)
      <4>1. i \in 1..Len(q) /\ r[i] = q[i] /\ n[q[i]] = nx[q[i]]
        BY <1>1, <1>2, <2>2, <3>2
      <4>2. nx[q[i]] = IF i = 1 THEN NULL ELSE q[i - 1]
        BY <4>1 DEF Linked
      <4>3. i # 1 => r[i - 1] = q[i - 1]
        BY <1>1, <1>2, <4>1
      <4>4. p[q[i]] = IF i = Len(q) THEN e ELSE q[i + 1]
        BY <1>2, <2>2, <4>1 DEF Linked
      <4>5. r[i + 1] = IF i = Len(q) THEN e ELSE q[i + 1]
        BY <1>1, <1>2, <4>1
      <4>. QED
        BY <3>2, <4>1, <4>2, <4>3, <4>4, <4>5
    <3>. QED
      BY <3>1, <3>2
  <2>5. Linked(r, h, e, n, p)
    BY <1>1, <2>3, <2>4 DEF Linked
  <2>6. Distinct(r)
    BY <1>1, <1>2 DEF Distinct
  <2>. QED
    BY <2>1, <2>5, <2>6 DEF r, n, p
<1>. QED
  BY <1>3, <1>4

\* Q_get of an element.
LEMMA TakeLinked ==
  ASSUME NEW q \in Seq(Elements), NEW h, NEW t, NEW nx \in Links, NEW pv \in Links,
         Linked(q, h, t, nx, pv), Distinct(q), h # NULL
  PROVE  /\ q # << >> /\ h = q[1] /\ h \in Elements
         /\ Tail(q) \in Seq(Elements)
         /\ Len(Tail(q)) = Len(q) - 1
         /\ \A i \in 1..Len(Tail(q)) : Tail(q)[i] = q[i + 1]
         /\ Linked(Tail(q), pv[h], IF t = h THEN NULL ELSE t,
                   IF pv[h] = NULL THEN nx ELSE [nx EXCEPT ![pv[h]] = NULL], pv)
         /\ Distinct(Tail(q))
<1> DEFINE r == Tail(q)
           n == IF pv[h] = NULL THEN nx ELSE [nx EXCEPT ![pv[h]] = NULL]
<1>0. NULL \notin Elements
  BY NullAssumption
<1>1. q # << >> /\ h = q[1] /\ Len(q) \in Nat /\ Len(q) > 0
  BY DEF Linked
<1>2. /\ r \in Seq(Elements) /\ Len(r) = Len(q) - 1
      /\ \A i \in 1..Len(r) : r[i] = q[i + 1]
  BY <1>1, HeadTailProperties
<1>3. \A i \in 1..Len(q) : q[i] \in Elements
  OBVIOUS
<1>4. t = q[Len(q)] /\ pv[h] = IF Len(q) = 1 THEN NULL ELSE q[2]
  <2>1. 1 \in 1..Len(q) /\ 1 + 1 = 2
    BY <1>1
  <2>2. pv[q[1]] = IF 1 = Len(q) THEN NULL ELSE q[1 + 1]
    BY <2>1 DEF Linked
  <2>. QED
    BY <1>1, <2>1, <2>2 DEF Linked
<1>5. Distinct(r)
  <2> HIDE DEF r
  <2>. QED
    BY <1>1, <1>2 DEF Distinct
<1>6. Linked(r, pv[h], IF t = h THEN NULL ELSE t, n, pv)
  <2>1. CASE Len(q) = 1
    <3>1. r = << >> /\ t = h /\ pv[h] = NULL
      BY <1>1, <1>2, <1>4, <2>1
    <3>. QED
      BY <3>1 DEF Linked
  <2>2. CASE Len(q) > 1
    <3>1. t # h /\ pv[h] = q[2] /\ q[2] \in Elements /\ q[2] # NULL
      BY <1>0, <1>1, <1>3, <1>4, <2>2 DEF Distinct
    <3>2. n[q[2]] = NULL /\ \A i \in 3..Len(q) : n[q[i]] = nx[q[i]]
      BY <1>1, <1>3, <2>2, <3>1 DEF Distinct, Links
    <3> HIDE DEF r, n
    <3>3. r # << >> /\ r[1] = q[2] /\ r[Len(r)] = t
      BY <1>1, <1>2, <1>4, <2>2
    <3>4. ASSUME NEW i \in 1..Len(r)
          PROVE  /\ n[r[i]] = IF i = 1 THEN NULL ELSE r[i - 1]
                 /\ pv[r[i]] = IF i = Len(r) THEN NULL ELSE r[i + 1]
      <4>1. i + 1 \in 1..Len(q) /\ r[i] = q[i + 1]
        BY <1>1, <1>2
      <4>2. pv[q[i + 1]] = IF i + 1 = Len(q) THEN NULL ELSE q[i + 2]
        BY <1>1, <4>1 DEF Linked
      <4>3. i # Len(r) => r[i + 1] = q[i + 2]
        BY <1>1, <1>2
      <4>4. i # 1 => n[q[i + 1]] = q[i] /\ r[i - 1] = q[i]
        BY <1>1, <1>2, <3>2, <4>1 DEF Linked
      <4>. QED
        BY <1>1, <1>2, <3>2, <4>1, <4>2, <4>3, <4>4
    <3>5. Linked(r, q[2], t, n, pv)
      BY <3>3, <3>4 DEF Linked
    <3>. QED
      BY <3>1, <3>5
  <2>3. Len(q) = 1 \/ Len(q) > 1
    BY <1>1
  <2>. QED
    BY <2>1, <2>2, <2>3
<1>. QED
  BY <1>1, <1>2, <1>3, <1>5, <1>6

(***************************************************************************)
(* Q_free visits every element: going from the tail along next, the first  *)
(* one left out would be next of the one before it.                        *)
(***************************************************************************)
LEMMA FreeReachesAll ==
  ASSUME order \in Seq(Elements), LinksMatch
  PROVE  Reached(tail) = {order[i] : i \in 1..Len(order)}
<1> DEFINE all == {order[i] : i \in 1..Len(order)}
<1>0. NULL \notin Elements
  BY NullAssumption
<1>1. Len(order) \in Nat /\ \A i \in 1..Len(order) : order[i] \in Elements
  OBVIOUS
<1>2. CASE Len(order) = 0
  <2>1. tail = NULL /\ all = {}
    BY <1>2 DEF LinksMatch
  <2>. QED
    BY <2>1 DEF Reached
<1>3. CASE Len(order) > 0
  <2>1. tail = order[Len(order)] /\ tail # NULL /\ tail \in all
    BY <1>0, <1>1, <1>3 DEF LinksMatch
  <2>2. all \subseteq Elements
    BY <1>1
  <2>3. Closed(all)
    <3>1. ASSUME NEW i \in 1..Len(order), next[order[i]] # NULL
          PROVE  next[order[i]] \in all
      <4>1. i # 1 /\ next[order[i]] = order[i - 1]
        BY <3>1 DEF LinksMatch
      <4>2. i - 1 \in 1..Len(order)
        BY <1>1, <4>1
      <4>. QED
        BY <4>1, <4>2
    <3>. QED
      BY <3>1 DEF Closed
  <2>4. ASSUME NEW S \in SUBSET Elements, tail \in S, Closed(S),
               NEW k \in 1..Len(order), order[k] \notin S
        PROVE  FALSE
    <3> DEFINE left == {n \in Nat : n < Len(order) /\ order[Len(order) - n] \notin S}
    <3>1. Len(order) - k \in left
      <4>1. Len(order) - k \in Nat /\ Len(order) - k < Len(order)
        BY <1>1
      <4>2. Len(order) - (Len(order) - k) = k
        BY <1>1
      <4>. QED
        BY <2>4, <4>1, <4>2
    <3>2. PICK x \in left : \A y \in left : x <= y
      <4>1. left \subseteq Nat /\ left # {}
        BY <3>1
      <4> HIDE DEF left
      <4>. QED
        BY <4>1, LeastNatural
    <3>3. x \in Nat /\ x < Len(order) /\ order[Len(order) - x] \notin S
      OBVIOUS
    <3>4. x # 0
      BY <1>1, <2>1, <2>4, <3>3
    <3>5. x - 1 \in Nat /\ x - 1 \notin left
      BY <3>2, <3>3, <3>4
    <3> DEFINE j == Len(order) - x + 1
    <3>6. j \in 1..Len(order) /\ j # 1 /\ j - 1 = Len(order) - x
          /\ j - 1 \in 1..Len(order) /\ j = Len(order) - (x - 1) /\ x - 1 < Len(order)
      BY <1>1, <3>3, <3>4
    <3>7. order[j] \in S
      BY <3>5, <3>6
    <3> HIDE DEF j
    <3>8. next[order[j]] = order[j - 1]
      BY <3>6 DEF LinksMatch
    <3>9. order[j - 1] \in S
      BY <1>0, <1>1, <2>4, <3>6, <3>7, <3>8 DEF Closed
    <3>. QED
      BY <3>3, <3>6, <3>9
  <2>5. ASSUME NEW e \in all
        PROVE  e \in Reached(tail)
    BY <2>1, <2>2, <2>4 DEF Reached
  <2>6. ASSUME NEW e \in Reached(tail)
        PROVE  e \in all
    BY <2>1, <2>2, <2>3, <2>6 DEF Reached
  <2>. QED
    BY <2>5, <2>6
<1>. QED
  BY <1>1, <1>2, <1>3

-----------------------------------------------------------------------------
Placed(f, place) == {u \in Threads : f[u] = place}

Moved(f, g, t, v) == f \in [Threads -> Places] /\ g = [f EXCEPT ![t] = v]

\* How many threads are at a place after one of them has moved.
LEMMA CountPlaced ==
  ASSUME NEW f, NEW g, NEW t \in Threads, NEW v, NEW place, Moved(f, g, t, v)
  PROVE  /\ Cardinality(Placed(f, place)) \in Nat
         /\ Cardinality(Placed(g, place)) \in Nat
         /\ v = place /\ f[t] # place =>
              Cardinality(Placed(g, place)) = Cardinality(Placed(f, place)) + 1
         /\ v # place /\ f[t] = place =>
              Cardinality(Placed(g, place)) = Cardinality(Placed(f, place)) - 1
         /\ v # place /\ f[t] # place =>
              Cardinality(Placed(g, place)) = Cardinality(Placed(f, place))
<1>1. /\ IsFiniteSet(Placed(f, place)) /\ Cardinality(Placed(f, place)) \in Nat
      /\ IsFiniteSet(Placed(g, place)) /\ Cardinality(Placed(g, place)) \in Nat
      /\ t \in Placed(f, place) <=> f[t] = place
  BY ThreadsAssumption, FS_Subset, FS_CardinalityType DEF Placed
<1>a. f \in [Threads -> Places] /\ g = [f EXCEPT ![t] = v]
  BY DEF Moved
<1>2. CASE v = place
  <2>1. Placed(g, place) = Placed(f, place) \cup {t}
    BY <1>a, <1>2 DEF Placed
  <2>. QED
    BY <1>1, <1>2, <2>1, FS_AddElement
<1>3. CASE v # place
  <2>1. Placed(g, place) = Placed(f, place) \ {t}
    BY <1>a, <1>3 DEF Placed
  <2>. QED
    BY <1>1, <1>3, <2>1, FS_RemoveElement
<1>. QED
  BY <1>a, <1>1, <1>2, <1>3

LEMMA AtIsPlaced ==
  ASSUME NEW place
  PROVE  At(place) = Placed(pc, place) /\ At(place)' = Placed(pc', place)
BY DEF At, Placed

\* pthread_cond_signal: if threads are blocked one of them is woken.
LEMMA SignalWakes ==
  ASSUME pc \in [Threads -> Places], Signal
  PROVE  /\ pc' \in [Threads -> Places]
         /\ \A t \in Threads : pc[t] \in {"idle", "holding"} \/ pc'[t] \in {"idle", "holding"}
                                => pc'[t] = pc[t]
         /\ At("blocked") = {} => pc' = pc
         /\ At("blocked") # {} =>
              Cardinality(At("woken")') = Cardinality(At("woken")) + 1
<1>1. CASE At("blocked") = {}
  BY <1>1 DEF Signal
<1>2. CASE At("blocked") # {}
  <2>1. PICK u \in At("blocked") : pc' = [pc EXCEPT ![u] = "woken"]
    BY <1>2 DEF Signal
  <2>2. u \in Threads /\ pc[u] = "blocked"
    BY DEF At
  <2>3. "woken" \in Places
    BY DEF Places
  <2>4. Cardinality(Placed(pc', "woken")) = Cardinality(Placed(pc, "woken")) + 1
    <3>1. Moved(pc, pc', u, "woken")
      BY <2>1 DEF Moved
    <3>2. "woken" = "woken" /\ pc[u] # "woken"
      BY <2>2
    <3>. QED
      BY <2>2, <3>1, <3>2, CountPlaced
  <2>5. Cardinality(At("woken")') = Cardinality(At("woken")) + 1
    BY <2>1, <2>4, AtIsPlaced
  <2>. QED
    BY <1>2, <2>1, <2>2, <2>3, <2>5
<1>. QED
  BY <1>1, <1>2

\* The invariant in terms of the operators of the lemmas.
LEMMA LinksMatchIsLinked ==
  /\ LinksMatch <=> Linked(order, head, tail, next, prev)
  /\ LinksMatch' <=> Linked(order', head', tail', next', prev')
BY DEF LinksMatch, Linked

LEMMA EmptyOrNot ==
  ASSUME order \in Seq(Elements), LinksMatch
  PROVE  head = NULL <=> Len(order) = 0
<1>1. Len(order) # 0 => order[1] \in Elements
  OBVIOUS
<1>. QED
  BY <1>1, NullAssumption DEF LinksMatch

-----------------------------------------------------------------------------
\* Q_put, at either end.
LEMMA PutKeeps ==
  ASSUME IInv, NEW t \in Threads, NEW e \in Elements, NEW d \in Data, Put(t, e, d)
  PROVE  IInv'
<1> USE DEF IInv
<1>1. /\ pc[t] = "idle" /\ ~freed /\ e \notin allocated
      /\ allocated' = allocated \cup {e}
      /\ PutHead(e, d) \/ PutTail(e, d)
      /\ Signal /\ UNCHANGED <<elem, result, freed>>
  BY DEF Put
<1>2. /\ pc' \in [Threads -> Places]
      /\ \A u \in Threads : pc'[u] = "holding" <=> pc[u] = "holding"
      /\ At("blocked") = {} => pc' = pc
      /\ At("blocked") # {} =>
           Cardinality(At("woken")') = Cardinality(At("woken")) + 1
  BY <1>1, SignalWakes DEF TypeOK
<1>3. /\ order \in Seq(Elements) /\ next \in Links /\ prev \in Links
      /\ Linked(order, head, tail, next, prev) /\ Distinct(order)
      /\ \A i \in 1..Len(order) : order[i] # e
  BY <1>1, LinksMatchIsLinked DEF TypeOK, Links, EveryElementOwned, Distinct
<1>4. /\ TypeOK'
      /\ Linked(order', head', tail', next', prev') /\ Distinct(order')
      /\ Len(order') = Len(order) + 1
      /\ {order'[i] : i \in 1..Len(order')} = {order[i] : i \in 1..Len(order)} \cup {e}
  <2>1. CASE PutHead(e, d)
    <3>1. /\ order' = <<e>> \o order
          /\ Linked(order', head', tail', next', prev') /\ Distinct(order')
      BY <1>3, <2>1, PutHeadLinked DEF PutHead
    <3>2. /\ order' \in Seq(Elements) /\ Len(order') = Len(order) + 1
          /\ order'[1] = e /\ \A i \in 2..(Len(order) + 1) : order'[i] = order[i - 1]
      BY <1>3, <3>1, PrependProperties
    <3>3. {order'[i] : i \in 1..Len(order')} = {order[i] : i \in 1..Len(order)} \cup {e}
      <4>1. Len(order) \in Nat
        BY <1>3
      <4>2. \A i \in 1..Len(order') : i = 1 \/ i - 1 \in 1..Len(order)
        BY <3>2, <4>1
      <4>3. \A i \in 1..Len(order) : i + 1 \in 1..Len(order') /\ order'[i + 1] = order[i]
        BY <3>2, <4>1
      <4>4. 1 \in 1..Len(order')
        BY <3>2, <4>1
      <4>5. \A i \in 1..Len(order') : i # 1 => order'[i] = order[i - 1]
        BY <3>2, <4>1
      <4>6. \A i \in 1..Len(order') : i # 1 => order'[i] \in {order[j] : j \in 1..Len(order)}
        BY <4>2, <4>5
      <4>7. \A i \in 1..Len(order) : order[i] \in {order'[j] : j \in 1..Len(order')}
        BY <4>3
      <4>8. e \in {order'[j] : j \in 1..Len(order')}
        BY <3>2, <4>4
      <4>. QED
        BY <3>2, <4>6, <4>7, <4>8
    <3>4. TypeOK'
      BY <1>1, <1>2, <2>1, <3>2 DEF TypeOK, PutHead
    <3>. QED
      BY <3>1, <3>2, <3>3, <3>4
  <2>2. CASE PutTail(e, d)
    <3>1. /\ order' = Append(order, e)
          /\ Linked(order', head', tail', next', prev') /\ Distinct(order')
      <4>1. /\ Linked(Append(order, e), IF head = NULL THEN e ELSE head, e,
                      [next EXCEPT ![e] = tail],
                      [x \in Elements |-> IF x = e THEN NULL
                                          ELSE IF x = tail THEN e ELSE prev[x]])
            /\ Distinct(Append(order, e))
        BY <1>3, PutTailLinked
      <4>2. /\ order' = Append(order, e) /\ head' = (IF head = NULL THEN e ELSE head)
            /\ tail' = e /\ next' = [next EXCEPT ![e] = tail]
            /\ prev' = [x \in Elements |-> IF x = e THEN NULL
                                          ELSE IF x = tail THEN e ELSE prev[x]]
        BY <2>2 DEF PutTail
      <4>. QED
        BY <4>1, <4>2
    <3>2. /\ order' \in Seq(Elements) /\ Len(order') = Len(order) + 1
          /\ order'[Len(order) + 1] = e
          /\ \A i \in 1..Len(order) : order'[i] = order[i]
      BY <1>3, <3>1, AppendProperties
    <3>3. {order'[i] : i \in 1..Len(order')} = {order[i] : i \in 1..Len(order)} \cup {e}
      <4>1. Len(order) \in Nat
        BY <1>3
      <4>2. \A i \in 1..Len(order') : i = Len(order) + 1 \/ i \in 1..Len(order)
        BY <3>2, <4>1
      <4>3. \A i \in 1..Len(order) : i \in 1..Len(order')
        BY <3>2, <4>1
      <4>4. Len(order) + 1 \in 1..Len(order')
        BY <3>2, <4>1
      <4>. QED
        BY <3>2, <4>2, <4>3, <4>4
    <3>4. TypeOK'
      BY <1>1, <1>2, <2>2, <3>2 DEF TypeOK, PutTail
    <3>. QED
      BY <3>1, <3>2, <3>3, <3>4
  <2>. QED
    BY <1>1, <2>1, <2>2
<1>5. LinksMatch'
  BY <1>4, LinksMatchIsLinked
<1>6. EveryElementOwned'
  <2>1. \A u \in Threads : elem'[u] = elem[u] /\ elem[u] # e
    BY <1>1, NullAssumption DEF EveryElementOwned, TypeOK
  <2>2. \A u \in Threads, i \in 1..Len(order') : elem'[u] # order'[i]
    <3>1. \A i \in 1..Len(order') : order'[i] \in {order[j] : j \in 1..Len(order)} \cup {e}
      BY <1>4
    <3>. QED
      BY <2>1, <3>1 DEF EveryElementOwned
  <2>3. {elem'[u] : u \in Threads} = {elem[u] : u \in Threads}
    BY <2>1
  <2>4. allocated' = {order'[i] : i \in 1..Len(order')} \cup ({elem'[u] : u \in Threads} \ {NULL})
    BY <1>1, <1>4, <2>3 DEF EveryElementOwned
  <2>. QED
    BY <1>2, <1>4, <2>1, <2>2, <2>4 DEF EveryElementOwned, Distinct
<1>7. NoLostWakeup'
  <2>1. CASE At("blocked") = {}
    BY <1>2, <2>1 DEF NoLostWakeup, At
  <2>2. CASE At("blocked") # {}
    <3>1. Len(order) <= Cardinality(At("woken"))
      BY <2>2 DEF NoLostWakeup
    <3>2. Cardinality(At("woken")) \in Nat /\ Len(order) \in Nat
      BY ThreadsAssumption, FS_Subset, FS_CardinalityType DEF At, TypeOK
    <3>3. Cardinality(At("woken")') = Cardinality(At("woken")) + 1
      BY <1>2, <2>2
    <3>4. Len(order') <= Cardinality(At("woken")')
      BY <1>4, <3>1, <3>2, <3>3
    <3>. QED
      BY <3>4 DEF NoLostWakeup
  <2>. QED
    BY <2>1, <2>2
<1>. QED
  BY <1>4, <1>5, <1>6, <1>7

\* Q_get takes an element, at once or after a wait.
LEMMA TakeKeeps ==
  ASSUME IInv, NEW t \in Threads, pc[t] \in {"idle", "woken"}, Take(t)
  PROVE  IInv'
<1> USE DEF IInv
<1>1. /\ head # NULL /\ pc' = [pc EXCEPT ![t] = "holding"]
      /\ elem' = [elem EXCEPT ![t] = head] /\ order' = Tail(order)
      /\ head' = prev[head]
      /\ next' = IF prev[head] = NULL THEN next ELSE [next EXCEPT ![prev[head]] = NULL]
      /\ tail' = IF tail = head THEN NULL ELSE tail
      /\ UNCHANGED <<prev, data, allocated, result, freed>>
  BY DEF Take
<1>2. /\ order \in Seq(Elements) /\ next \in Links /\ prev \in Links
      /\ Linked(order, head, tail, next, prev) /\ Distinct(order)
  BY LinksMatchIsLinked DEF TypeOK, Links, EveryElementOwned, Distinct
<1>3. /\ order # << >> /\ head = order[1] /\ head \in Elements
      /\ order' \in Seq(Elements)
      /\ Len(order') = Len(order) - 1
      /\ \A i \in 1..Len(order') : order'[i] = order[i + 1]
      /\ Linked(order', head', tail', next', prev')
      /\ Distinct(order')
  <2>1. /\ order # << >> /\ head = order[1] /\ head \in Elements
        /\ Tail(order) \in Seq(Elements)
        /\ Len(Tail(order)) = Len(order) - 1
        /\ \A i \in 1..Len(Tail(order)) : Tail(order)[i] = order[i + 1]
        /\ Linked(Tail(order), prev[head], IF tail = head THEN NULL ELSE tail,
                  IF prev[head] = NULL THEN next ELSE [next EXCEPT ![prev[head]] = NULL],
                  prev)
        /\ Distinct(Tail(order))
    BY <1>1, <1>2, TakeLinked
  <2>2. Linked(order', head', tail', next', prev')
    BY <1>1, <2>1
  <2>. QED
    BY <1>1, <2>1, <2>2
<1>4. Len(order) \in Nat \ {0}
  BY <1>2, <1>3
<1>5. TypeOK'
  BY <1>1, <1>3 DEF TypeOK, Places
<1>6. LinksMatch'
  BY <1>3, LinksMatchIsLinked
<1>7. EveryElementOwned'
  <2>1. \A u \in Threads : elem'[u] = IF u = t THEN head ELSE elem[u]
    BY <1>1 DEF TypeOK
  <2>2. elem[t] = NULL /\ head # NULL
    BY <1>1 DEF EveryElementOwned
  <2>3. \A u \in Threads : pc'[u] = IF u = t THEN "holding" ELSE pc[u]
    BY <1>1 DEF TypeOK
  <2>4. \A u \in Threads : elem[u] # head
    BY <1>3, <1>4 DEF EveryElementOwned
  <2>5. \A i \in 1..Len(order') : i + 1 \in 1..Len(order) /\ i + 1 # 1
    BY <1>3, <1>4
  <2>6. \A i \in 1..Len(order') : order'[i] # head
    <3>1. 1 \in 1..Len(order)
      BY <1>4
    <3>. QED
      BY <1>2, <1>3, <2>5, <3>1 DEF Distinct
  <2>7. \A u \in Threads, i \in 1..Len(order') : elem'[u] # order'[i]
    BY <1>3, <2>1, <2>5, <2>6 DEF EveryElementOwned
  <2>8. {order[i] : i \in 1..Len(order)} = {order'[i] : i \in 1..Len(order')} \cup {head}
    <3>1. \A i \in 1..Len(order) : i = 1 \/ (i - 1 \in 1..Len(order') /\ order'[i - 1] = order[i])
      BY <1>3, <1>4
    <3>2. 1 \in 1..Len(order)
      BY <1>4
    <3>3. \A i \in 1..Len(order) : i # 1 => order[i] \in {order'[j] : j \in 1..Len(order')}
      BY <3>1
    <3>4. \A i \in 1..Len(order') : order'[i] \in {order[j] : j \in 1..Len(order)}
      BY <1>3, <2>5
    <3>5. head \in {order[j] : j \in 1..Len(order)}
      BY <1>3, <3>2
    <3>. QED
      BY <1>3, <3>3, <3>4, <3>5
  <2>9. {elem'[u] : u \in Threads} \ {NULL} = ({elem[u] : u \in Threads} \ {NULL}) \cup {head}
    BY <2>1, <2>2
  <2>10. allocated' = {order'[i] : i \in 1..Len(order')} \cup ({elem'[u] : u \in Threads} \ {NULL})
    BY <1>1, <2>8, <2>9 DEF EveryElementOwned
  <2>. QED
    BY <1>3, <2>1, <2>2, <2>3, <2>4, <2>7, <2>10 DEF EveryElementOwned, Distinct
<1>8. NoLostWakeup'
  <2> DEFINE before == Cardinality(Placed(pc, "woken"))
             after  == Cardinality(Placed(pc', "woken"))
  <2>0. pc \in [Threads -> Places] /\ "holding" \in Places
    BY DEF TypeOK, Places
  <2>1. /\ before \in Nat
        /\ after = IF pc[t] = "woken" THEN before - 1 ELSE before
    <3>1. Moved(pc, pc', t, "holding")
      BY <1>1, <2>0 DEF Moved
    <3>. QED
      BY <3>1, CountPlaced
  <2>2. before = Cardinality(At("woken")) /\ after = Cardinality(At("woken")')
    BY <1>1, AtIsPlaced
  <2> HIDE DEF before, after
  <2>3. At("blocked")' # {} => At("blocked") # {}
    BY <1>1 DEF At, TypeOK
  <2>4. At("blocked") # {} => Len(order) <= before
    BY <2>2 DEF NoLostWakeup
  <2>5. At("blocked")' # {} => Len(order') <= after
    BY <1>3, <1>4, <2>1, <2>3, <2>4
  <2>. QED
    BY <2>2, <2>5 DEF NoLostWakeup
<1>. QED
  BY <1>5, <1>6, <1>7, <1>8

\* Steps that only move a thread that holds no element.
LEMMA MoveKeeps ==
  ASSUME IInv, NEW t \in Threads, NEW place \in {"blocked", "woken"},
         pc[t] # "holding", pc' = [pc EXCEPT ![t] = place],
         UNCHANGED <<list, elem, result, freed>>,
         (place = "woken" /\ pc[t] # "woken") \/ Len(order) = 0
  PROVE  IInv'
<1> USE DEF IInv
<1>1. UNCHANGED <<head, tail, prev, next, data, allocated, order, elem, result, freed>>
  BY DEF list
<1>2. pc' \in [Threads -> Places]
      /\ \A u \in Threads : pc'[u] = IF u = t THEN place ELSE pc[u]
  BY DEF TypeOK, Places
<1>3. TypeOK'
  BY <1>1, <1>2 DEF TypeOK
<1>4. LinksMatch'
  BY <1>1 DEF LinksMatch
<1>5. EveryElementOwned'
  BY <1>1, <1>2 DEF EveryElementOwned
<1>6. NoLostWakeup'
  <2> DEFINE before == Cardinality(Placed(pc, "woken"))
             after  == Cardinality(Placed(pc', "woken"))
  <2>0. pc \in [Threads -> Places] /\ place \in Places
    BY DEF TypeOK, Places
  <2>1. /\ before \in Nat
        /\ after \in Nat
        /\ place = "woken" /\ pc[t] # "woken" => after = before + 1
    <3>1. Moved(pc, pc', t, place)
      BY <2>0 DEF Moved
    <3>. QED
      BY <3>1, CountPlaced
  <2>2. before = Cardinality(At("woken")) /\ after = Cardinality(At("woken")')
    BY AtIsPlaced
  <2>3. Len(order') = Len(order) /\ Len(order) \in Nat
    BY <1>1 DEF TypeOK
  <2>4. CASE Len(order) = 0
    <3> HIDE DEF before, after
    <3>1. Len(order') <= after
      BY <2>1, <2>3, <2>4
    <3>. QED
      BY <2>2, <3>1 DEF NoLostWakeup
  <2>5. CASE place = "woken" /\ pc[t] # "woken"
    <3>1. after = before + 1
      BY <2>1, <2>5
    <3>2. At("blocked")' # {} => At("blocked") # {}
      BY <1>2, <2>5 DEF At
    <3> HIDE DEF before, after
    <3>3. At("blocked") # {} => Len(order) <= before
      BY <2>2 DEF NoLostWakeup
    <3>4. At("blocked")' # {} => Len(order') <= after
      BY <2>1, <2>3, <3>1, <3>2, <3>3
    <3>. QED
      BY <2>2, <3>4 DEF NoLostWakeup
  <2>. QED
    BY <2>4, <2>5
<1>. QED
  BY <1>3, <1>4, <1>5, <1>6

\* The end of Q_get.
LEMMA ReturnKeeps ==
  ASSUME IInv, NEW t \in Threads, Return(t)
  PROVE  IInv'
<1> USE DEF IInv
<1>1. /\ pc[t] = "holding"
      /\ prev' = [prev EXCEPT ![elem[t]] = NULL]
      /\ next' = [next EXCEPT ![elem[t]] = NULL]
      /\ data' = [data EXCEPT ![elem[t]] = NULL]
      /\ allocated' = allocated \ {elem[t]}
      /\ result' = [result EXCEPT ![t] = data[elem[t]]]
      /\ elem' = [elem EXCEPT ![t] = NULL]
      /\ pc' = [pc EXCEPT ![t] = "idle"]
      /\ UNCHANGED <<head, tail, order, freed>>
  BY DEF Return
<1>2. elem[t] \in Elements /\ elem[t] # NULL
  BY <1>1 DEF EveryElementOwned, TypeOK
<1>3. TypeOK'
  BY <1>1, <1>2 DEF TypeOK, Places
<1>4. \A i \in 1..Len(order) :
        /\ order[i] \in Elements /\ order[i] # elem[t]
        /\ prev'[order[i]] = prev[order[i]] /\ next'[order[i]] = next[order[i]]
  BY <1>1 DEF EveryElementOwned, TypeOK
<1>5. LinksMatch'
  BY <1>1, <1>4 DEF LinksMatch
<1>6. EveryElementOwned'
  <2>1. \A u \in Threads : /\ elem'[u] = (IF u = t THEN NULL ELSE elem[u])
                            /\ pc'[u] = IF u = t THEN "idle" ELSE pc[u]
    BY <1>1 DEF TypeOK
  <2>2. \A u \in Threads : u # t => elem[u] # elem[t]
    BY <1>2 DEF EveryElementOwned
  <2>3. {elem'[u] : u \in Threads} \ {NULL} = ({elem[u] : u \in Threads} \ {NULL}) \ {elem[t]}
    BY <1>2, <2>1, <2>2
  <2>4. \A u \in Threads, i \in 1..Len(order) : elem'[u] # order[i]
    BY <1>4, <2>1, NullAssumption DEF EveryElementOwned
  <2>5. {order[i] : i \in 1..Len(order)} = {order[i] : i \in 1..Len(order)} \ {elem[t]}
    BY <1>4
  <2>6. allocated' = {order[i] : i \in 1..Len(order)} \cup ({elem'[u] : u \in Threads} \ {NULL})
    BY <1>1, <2>3, <2>5 DEF EveryElementOwned
  <2>. QED
    BY <1>1, <2>1, <2>4, <2>6 DEF EveryElementOwned
<1>7. NoLostWakeup'
  <2>1. At("blocked")' = At("blocked") /\ At("woken")' = At("woken")
    BY <1>1 DEF At, TypeOK
  <2>. QED
    BY <1>1, <2>1 DEF NoLostWakeup
<1>. QED
  BY <1>3, <1>5, <1>6, <1>7

\* Q_free.
LEMMA FreeKeeps ==
  ASSUME IInv, Free
  PROVE  IInv'
<1> USE DEF IInv
<1>1. /\ head' = NULL /\ tail' = NULL /\ order' = << >> /\ freed' = TRUE
      /\ UNCHANGED <<pc, elem, result>> /\ At("idle") = Threads
  BY DEF Free, threads
<1>2. Reached(tail) = {order[i] : i \in 1..Len(order)}
  BY FreeReachesAll DEF TypeOK
<1>3. \A u \in Threads : pc[u] = "idle" /\ elem[u] = NULL
  BY <1>1 DEF At, EveryElementOwned
<1>4. allocated' = {}
  BY <1>2, <1>3 DEF Free, EveryElementOwned
<1>5. TypeOK'
  <2>1. << >> \in Seq(Elements)
    OBVIOUS
  <2>2. /\ prev' \in [Elements -> Elements \cup {NULL}]
        /\ next' \in [Elements -> Elements \cup {NULL}]
        /\ data' \in [Elements -> Data \cup {NULL}]
    BY DEF Free, TypeOK
  <2>. QED
    BY <1>1, <1>4, <2>1, <2>2 DEF TypeOK
<1>6. Len(order') = 0
  BY <1>1
<1>7. LinksMatch'
  BY <1>1, <1>6 DEF LinksMatch
<1>8. EveryElementOwned'
  BY <1>1, <1>3, <1>4, <1>6 DEF EveryElementOwned
<1>9. NoLostWakeup'
  BY <1>1, <1>3 DEF NoLostWakeup, At
<1>. QED
  BY <1>5, <1>7, <1>8, <1>9

LEMMA InitHolds == Init => IInv
<1> SUFFICES ASSUME Init PROVE IInv
  OBVIOUS
<1>1. order = << >> /\ Len(order) = 0
  BY DEF Init
<1>2. TypeOK
  <2>1. order \in Seq(Elements)
    BY <1>1
  <2>2. pc \in [Threads -> Places] /\ freed \in BOOLEAN /\ allocated \subseteq Elements
    BY DEF Init, Places
  <2>3. /\ prev \in [Elements -> Elements \cup {NULL}]
        /\ next \in [Elements -> Elements \cup {NULL}]
        /\ data \in [Elements -> Data \cup {NULL}]
        /\ elem \in [Threads -> Elements \cup {NULL}]
        /\ result \in [Threads -> Data \cup {NULL}]
        /\ head \in Elements \cup {NULL} /\ tail \in Elements \cup {NULL}
    BY DEF Init
  <2>. QED
    BY <2>1, <2>2, <2>3 DEF TypeOK
<1>3. LinksMatch /\ EveryElementOwned
  BY <1>1 DEF Init, LinksMatch, EveryElementOwned
<1>4. NoLostWakeup
  BY DEF Init, NoLostWakeup, At
<1>. QED
  BY <1>2, <1>3, <1>4 DEF IInv

LEMMA NextKeeps == IInv /\ [Next]_vars => IInv'
<1> SUFFICES ASSUME IInv, [Next]_vars PROVE IInv'
  OBVIOUS
<1>1. ASSUME NEW t \in Threads, NEW e \in Elements, NEW d \in Data, Put(t, e, d)
      PROVE  IInv'
  BY <1>1, PutKeeps
<1>2. ASSUME NEW t \in Threads, Call(t) PROVE IInv'
  <2>1. CASE Take(t)
    BY <1>2, <2>1, TakeKeeps DEF Call
  <2>2. CASE Wait(t)
    <3>1. Len(order) = 0
      BY <2>2, EmptyOrNot DEF Wait, IInv, TypeOK
    <3>. QED
      BY <1>2, <2>2, <3>1, MoveKeeps DEF Call, Wait
  <2>. QED
    BY <1>2, <2>1, <2>2 DEF Call
<1>3. ASSUME NEW t \in Threads, Resume(t) PROVE IInv'
  <2>1. CASE Take(t)
    BY <1>3, <2>1, TakeKeeps DEF Resume
  <2>2. CASE Wait(t)
    <3>1. Len(order) = 0
      BY <2>2, EmptyOrNot DEF Wait, IInv, TypeOK
    <3>. QED
      BY <1>3, <2>2, <3>1, MoveKeeps DEF Resume, Wait
  <2>. QED
    BY <1>3, <2>1, <2>2 DEF Resume
<1>4. ASSUME NEW t \in Threads, WakeSpuriously(t) PROVE IInv'
  BY <1>4, MoveKeeps DEF WakeSpuriously
<1>5. ASSUME NEW t \in Threads, Return(t) PROVE IInv'
  BY <1>5, ReturnKeeps
<1>6. CASE Free
  BY <1>6, FreeKeeps
<1>7. CASE UNCHANGED vars
  BY <1>7 DEF vars, IInv, TypeOK, LinksMatch, EveryElementOwned, NoLostWakeup, At
<1>. QED
  BY <1>1, <1>2, <1>3, <1>4, <1>5, <1>6, <1>7 DEF Next

LEMMA Invariant == Spec => []IInv
BY InitHolds, NextKeeps, PTL DEF Spec

(***************************************************************************)
(* The two ways through the list always agree with the order of the puts.  *)
(***************************************************************************)
THEOREM QueueLinked == Spec => []LinksMatch
<1>1. IInv => LinksMatch
  BY DEF IInv
<1>. QED
  BY <1>1, Invariant, PTL

(***************************************************************************)
(* Every address in use is in the queue once or in the hands of one        *)
(* thread; nothing leaks and nothing is left when the queue is freed.      *)
(***************************************************************************)
THEOREM QueueOwned == Spec => []EveryElementOwned
<1>1. IInv => EveryElementOwned
  BY DEF IInv
<1>. QED
  BY <1>1, Invariant, PTL

(***************************************************************************)
(* No wake-up is lost, however many threads wait and put.                  *)
(***************************************************************************)
THEOREM QueueWakes == Spec => []NoLostWakeup
<1>1. IInv => NoLostWakeup
  BY DEF IInv
<1>. QED
  BY <1>1, Invariant, PTL

-----------------------------------------------------------------------------
\* The refinement.  The data of a list of addresses, the head first.
ItemsOf(q, f) == [i \in 1..Len(q) |-> f[q[i]]]

Held == Data \cup {NULL}

TakenNow == [t \in Threads |-> TakenBy(t)]

LEMMA ItemsProperties ==
  ASSUME NEW q \in Seq(Elements), NEW f \in [Elements -> Held]
  PROVE  /\ ItemsOf(q, f) \in Seq(Held) /\ Len(ItemsOf(q, f)) = Len(q)
         /\ \A i \in 1..Len(q) : ItemsOf(q, f)[i] = f[q[i]]
<1>1. Len(q) \in Nat /\ \A i \in 1..Len(q) : q[i] \in Elements
  OBVIOUS
<1>2. ItemsOf(q, f) \in [1..Len(q) -> Held]
  BY <1>1 DEF ItemsOf
<1>3. ItemsOf(q, f) \in Seq(Held)
  BY <1>1, <1>2, SeqDef
<1>. QED
  BY <1>1, <1>2, <1>3 DEF ItemsOf

\* The data do not depend on addresses that are not in the list.
LEMMA ItemsAgree ==
  ASSUME NEW q \in Seq(Elements), NEW f, NEW g,
         \A i \in 1..Len(q) : f[q[i]] = g[q[i]]
  PROVE  ItemsOf(q, f) = ItemsOf(q, g)
BY DEF ItemsOf

LEMMA ItemsPrepend ==
  ASSUME NEW q \in Seq(Elements), NEW f \in [Elements -> Held],
         NEW e \in Elements, NEW d \in Held, \A i \in 1..Len(q) : q[i] # e
  PROVE  ItemsOf(<<e>> \o q, [f EXCEPT ![e] = d]) = <<d>> \o ItemsOf(q, f)
<1> DEFINE r == <<e>> \o q
           g == [f EXCEPT ![e] = d]
           old == ItemsOf(q, f)
           new == <<d>> \o old
           s == ItemsOf(r, g)
<1>1. /\ r \in Seq(Elements) /\ Len(r) = Len(q) + 1 /\ r[1] = e
      /\ \A i \in 2..(Len(q) + 1) : r[i] = q[i - 1]
  BY PrependProperties
<1>2. g \in [Elements -> Held] /\ g[e] = d /\ \A x \in Elements : x # e => g[x] = f[x]
  OBVIOUS
<1>3. /\ old \in Seq(Held) /\ Len(old) = Len(q)
      /\ \A i \in 1..Len(q) : old[i] = f[q[i]]
  BY ItemsProperties
<1>4. Len(q) \in Nat /\ \A i \in 1..Len(q) : q[i] \in Elements
  OBVIOUS
<1> HIDE DEF r, g, old
<1>5. /\ s \in Seq(Held) /\ Len(s) = Len(r)
      /\ \A i \in 1..Len(r) : s[i] = g[r[i]]
  BY <1>1, <1>2, ItemsProperties
<1>6. /\ new \in Seq(Held) /\ Len(new) = Len(old) + 1 /\ new[1] = d
      /\ \A i \in 2..(Len(old) + 1) : new[i] = old[i - 1]
  BY <1>3, PrependProperties
<1> HIDE DEF s, new
<1>7. ASSUME NEW i \in 1..Len(s) PROVE s[i] = new[i]
  <2>1. CASE i = 1
    <3>1. s[1] = g[r[1]]
      BY <1>1, <1>4, <1>5
    <3>. QED
      BY <1>1, <1>2, <1>6, <2>1, <3>1
  <2>2. CASE i # 1
    <3>1. i \in 2..(Len(q) + 1) /\ i - 1 \in 1..Len(q) /\ i \in 1..Len(r)
      BY <1>1, <1>4, <1>5, <2>2
    <3>2. s[i] = g[q[i - 1]] /\ q[i - 1] # e /\ q[i - 1] \in Elements
      BY <1>1, <1>4, <1>5, <3>1
    <3>3. new[i] = f[q[i - 1]]
      BY <1>3, <1>6, <3>1
    <3>. QED
      BY <1>2, <3>2, <3>3
  <2>. QED
    BY <2>1, <2>2
<1>8. Len(s) = Len(new)
  BY <1>1, <1>3, <1>5, <1>6
<1>9. s = new
  BY <1>5, <1>6, <1>7, <1>8, SeqEqual
<1>. QED
  BY <1>9 DEF s, new, r, g, old

LEMMA ItemsAppend ==
  ASSUME NEW q \in Seq(Elements), NEW f \in [Elements -> Held],
         NEW e \in Elements, NEW d \in Held, \A i \in 1..Len(q) : q[i] # e
  PROVE  ItemsOf(Append(q, e), [f EXCEPT ![e] = d]) = Append(ItemsOf(q, f), d)
<1> DEFINE r == Append(q, e)
           g == [f EXCEPT ![e] = d]
           old == ItemsOf(q, f)
           new == Append(old, d)
           s == ItemsOf(r, g)
<1>1. /\ r \in Seq(Elements) /\ Len(r) = Len(q) + 1 /\ r[Len(q) + 1] = e
      /\ \A i \in 1..Len(q) : r[i] = q[i]
  BY AppendProperties
<1>2. g \in [Elements -> Held] /\ g[e] = d /\ \A x \in Elements : x # e => g[x] = f[x]
  OBVIOUS
<1>3. /\ old \in Seq(Held) /\ Len(old) = Len(q)
      /\ \A i \in 1..Len(q) : old[i] = f[q[i]]
  BY ItemsProperties
<1>4. Len(q) \in Nat /\ \A i \in 1..Len(q) : q[i] \in Elements
  OBVIOUS
<1> HIDE DEF r, g, old
<1>5. /\ s \in Seq(Held) /\ Len(s) = Len(r)
      /\ \A i \in 1..Len(r) : s[i] = g[r[i]]
  BY <1>1, <1>2, ItemsProperties
<1>6. /\ new \in Seq(Held) /\ Len(new) = Len(old) + 1 /\ new[Len(old) + 1] = d
      /\ \A i \in 1..Len(old) : new[i] = old[i]
  BY <1>3, AppendProperties
<1> HIDE DEF s, new
<1>7. ASSUME NEW i \in 1..Len(s) PROVE s[i] = new[i]
  <2>1. CASE i = Len(q) + 1
    <3>1. s[Len(q) + 1] = g[r[Len(q) + 1]]
      BY <1>1, <1>4, <1>5
    <3>. QED
      BY <1>1, <1>2, <1>3, <1>6, <2>1, <3>1
  <2>2. CASE i # Len(q) + 1
    <3>1. i \in 1..Len(q) /\ i \in 1..Len(r)
      BY <1>1, <1>4, <1>5, <2>2
    <3>2. s[i] = g[q[i]] /\ q[i] # e /\ q[i] \in Elements
      BY <1>1, <1>4, <1>5, <3>1
    <3>3. new[i] = f[q[i]]
      BY <1>3, <1>6, <3>1
    <3>. QED
      BY <1>2, <3>2, <3>3
  <2>. QED
    BY <2>1, <2>2
<1>8. Len(s) = Len(new)
  BY <1>1, <1>3, <1>5, <1>6
<1>9. s = new
  BY <1>5, <1>6, <1>7, <1>8, SeqEqual
<1>. QED
  BY <1>9 DEF s, new, r, g, old

LEMMA ItemsTail ==
  ASSUME NEW q \in Seq(Elements), NEW f \in [Elements -> Held], q # << >>
  PROVE  /\ ItemsOf(q, f) # << >> /\ Head(ItemsOf(q, f)) = f[q[1]]
         /\ ItemsOf(Tail(q), f) = Tail(ItemsOf(q, f))
<1> DEFINE r == Tail(q)
           old == ItemsOf(q, f)
           new == Tail(old)
           s == ItemsOf(r, f)
<1>1. /\ r \in Seq(Elements) /\ Len(r) = Len(q) - 1
      /\ \A i \in 1..Len(r) : r[i] = q[i + 1]
  BY HeadTailProperties
<1>2. Len(q) \in Nat \ {0}
  OBVIOUS
<1>3. /\ old \in Seq(Held) /\ Len(old) = Len(q)
      /\ \A i \in 1..Len(q) : old[i] = f[q[i]]
  BY ItemsProperties
<1> HIDE DEF r, old
<1>4. old # << >> /\ Head(old) = f[q[1]]
  <2>1. old # << >> /\ 1 \in 1..Len(q)
    BY <1>2, <1>3
  <2>2. Head(old) = old[1]
    BY <1>3, <2>1
  <2>. QED
    BY <1>3, <2>1, <2>2
<1>5. /\ s \in Seq(Held) /\ Len(s) = Len(r)
      /\ \A i \in 1..Len(r) : s[i] = f[r[i]]
  BY <1>1, ItemsProperties
<1>6. /\ new \in Seq(Held) /\ Len(new) = Len(old) - 1
      /\ \A i \in 1..Len(new) : new[i] = old[i + 1]
  BY <1>3, <1>4, HeadTailProperties
<1> HIDE DEF s, new
<1>7. ASSUME NEW i \in 1..Len(s) PROVE s[i] = new[i]
  <2>1. i \in 1..Len(r) /\ i \in 1..Len(new) /\ i + 1 \in 1..Len(q)
    BY <1>1, <1>2, <1>3, <1>5, <1>6
  <2>. QED
    BY <1>1, <1>3, <1>5, <1>6, <2>1
<1>8. Len(s) = Len(new)
  BY <1>1, <1>3, <1>5, <1>6
<1>9. s = new
  BY <1>5, <1>6, <1>7, <1>8, SeqEqual
<1>. QED
  BY <1>4, <1>9 DEF s, new, r, old

\* Steps of the deque, in these terms.
LEMMA AbstractSteps ==
  /\ Abstract!Init <=> ItemsOf(order, data) = << >>
                         /\ TakenNow = [t \in Threads |-> NULL]
  /\ \A d : Abstract!PutHead(d) <=>
        ItemsOf(order', data') = <<d>> \o ItemsOf(order, data) /\ TakenNow' = TakenNow
  /\ \A d : Abstract!PutTail(d) <=>
        ItemsOf(order', data') = Append(ItemsOf(order, data), d) /\ TakenNow' = TakenNow
  /\ \A t : Abstract!Get(t) <=>
        /\ ItemsOf(order, data) # << >>
        /\ TakenNow' = [TakenNow EXCEPT ![t] = Head(ItemsOf(order, data))]
        /\ ItemsOf(order', data') = Tail(ItemsOf(order, data))
  /\ Abstract!Free <=> ItemsOf(order', data') = << >> /\ TakenNow' = TakenNow
  /\ UNCHANGED Abstract!vars <=>
        ItemsOf(order', data') = ItemsOf(order, data) /\ TakenNow' = TakenNow
BY DEF Abstract!Init, Abstract!PutHead, Abstract!PutTail, Abstract!Get, Abstract!Free,
       Abstract!vars, ItemsOf, TakenNow

LEMMA InitRefines == Init => Abstract!Init
<1> SUFFICES ASSUME Init PROVE Abstract!Init
  OBVIOUS
<1>1. order = << >> /\ Len(order) = 0
  BY DEF Init
<1>2. ItemsOf(order, data) = << >>
  BY <1>1 DEF ItemsOf
<1>3. TakenNow = [t \in Threads |-> NULL]
  BY DEF Init, TakenNow, TakenBy
<1>. QED
  BY <1>2, <1>3, AbstractSteps

LEMMA PutRefines ==
  ASSUME IInv, NEW t \in Threads, NEW e \in Elements, NEW d \in Data, Put(t, e, d)
  PROVE  Abstract!PutHead(d) \/ Abstract!PutTail(d)
<1>1. /\ order \in Seq(Elements) /\ data \in [Elements -> Held] /\ d \in Held
      /\ elem \in [Threads -> Elements \cup {NULL}]
      /\ \A i \in 1..Len(order) : order[i] # e
      /\ \A u \in Threads : elem[u] # e
  BY NullAssumption DEF IInv, TypeOK, Held, EveryElementOwned, Put
<1>2. data' = [data EXCEPT ![e] = d] /\ elem' = elem /\ result' = result
  BY DEF Put, PutHead, PutTail
<1>3. TakenNow' = TakenNow
  <2>1. \A u \in Threads : TakenBy(u)' = TakenBy(u)
    BY <1>1, <1>2 DEF TakenBy
  <2>. QED
    BY <2>1 DEF TakenNow
<1>4. CASE order' = <<e>> \o order
  <2>1. ItemsOf(order', data') = <<d>> \o ItemsOf(order, data)
    BY <1>1, <1>2, <1>4, ItemsPrepend
  <2>. QED
    BY <1>3, <2>1, AbstractSteps
<1>5. CASE order' = Append(order, e)
  <2>1. ItemsOf(order', data') = Append(ItemsOf(order, data), d)
    BY <1>1, <1>2, <1>5, ItemsAppend
  <2>. QED
    BY <1>3, <2>1, AbstractSteps
<1>. QED
  BY <1>4, <1>5 DEF Put, PutHead, PutTail

LEMMA TakeRefines ==
  ASSUME IInv, NEW t \in Threads, Take(t)
  PROVE  Abstract!Get(t)
<1>1. /\ order \in Seq(Elements) /\ data \in [Elements -> Held]
      /\ elem \in [Threads -> Elements \cup {NULL}]
      /\ order # << >> /\ head = order[1] /\ head # NULL
  BY DEF IInv, TypeOK, Held, LinksMatch, Take
<1>2. /\ data' = data /\ result' = result /\ order' = Tail(order)
      /\ elem' = [elem EXCEPT ![t] = head]
  BY DEF Take
<1>3. /\ ItemsOf(order, data) # << >> /\ Head(ItemsOf(order, data)) = data[head]
      /\ ItemsOf(order', data') = Tail(ItemsOf(order, data))
  BY <1>1, <1>2, ItemsTail
<1>4. TakenNow' = [TakenNow EXCEPT ![t] = data[head]]
  <2>1. \A u \in Threads : TakenBy(u)' = IF u = t THEN data[head] ELSE TakenBy(u)
    BY <1>1, <1>2 DEF TakenBy
  <2>. QED
    BY <2>1 DEF TakenNow
<1>. QED
  BY <1>3, <1>4, AbstractSteps

LEMMA ReturnRefines ==
  ASSUME IInv, NEW t \in Threads, Return(t)
  PROVE  UNCHANGED Abstract!vars
<1>1. /\ order \in Seq(Elements) /\ data \in [Elements -> Held]
      /\ elem \in [Threads -> Elements \cup {NULL}]
      /\ result \in [Threads -> Held]
      /\ elem[t] # NULL /\ elem[t] \in Elements
      /\ \A i \in 1..Len(order) : order[i] # elem[t]
      /\ \A u \in Threads : u # t => elem[u] # elem[t]
  BY DEF IInv, TypeOK, Held, EveryElementOwned, Return
<1>2. /\ data' = [data EXCEPT ![elem[t]] = NULL] /\ order' = order
      /\ result' = [result EXCEPT ![t] = data[elem[t]]]
      /\ elem' = [elem EXCEPT ![t] = NULL]
  BY DEF Return
<1>3. ItemsOf(order', data') = ItemsOf(order, data)
  <2>1. \A i \in 1..Len(order) : data'[order[i]] = data[order[i]]
    BY <1>1, <1>2
  <2>. QED
    BY <1>1, <1>2, <2>1, ItemsAgree
<1>4. TakenNow' = TakenNow
  <2>1. \A u \in Threads : TakenBy(u)' = TakenBy(u)
    <3>1. TakenBy(t)' = TakenBy(t)
      BY <1>1, <1>2 DEF TakenBy
    <3>2. ASSUME NEW u \in Threads, u # t PROVE TakenBy(u)' = TakenBy(u)
      <4>1. elem'[u] = elem[u] /\ result'[u] = result[u] /\ elem[u] # elem[t]
        BY <1>1, <1>2, <3>2
      <4>2. elem[u] # NULL => data'[elem[u]] = data[elem[u]]
        BY <1>1, <1>2, <4>1
      <4>. QED
        BY <4>1, <4>2 DEF TakenBy
    <3>. QED
      BY <3>1, <3>2
  <2>. QED
    BY <2>1 DEF TakenNow
<1>. QED
  BY <1>3, <1>4, AbstractSteps

LEMMA FreeRefines ==
  ASSUME IInv, Free
  PROVE  Abstract!Free
<1>1. order' = << >> /\ Len(order') = 0 /\ elem' = elem /\ result' = result
  BY DEF Free, threads
<1>2. \A u \in Threads : elem[u] = NULL
  BY DEF Free, At, IInv, EveryElementOwned
<1>3. ItemsOf(order', data') = << >>
  BY <1>1 DEF ItemsOf
<1>4. TakenNow' = TakenNow
  <2>1. \A u \in Threads : TakenBy(u)' = TakenBy(u)
    BY <1>1, <1>2 DEF TakenBy
  <2>. QED
    BY <2>1 DEF TakenNow
<1>. QED
  BY <1>3, <1>4, AbstractSteps

\* Steps that leave the list and the results alone.
LEMMA StutterRefines ==
  ASSUME order' = order, data' = data, elem' = elem, result' = result
  PROVE  UNCHANGED Abstract!vars
<1>1. TakenNow' = TakenNow
  BY DEF TakenNow, TakenBy
<1>. QED
  BY <1>1, AbstractSteps

LEMMA NextRefines == IInv /\ [Next]_vars => [Abstract!Next]_(Abstract!vars)
<1> SUFFICES ASSUME IInv, [Next]_vars
             PROVE  Abstract!Next \/ UNCHANGED Abstract!vars
  OBVIOUS
<1>1. ASSUME NEW t \in Threads, NEW e \in Elements, NEW d \in Data, Put(t, e, d)
      PROVE  Abstract!Next
  BY <1>1, PutRefines DEF Abstract!Next
<1>2. ASSUME NEW t \in Threads, Call(t) \/ Resume(t)
      PROVE  Abstract!Next \/ UNCHANGED Abstract!vars
  <2>1. CASE Take(t)
    BY <2>1, TakeRefines DEF Abstract!Next
  <2>2. CASE Wait(t)
    BY <2>2, StutterRefines DEF Wait, list
  <2>. QED
    BY <1>2, <2>1, <2>2 DEF Call, Resume
<1>3. ASSUME NEW t \in Threads, WakeSpuriously(t)
      PROVE  UNCHANGED Abstract!vars
  BY <1>3, StutterRefines DEF WakeSpuriously, list
<1>4. ASSUME NEW t \in Threads, Return(t)
      PROVE  UNCHANGED Abstract!vars
  BY <1>4, ReturnRefines
<1>5. CASE Free
  BY <1>5, FreeRefines DEF Abstract!Next
<1>6. CASE UNCHANGED vars
  BY <1>6, StutterRefines DEF vars
<1>. QED
  BY <1>1, <1>2, <1>3, <1>4, <1>5, <1>6 DEF Next

(***************************************************************************)
(* The queue implements the deque: every put and every get is one step of  *)
(* it, the rest of Q_get, waiting and waking up are none.                  *)
(***************************************************************************)
THEOREM QueueImplementsDeque == Spec => ImplementsDeque
BY Invariant, InitRefines, NextRefines, PTL DEF Spec, ImplementsDeque, Abstract!Spec
=============================================================================
