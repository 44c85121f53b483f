-------------------------- MODULE RangeAroundProofs --------------------------
(***************************************************************************)
(* What holds of nlkup_get_range_around for every number of slots, readers *)
(* and postfixes and all counts.  Three invariants are inductive, each of  *)
(* them more than the one before:                                          *)
(*                                                                         *)
(*   IInv   the tables are disjoint, and a call has numbers of no slot but *)
(*          those it is through with, each once, and room for more;        *)
(*   LInv   the locked slots are those that calls and deletes keep;        *)
(*   HInv   a call has all numbers between the ends it reached, if no      *)
(*          table changed since it began.                                  *)
(*                                                                         *)
(* The last part is about the writer a reply is printed with: append_str   *)
(* grows the buffer by one block, however wide the string is.  For every   *)
(* size of a block that no piece is wider than, this is enough, and the    *)
(* text of a reply of any length is the document meant.                    *)
(***************************************************************************)
EXTENDS RangeAroundQuiet, RangeAroundReply, SequenceTheorems, FiniteSetTheorems, WellFoundedInduction,
        TLAPS

-----------------------------------------------------------------------------
\* Sets in order.

\* A strict order on S, as a set of pairs, in which any two are comparable.
StrictOrder(S, R) ==
  /\ \A x \in S : <<x, x>> \notin R
  /\ \A x, y, z \in S : <<x, y>> \in R /\ <<y, z>> \in R => <<x, z>> \in R
  /\ \A x, y \in S : <<x, y>> \in R \/ <<y, x>> \in R \/ x = y

Smaller(S, R, x) == {y \in S : <<y, x>> \in R}

\* InOrder, with the order as a set of pairs.
Ranked(S, R) ==
  [i \in 1..Cardinality(S) |-> CHOOSE x \in S : Cardinality(Smaller(S, R, x)) = i - 1]

\* The sequences of InOrder are functions on 1..Cardinality(S): the provers
\* need this stated, once for Ranked and once for each order.
LEMMA RankedFunction ==
  ASSUME NEW S, NEW R
  PROVE  Ranked(S, R) = [i \in 1..Cardinality(S) |-> Ranked(S, R)[i]]
BY DEF Ranked

\* The same for the order of a table.
LEMMA LessFunction ==
  ASSUME NEW S, NEW n, n = Cardinality(S), NEW f, f = InOrder(S, <)
  PROVE  f = [i \in 1..n |-> f[i]]
BY DEF InOrder

\* The same for the order of all numbers.
LEMMA LowerFunction ==
  ASSUME NEW S, NEW n, n = Cardinality(S), NEW f, f = InOrder(S, Precedes)
  PROVE  f = [i \in 1..n |-> f[i]]
BY DEF InOrder

\* The same for the order of a reply.
LEMMA AlphaFunction ==
  ASSUME NEW S, NEW n, n = Cardinality(S), NEW f, f = InOrder(S, Alphabetical)
  PROVE  f = [i \in 1..n |-> f[i]]
BY DEF InOrder

\* Of two elements the smaller one has fewer elements below it.
LEMMA RankAscends ==
  ASSUME NEW S, IsFiniteSet(S), NEW R, StrictOrder(S, R),
         NEW x \in S, NEW y \in S, <<x, y>> \in R
  PROVE  Cardinality(Smaller(S, R, x)) < Cardinality(Smaller(S, R, y))
<1> DEFINE X == Smaller(S, R, x)
           Y == Smaller(S, R, y)
<1>1. X \subseteq Y /\ x \in Y /\ x \notin X /\ Y \subseteq S
  BY DEF StrictOrder, Smaller
<1>. HIDE DEF X, Y
<1>2. IsFiniteSet(Y)
  BY <1>1, FS_Subset
<1>3. Cardinality(X) <= Cardinality(Y) /\ Cardinality(Y) # Cardinality(X) /\ IsFiniteSet(X)
  BY <1>1, <1>2, FS_Subset
<1>4. Cardinality(X) \in Nat /\ Cardinality(Y) \in Nat
  BY <1>2, <1>3, FS_CardinalityType
<1>5. Cardinality(X) < Cardinality(Y)
  BY <1>3, <1>4
<1>. QED
  BY <1>5 DEF X, Y

\* Ranks are the numbers below the size of the set, each taken once.
LEMMA RanksTaken ==
  ASSUME NEW S, IsFiniteSet(S), NEW R, StrictOrder(S, R)
  PROVE  /\ Cardinality(S) \in Nat
         /\ \A x \in S : Cardinality(Smaller(S, R, x)) \in 0..(Cardinality(S) - 1)
         /\ \A x, y \in S : Cardinality(Smaller(S, R, x)) = Cardinality(Smaller(S, R, y))
                              => x = y
         /\ \A k \in 0..(Cardinality(S) - 1) :
              \E x \in S : Cardinality(Smaller(S, R, x)) = k
<1> DEFINE n == Cardinality(S)
           rank == [x \in S |-> Cardinality(Smaller(S, R, x))]
<1>1. n \in Nat
  BY FS_CardinalityType
<1>2. ASSUME NEW x \in S PROVE rank[x] \in 0..(n - 1)
  <2> DEFINE X == Smaller(S, R, x)
  <2>1. X \subseteq S /\ x \notin X
    BY DEF StrictOrder, Smaller
  <2>2. rank[x] = Cardinality(X)
    OBVIOUS
  <2>. HIDE DEF X, rank, n
  <2>3. IsFiniteSet(X) /\ Cardinality(X) <= Cardinality(S) /\ Cardinality(X) # Cardinality(S)
    BY <2>1, FS_Subset
  <2>4. Cardinality(X) \in Nat
    BY <2>3, FS_CardinalityType
  <2>5. Cardinality(X) <= n /\ Cardinality(X) # n
    BY <2>3 DEF n
  <2>. QED
    BY <1>1, <2>2, <2>4, <2>5
<1>3. ASSUME NEW x \in S, NEW y \in S, rank[x] = rank[y] PROVE x = y
  <2>1. CASE <<x, y>> \in R
    <3>1. rank[x] < rank[y]
      BY <2>1, RankAscends
    <3>. HIDE DEF rank, n
    <3>. QED
      BY <1>1, <1>2, <1>3, <3>1
  <2>2. CASE <<y, x>> \in R
    <3>1. rank[y] < rank[x]
      BY <2>2, RankAscends
    <3>. HIDE DEF rank, n
    <3>. QED
      BY <1>1, <1>2, <1>3, <3>1
  <2>. QED
    BY <2>1, <2>2 DEF StrictOrder
<1>4. rank \in Injection(S, 0..(n - 1))
  <2>1. rank \in [S -> 0..(n - 1)]
    <3>1. rank = [x \in S |-> rank[x]]
      OBVIOUS
    <3>. HIDE DEF rank, n
    <3>. QED
      BY <1>2, <3>1
  <2>. HIDE DEF rank, n
  <2>. QED
    BY <1>3, <2>1 DEF Injection, IsInjective
<1>5. IsFiniteSet(0..(n - 1)) /\ Cardinality(0..(n - 1)) = n
  <2>. HIDE DEF n
  <2>1. 0 \in Int /\ n - 1 \in Int
    BY <1>1
  <2>2. IsFiniteSet(0..(n - 1)) /\ Cardinality(0..(n - 1)) = IF 0 > n - 1 THEN 0 ELSE n - 1 - 0 + 1
    BY <2>1, FS_Interval
  <2>. QED
    BY <1>1, <2>2
<1>6. rank \in Surjection(S, 0..(n - 1))
  <2>. HIDE DEF rank
  <2>. QED
    BY <1>4, <1>5, FS_Injection
<1>7. ASSUME NEW k \in 0..(n - 1) PROVE \E x \in S : rank[x] = k
  <2>. HIDE DEF rank, n
  <2>. QED
    BY <1>6 DEF Surjection
<1>8. \A x \in S : rank[x] = Cardinality(Smaller(S, R, x))
  OBVIOUS
<1>. HIDE DEF rank
<1>. QED
  BY <1>1, <1>2, <1>3, <1>7, <1>8

\* Ranked has every element once, at the place its rank says.
LEMMA RankedSorts ==
  ASSUME NEW S, IsFiniteSet(S), NEW R, StrictOrder(S, R)
  PROVE  /\ Ranked(S, R) \in [1..Cardinality(S) -> S]
         /\ \A i \in 1..Cardinality(S) :
              Cardinality(Smaller(S, R, Ranked(S, R)[i])) = i - 1
         /\ \A i, j \in 1..Cardinality(S) :
              i < j => <<Ranked(S, R)[i], Ranked(S, R)[j]>> \in R
         /\ \A x \in S : \E i \in 1..Cardinality(S) :
              Ranked(S, R)[i] = x /\ Cardinality(Smaller(S, R, x)) = i - 1
<1> DEFINE n == Cardinality(S)
           rank(x) == Cardinality(Smaller(S, R, x))
           f == Ranked(S, R)
<1>1. /\ n \in Nat
      /\ \A x \in S : rank(x) \in 0..(n - 1)
      /\ \A x, y \in S : rank(x) = rank(y) => x = y
      /\ \A k \in 0..(n - 1) : \E x \in S : rank(x) = k
  BY RanksTaken
<1>2. ASSUME NEW i \in 1..n PROVE f[i] \in S /\ rank(f[i]) = i - 1
  <2>1. f[i] = CHOOSE x \in S : rank(x) = i - 1
    BY DEF Ranked
  <2>. HIDE DEF n, rank, f
  <2>2. i - 1 \in 0..(n - 1)
    BY <1>1
  <2>3. \E x \in S : rank(x) = i - 1
    BY <1>1, <2>2
  <2>. QED
    BY <2>1, <2>3
<1>3. f \in [1..n -> S]
  <2>1. f = [i \in 1..n |-> f[i]]
    BY DEF Ranked
  <2>. HIDE DEF n, f
  <2>. QED
    BY <1>2, <2>1
<1>4. ASSUME NEW i \in 1..n, NEW j \in 1..n, i < j PROVE <<f[i], f[j]>> \in R
  <2>1. rank(f[i]) = i - 1 /\ rank(f[j]) = j - 1 /\ f[i] \in S /\ f[j] \in S
    BY <1>2
  <2>2. CASE <<f[j], f[i]>> \in R
    <3>1. rank(f[j]) < rank(f[i])
      BY <2>1, <2>2, RankAscends
    <3>. HIDE DEF n, rank, f
    <3>2. j - 1 < i - 1
      BY <2>1, <3>1
    <3>. QED
      BY <1>4, <3>2, <1>1
  <2>3. CASE f[j] = f[i]
    <3>. HIDE DEF n, rank, f
    <3>1. j - 1 = i - 1
      BY <2>1, <2>3
    <3>. QED
      BY <1>4, <3>1, <1>1
  <2>. QED
    BY <2>1, <2>2, <2>3 DEF StrictOrder
<1>5. ASSUME NEW x \in S PROVE \E i \in 1..n : f[i] = x /\ rank(x) = i - 1
  <2> DEFINE k == rank(x) + 1
  <2>. HIDE DEF n, rank, f
  <2>1. k \in 1..n /\ rank(x) = k - 1
    BY <1>1
  <2>2. f[k] \in S /\ rank(f[k]) = k - 1
    BY <1>2, <2>1
  <2>3. f[k] = x
    BY <1>1, <2>1, <2>2
  <2>. QED
    BY <2>1, <2>3
<1>. QED
  BY <1>2, <1>3, <1>4, <1>5

\* The pairs of S in the three orders of the model.
Less(S)  == {z \in S \X S : z[1] < z[2]}
Lower(S) == {z \in S \X S : Precedes(z[1], z[2])}
Alpha(S) == {z \in S \X S : Alphabetical(z[1], z[2])}

Numbers == Slots \X Postfixes

\* The order of a table.
LEMMA LessOrders ==
  ASSUME NEW S, S \subseteq Int
  PROVE  StrictOrder(S, Less(S)) /\ InOrder(S, <) = Ranked(S, Less(S))
<1>1. \A x, y \in S : <<x, y>> \in Less(S) <=> x < y
  BY DEF Less
<1>2. StrictOrder(S, Less(S))
  BY <1>1 DEF StrictOrder
<1>3. \A x \in S : Smaller(S, Less(S), x) = {y \in S : y < x}
  BY <1>1 DEF Smaller
<1>4. \A i : (CHOOSE x \in S : Cardinality({y \in S : y < x}) = i - 1)
              = CHOOSE x \in S : Cardinality(Smaller(S, Less(S), x)) = i - 1
  BY <1>3
<1> DEFINE f == InOrder(S, <)
           g == Ranked(S, Less(S))
           n == Cardinality(S)
<1>5. f = [i \in 1..n |-> f[i]] /\ g = [i \in 1..n |-> g[i]]
  BY LessFunction, RankedFunction
<1>6. \A i \in 1..n : f[i] = CHOOSE x \in S : Cardinality({y \in S : y < x}) = i - 1
  BY DEF InOrder
<1>7. \A i \in 1..n : g[i] = CHOOSE x \in S : Cardinality(Smaller(S, Less(S), x)) = i - 1
  BY DEF Ranked
<1>8. \A i \in 1..n : f[i] = g[i]
  <2>. HIDE DEF f, g, n
  <2>. QED
    BY <1>4, <1>6, <1>7
<1>9. f = g
  <2>. HIDE DEF f, g, n
  <2>. QED
    BY <1>5, <1>8
<1>. QED
  BY <1>2, <1>9

\* The order of all numbers.
LEMMA LowerOrders ==
  ASSUME NEW S, S \subseteq Numbers
  PROVE  StrictOrder(S, Lower(S)) /\ InOrder(S, Precedes) = Ranked(S, Lower(S))
<1> DEFINE f == InOrder(S, Precedes)
           g == Ranked(S, Lower(S))
           n == Cardinality(S)
<1>1. \A x, y \in S : <<x, y>> \in Lower(S) <=> Precedes(x, y)
  BY DEF Lower
<1>2. StrictOrder(S, Lower(S))
  <2>1. \A x \in S : x = <<x[1], x[2]>> /\ x[1] \in Int /\ x[2] \in Postfixes /\ x[2] \in Int
    <3>1. Slots \subseteq Int /\ Postfixes \subseteq Int
      BY RankAssumption, SlotAssumption DEF Slots
    <3>2. ASSUME NEW x \in S
          PROVE  x = <<x[1], x[2]>> /\ x[1] \in Int /\ x[2] \in Postfixes /\ x[2] \in Int
      <4>1. x \in Int \X Postfixes
        BY <3>1 DEF Numbers
      <4>2. x = <<x[1], x[2]>> /\ x[1] \in Int /\ x[2] \in Postfixes
        BY <4>1
      <4>. QED
        BY <3>1, <4>2
    <3>. QED
      BY <3>2
  <2>2. \A x \in S : ~Precedes(x, x)
    BY <2>1, TextAssumption DEF Precedes
  <2>3. \A x, y, z \in S : Precedes(x, y) /\ Precedes(y, z) => Precedes(x, z)
    BY <2>1, TextAssumption DEF Precedes
  <2>4. \A x, y \in S : Precedes(x, y) \/ Precedes(y, x) \/ x = y
    BY <2>1, TextAssumption DEF Precedes
  <2>. QED
    BY <1>1, <2>2, <2>3, <2>4 DEF StrictOrder
<1>3. \A x \in S : Smaller(S, Lower(S), x) = {y \in S : Precedes(y, x)}
  BY <1>1 DEF Smaller
<1>4. \A i : (CHOOSE x \in S : Cardinality({y \in S : Precedes(y, x)}) = i - 1)
              = CHOOSE x \in S : Cardinality(Smaller(S, Lower(S), x)) = i - 1
  BY <1>3
<1>5. f = [i \in 1..n |-> f[i]] /\ g = [i \in 1..n |-> g[i]]
  BY LowerFunction, RankedFunction
<1>6. \A i \in 1..n : f[i] = CHOOSE x \in S : Cardinality({y \in S : Precedes(y, x)}) = i - 1
  BY DEF InOrder
<1>7. \A i \in 1..n : g[i] = CHOOSE x \in S : Cardinality(Smaller(S, Lower(S), x)) = i - 1
  BY DEF Ranked
<1>8. \A i \in 1..n : f[i] = g[i]
  <2>. HIDE DEF f, g, n
  <2>. QED
    BY <1>4, <1>6, <1>7
<1>9. f = g
  <2>. HIDE DEF f, g, n
  <2>. QED
    BY <1>5, <1>8
<1>. QED
  BY <1>2, <1>9


\* The order of a reply.
LEMMA AlphaOrders ==
  ASSUME NEW S, S \subseteq Numbers
  PROVE  StrictOrder(S, Alpha(S)) /\ InOrder(S, Alphabetical) = Ranked(S, Alpha(S))
<1> DEFINE f == InOrder(S, Alphabetical)
           g == Ranked(S, Alpha(S))
           n == Cardinality(S)
<1>1. \A x, y \in S : <<x, y>> \in Alpha(S) <=> Alphabetical(x, y)
  BY DEF Alpha
<1>2. StrictOrder(S, Alpha(S))
  <2>1. \A x \in S : x = <<x[1], x[2]>> /\ x[1] \in Int /\ x[2] \in Postfixes /\ x[2] \in Int
    <3>1. Slots \subseteq Int /\ Postfixes \subseteq Int
      BY RankAssumption, SlotAssumption DEF Slots
    <3>2. ASSUME NEW x \in S
          PROVE  x = <<x[1], x[2]>> /\ x[1] \in Int /\ x[2] \in Postfixes /\ x[2] \in Int
      <4>1. x \in Int \X Postfixes
        BY <3>1 DEF Numbers
      <4>2. x = <<x[1], x[2]>> /\ x[1] \in Int /\ x[2] \in Postfixes
        BY <4>1
      <4>. QED
        BY <3>1, <4>2
    <3>. QED
      BY <3>2
  <2>2. \A x \in S : ~Alphabetical(x, x)
    BY <2>1, TextAssumption DEF Alphabetical
  <2>3. \A x, y, z \in S : Alphabetical(x, y) /\ Alphabetical(y, z) => Alphabetical(x, z)
    BY <2>1, TextAssumption DEF Alphabetical
  <2>4. \A x, y \in S : Alphabetical(x, y) \/ Alphabetical(y, x) \/ x = y
    BY <2>1, TextAssumption DEF Alphabetical
  <2>. QED
    BY <1>1, <2>2, <2>3, <2>4 DEF StrictOrder
<1>3. \A x \in S : Smaller(S, Alpha(S), x) = {y \in S : Alphabetical(y, x)}
  BY <1>1 DEF Smaller
<1>4. \A i : (CHOOSE x \in S : Cardinality({y \in S : Alphabetical(y, x)}) = i - 1)
              = CHOOSE x \in S : Cardinality(Smaller(S, Alpha(S), x)) = i - 1
  BY <1>3
<1>5. f = [i \in 1..n |-> f[i]] /\ g = [i \in 1..n |-> g[i]]
  BY AlphaFunction, RankedFunction
<1>6. \A i \in 1..n : f[i] = CHOOSE x \in S : Cardinality({y \in S : Alphabetical(y, x)}) = i - 1
  BY DEF InOrder
<1>7. \A i \in 1..n : g[i] = CHOOSE x \in S : Cardinality(Smaller(S, Alpha(S), x)) = i - 1
  BY DEF Ranked
<1>8. \A i \in 1..n : f[i] = g[i]
  <2>. HIDE DEF f, g, n
  <2>. QED
    BY <1>4, <1>6, <1>7
<1>9. f = g
  <2>. HIDE DEF f, g, n
  <2>. QED
    BY <1>5, <1>8
<1>. QED
  BY <1>2, <1>9

\* No number twice.
Distinct(data) == \A i, j \in 1..Len(data) : i # j => data[i] # data[j]

Members(data) == {data[i] : i \in 1..Len(data)}

\* qsort on numbers that are all different: the set of them in order.
LEMMA SortedDistinct ==
  ASSUME NEW data \in Seq(Numbers), Distinct(data)
  PROVE  /\ Sorted(data) = InOrder(Members(data), Alphabetical)
         /\ IsFiniteSet(Members(data)) /\ Cardinality(Members(data)) = Len(data)
<1> DEFINE D == DOMAIN data
           n == Len(data)
           W == Members(data)
           R == {z \in D \X D : Alphabetical(data[z[1]], data[z[2]])}
           Before(i, j) == \/ Alphabetical(data[i], data[j])
                           \/ ~Alphabetical(data[j], data[i]) /\ i < j
           order == [i \in D |-> Place(data, i)]
<1>1. D = 1..n /\ n \in Nat /\ \A i \in D : data[i] \in W
  BY DEF Members
<1>2. W \subseteq Numbers /\ StrictOrder(W, Alpha(W))
      /\ InOrder(W, Alphabetical) = Ranked(W, Alpha(W))
  <2>1. W \subseteq Numbers
    BY DEF Members
  <2>. QED
    BY <2>1, AlphaOrders
<1>3. \A x, y \in W : <<x, y>> \in Alpha(W) <=> Alphabetical(x, y)
  BY DEF Alpha
<1>4. \A i, j \in D : <<i, j>> \in R <=> <<data[i], data[j]>> \in Alpha(W)
  BY <1>1, <1>3
<1>5. \A i, j \in D : data[i] = data[j] => i = j
  BY <1>1 DEF Distinct
<1>6. StrictOrder(D, R)
  <2>. HIDE DEF D, R, W
  <2>1. \A i \in D : <<i, i>> \notin R
    BY <1>1, <1>2, <1>4 DEF StrictOrder
  <2>2. \A i, j, k \in D : <<i, j>> \in R /\ <<j, k>> \in R => <<i, k>> \in R
    BY <1>1, <1>2, <1>4 DEF StrictOrder
  <2>3. ASSUME NEW i \in D, NEW j \in D PROVE <<i, j>> \in R \/ <<j, i>> \in R \/ i = j
    <3>1. \/ <<data[i], data[j]>> \in Alpha(W) \/ <<data[j], data[i]>> \in Alpha(W)
          \/ data[i] = data[j]
      BY <1>1, <1>2 DEF StrictOrder
    <3>. QED
      BY <1>4, <1>5, <3>1
  <2>. QED
    BY <2>1, <2>2, <2>3 DEF StrictOrder
<1>7. \A i, j \in D : Before(i, j) <=> <<i, j>> \in R
  <2>1. \A i, j \in D : Alphabetical(data[i], data[j]) <=> <<data[i], data[j]>> \in Alpha(W)
    BY <1>1, <1>3
  <2>2. \A i, j \in D : i < j => i # j
    BY <1>1
  <2>3. \A i, j \in D : ~Alphabetical(data[j], data[i]) /\ i < j => Alphabetical(data[i], data[j])
    <3>. HIDE DEF D, R, W, n
    <3>. QED
      BY <1>1, <1>2, <1>5, <2>1, <2>2 DEF StrictOrder
  <2>. HIDE DEF D, R, W, n
  <2>. QED
    BY <1>4, <2>1, <2>3
<1>8. IsFiniteSet(D) /\ Cardinality(D) = n
  <2>1. IsFiniteSet(1..n) /\ Cardinality(1..n) = IF 1 > n THEN 0 ELSE n - 1 + 1
    <3>. HIDE DEF n
    <3>. QED
      BY <1>1, FS_Interval
  <2>. HIDE DEF n
  <2>. QED
    BY <1>1, <2>1
<1>9. order = Ranked(D, R)
  <2> DEFINE g == Ranked(D, R)
  <2>1. \A x \in D : Smaller(D, R, x) = {y \in D : Before(y, x)}
    <3>. HIDE DEF D, R, Before
    <3>. QED
      BY <1>7 DEF Smaller
  <2>2. \A i : (CHOOSE x \in D : Cardinality({y \in D : Before(y, x)}) = i - 1)
                = CHOOSE x \in D : Cardinality(Smaller(D, R, x)) = i - 1
    <3>. HIDE DEF D, R, Before
    <3>. QED
      BY <2>1
  <2>3. g = [i \in D |-> g[i]]
    <3>. HIDE DEF D, R, n
    <3>. QED
      BY <1>1, <1>8, RankedFunction
  <2>4. \A i : Place(data, i) = CHOOSE x \in D : Cardinality({y \in D : Before(y, x)}) = i - 1
    BY DEF Place
  <2>5. \A i \in D : g[i] = CHOOSE x \in D : Cardinality(Smaller(D, R, x)) = i - 1
    <3>. HIDE DEF D, R, n
    <3>. QED
      BY <1>1, <1>8 DEF Ranked
  <2>. HIDE DEF g, D, R, Before
  <2>6. \A i \in D : Place(data, i) = g[i]
    BY <2>2, <2>4, <2>5
  <2>7. order = g
    BY <2>3, <2>6
  <2>. QED
    BY <2>7 DEF g
<1>10. ASSUME NEW A, A \subseteq D
       PROVE  Cardinality({data[k] : k \in A}) = Cardinality(A)
              /\ IsFiniteSet({data[k] : k \in A})
  <2> DEFINE B == {data[k] : k \in A}
             f == [k \in A |-> data[k]]
  <2>1. f \in [A -> B] /\ (\A j, k \in A : f[j] = f[k] => j = k) /\ \A b \in B : \E k \in A : f[k] = b
    <3>. HIDE DEF D, R, W, n
    <3>. QED
      BY <1>5, <1>10
  <2>2. ExistsBijection(A, B)
    <3>. HIDE DEF B, f
    <3>. QED
      BY <2>1 DEF ExistsBijection, Bijection, Injection, Surjection, IsInjective
  <2>3. IsFiniteSet(A)
    <3>. HIDE DEF D, R, W, n
    <3>. QED
      BY <1>8, <1>10, FS_Subset
  <2>. HIDE DEF B, f
  <2>4. IsFiniteSet(B) /\ Cardinality(B) = Cardinality(A)
    BY <2>2, <2>3, FS_Bijection
  <2>. QED
    BY <2>4 DEF B
<1>11. W = {data[k] : k \in D} /\ IsFiniteSet(W) /\ Cardinality(W) = n
  <2>1. W = {data[k] : k \in D}
    BY <1>1 DEF Members
  <2>. HIDE DEF D, R, W, n
  <2>. QED
    BY <1>8, <1>10, <2>1
<1>12. /\ order \in [D -> D]
       /\ \A i \in D : Cardinality(Smaller(D, R, order[i])) = i - 1
  <2>1. /\ Ranked(D, R) \in [1..Cardinality(D) -> D]
        /\ \A i \in 1..Cardinality(D) : Cardinality(Smaller(D, R, Ranked(D, R)[i])) = i - 1
    <3>. HIDE DEF D, R
    <3>. QED
      BY <1>6, <1>8, RankedSorts
  <2>. HIDE DEF D, R, W, n, order
  <2>. QED
    BY <1>1, <1>9, <1>8, <2>1
<1>13. ASSUME NEW i \in D PROVE data[order[i]] = Ranked(W, Alpha(W))[i]
  <2> DEFINE x == data[order[i]]
             A == Smaller(D, R, order[i])
  <2>1. order[i] \in D /\ x \in W /\ A \subseteq D
    <3>. HIDE DEF D, R, W, n, order
    <3>. QED
      BY <1>1, <1>12 DEF Smaller
  <2>2. Smaller(W, Alpha(W), x) = {data[k] : k \in A}
    <3>. HIDE DEF D, R, n, order, W
    <3>. QED
      BY <1>4, <1>11, <2>1 DEF Smaller
  <2>3. Cardinality(Smaller(W, Alpha(W), x)) = i - 1
    <3>. HIDE DEF D, R, n, order, W, x
    <3>. QED
      BY <1>10, <1>12, <2>1, <2>2
  <2>4. \E j \in 1..Cardinality(W) :
          Ranked(W, Alpha(W))[j] = x /\ Cardinality(Smaller(W, Alpha(W), x)) = j - 1
    <3>. HIDE DEF W, x, n, D, R, order
    <3>1. x \in W /\ IsFiniteSet(W) /\ StrictOrder(W, Alpha(W))
      BY <1>2, <1>11, <2>1
    <3>. QED
      BY <3>1, RankedSorts
  <2>5. PICK j \in 1..n : Ranked(W, Alpha(W))[j] = x /\ i - 1 = j - 1
    <3>. HIDE DEF D, R, n, order, W, x
    <3>. QED
      BY <1>11, <2>3, <2>4
  <2>6. i = j
    <3>. HIDE DEF D, R, n, order, W, x
    <3>. QED
      BY <1>1, <2>5
  <2>. QED
    BY <2>5, <2>6
<1>14. Sorted(data) = [i \in D |-> data[order[i]]]
  BY DEF Sorted
<1>15. Ranked(W, Alpha(W)) = [i \in D |-> Ranked(W, Alpha(W))[i]]
  <2>1. Ranked(W, Alpha(W)) = [i \in 1..Cardinality(W) |-> Ranked(W, Alpha(W))[i]]
    BY DEF Ranked
  <2>. HIDE DEF D, R, n, order, W
  <2>. QED
    BY <1>1, <1>11, <2>1
<1>16. Sorted(data) = Ranked(W, Alpha(W))
  <2>. HIDE DEF D, R, n, order, W
  <2>. QED
    BY <1>13, <1>14, <1>15
<1>. QED
  BY <1>2, <1>11, <1>16

-----------------------------------------------------------------------------
\* Types.

Most == Cardinality(Postfixes)

Pcs == {"idle", "search", "nearest", "copy", "before", "lockBefore", "after",
        "lockAfter", "answered"}

Call == [pc : Pcs, nbr : Numbers \cup {<< >>}, start : (Slots \X Nat) \cup {<< >>},
         t : TableIds \cup {NULL}, cur : -1..(LastSlot + 1), pos : Int,
         before : 0..(MaxCount + Most), after : 0..(MaxCount + Most),
         asked : ((1..MaxCount) \X (1..MaxCount)) \cup {<< >>}, data : Seq(Numbers)]

\* Where the delete of a last entry is.
DeleteOf == [at : {"none", "freed", "cleared"}, slot : Slots, t : TableIds]

HeapOK ==
  /\ ptr \in [Slots -> TableIds \cup {NULL}]
  /\ heap \in [TableIds -> SUBSET Postfixes]
  /\ allocated \subseteq TableIds
  /\ deletes \in [Updaters -> DeleteOf]
  /\ locked \subseteq Slots
  /\ robbed \subseteq Slots

(***************************************************************************)
(* Where a call is: while it keeps its start slot, it looks at slots below *)
(* it first and then at slots above it.  Its start entry may lie behind    *)
(* the end of the table, when that was used again since.                   *)
(***************************************************************************)
CallOK(c) ==
  /\ c \in Call
  /\ c.pc # "idle" => c.nbr \in Numbers /\ c.asked # << >>
  /\ c.pc \in {"search", "nearest", "copy"} =>
       c.before = c.asked[1] /\ c.after = c.asked[2]
  /\ c.pc \in {"search", "nearest"} => c.cur >= 0
  /\ c.pc = "search" => c.cur <= LastSlot
  /\ c.pc \in Copying \cup {"answered"} => c.start \in Slots \X (0..(Most - 1))
  /\ c.pc \in {"before", "lockBefore"} => c.cur < c.start[1]
  /\ c.pc \in {"after", "lockAfter"} => c.cur > c.start[1]
  /\ c.pc = "lockBefore" => c.cur >= 0 /\ c.t # NULL
  /\ c.pc = "lockAfter" => c.cur <= LastSlot /\ c.t # NULL

\* What a call gathered: no number twice, none at a slot still to come, never
\* more than there is room for; and sorted in the end.
DataOK(c) ==
  /\ Distinct(c.data)
  /\ c.pc # "idle" => Len(c.data) <= c.asked[1] + c.asked[2] + 1
  /\ c.pc \in {"before", "lockBefore"} =>
       \A i \in 1..Len(c.data) : c.cur < c.data[i][1] /\ c.data[i][1] <= c.start[1]
  /\ c.pc \in {"after", "lockAfter"} => \A i \in 1..Len(c.data) : c.data[i][1] < c.cur
  /\ c.pc = "answered" =>
       \A i, j \in 1..Len(c.data) : i < j => Alphabetical(c.data[i], c.data[j])

CallsOK == call \in [Readers -> Call] /\ \A r \in Readers : CallOK(call[r]) /\ DataOK(call[r])

\* A pointer is to an allocated table, which is no other slot's, but for the
\* pointer a delete has yet to clear.
PointersOK ==
  /\ ~torn => \A s \in Slots : ptr[s] # NULL => ptr[s] \in allocated \/ Dangling(s)
  /\ TablesDisjoint

IInv == HeapOK /\ CallsOK /\ PointersOK

\* A table has a size.
LEMMA SizeOfPostfixes == Most \in Nat
BY RankAssumption, FS_CardinalityType DEF Most

\* A table is finite, and no larger than the set of all postfixes.
LEMMA PostfixesBounded ==
  ASSUME NEW S, S \subseteq Postfixes
  PROVE  IsFiniteSet(S) /\ Cardinality(S) \in 0..Most /\ S \subseteq Int
<1>1. IsFiniteSet(S) /\ Cardinality(S) <= Most
  BY RankAssumption, FS_Subset DEF Most
<1>2. Cardinality(S) \in Nat
  BY <1>1, FS_CardinalityType
<1>. QED
  BY <1>1, <1>2, SizeOfPostfixes, RankAssumption

\* What is at an address is in order, each entry at the place its rank says.
LEMMA EntriesSorted ==
  ASSUME HeapOK, NEW t \in TableIds
  PROVE  /\ Entries(t) \in Seq(Postfixes)
         /\ Len(Entries(t)) = Cardinality(heap[t])
         /\ Cardinality(heap[t]) \in 0..Most
         /\ \A i, j \in 1..Len(Entries(t)) : i < j => Entries(t)[i] < Entries(t)[j]
         /\ \A i \in 1..Len(Entries(t)) : Entries(t)[i] \in heap[t]
         /\ \A p \in heap[t] : \E i \in 1..Len(Entries(t)) :
              Entries(t)[i] = p /\ Below(t, p) = i - 1
<1> DEFINE S == heap[t]
           f == Entries(t)
           n == Cardinality(S)
<1>1. S \subseteq Postfixes
  BY DEF HeapOK
<1>2. IsFiniteSet(S) /\ n \in 0..Most /\ S \subseteq Int
  BY <1>1, PostfixesBounded
<1>3. StrictOrder(S, Less(S)) /\ f = Ranked(S, Less(S))
  <2>1. f = InOrder(S, <)
    BY DEF Entries
  <2>. QED
    BY <1>2, <2>1, LessOrders
<1>4. /\ f \in [1..n -> S]
      /\ \A i, j \in 1..n : i < j => <<f[i], f[j]>> \in Less(S)
      /\ \A x \in S : \E i \in 1..n : f[i] = x /\ Cardinality(Smaller(S, Less(S), x)) = i - 1
  <2>. HIDE DEF S, f
  <2>. QED
    BY <1>2, <1>3, RankedSorts
<1>5. \A x \in S : Below(t, x) = Cardinality(Smaller(S, Less(S), x))
  <2>1. ASSUME NEW x \in S PROVE Smaller(S, Less(S), x) = {q \in S : q < x}
    BY DEF Smaller, Less
  <2>. QED
    BY <2>1 DEF Below
<1>6. n \in Nat /\ Most \in Nat
  BY <1>2, SizeOfPostfixes
<1>7. f \in Seq(Postfixes) /\ Len(f) = n
  <2>. HIDE DEF S, f, n
  <2>1. f \in [1..n -> Postfixes]
    BY <1>1, <1>4
  <2>. QED
    BY <1>6, <2>1
<1>8. \A i, j \in 1..n : i < j => f[i] < f[j]
  BY <1>4 DEF Less
<1>9. \A i \in 1..n : f[i] \in S
  <2>. HIDE DEF S, f, n
  <2>. QED
    BY <1>4
<1>10. \A x \in S : \E i \in 1..n : f[i] = x /\ Below(t, x) = i - 1
  <2>. HIDE DEF S, f, n
  <2>. QED
    BY <1>4, <1>5
<1>. HIDE DEF f, n
<1>. QED
  BY <1>2, <1>7, <1>8, <1>9, <1>10 DEF n, f

\* The table of a slot, if it has one, is in order.
LEMMA TableSorted ==
  ASSUME HeapOK, NEW slot \in Slots
  PROVE  /\ Table(slot) \in Seq(Postfixes)
         /\ Len(Table(slot)) \in 0..Most
         /\ \A i, j \in 1..Len(Table(slot)) : i < j => Table(slot)[i] < Table(slot)[j]
         /\ Table(slot) # << >> => ptr[slot] \in TableIds
         /\ ptr[slot] # NULL => ptr[slot] \in TableIds /\ Table(slot) = Entries(ptr[slot])
<1>1. CASE ptr[slot] = NULL
  <2>1. Table(slot) = << >>
    BY <1>1 DEF Table
  <2>. QED
    BY <1>1, <2>1, SizeOfPostfixes
<1>2. CASE ptr[slot] # NULL
  <2>1. Table(slot) = Entries(ptr[slot]) /\ ptr[slot] \in TableIds
    BY <1>2 DEF Table, HeapOK
  <2>. QED
    BY <1>2, <2>1, EntriesSorted
<1>. QED
  BY <1>1, <1>2

-----------------------------------------------------------------------------
\* The first state, and the steps of other threads.

\* The first state has the invariant.
LEMMA InitOK == Init => IInv
<1> SUFFICES ASSUME Init PROVE IInv
  OBVIOUS
<1>1. Slots \subseteq TableIds /\ NULL \notin TableIds /\ NULL \notin Slots
  BY SlotAssumption, NullAssumption DEF Slots, TableIds
<1>2. PICK dir \in [Slots -> SUBSET Postfixes] :
        /\ ptr  = [s \in Slots |-> IF dir[s] = {} THEN NULL ELSE s]
        /\ heap = [t \in TableIds |-> IF t \in Slots THEN dir[t] ELSE {}]
        /\ allocated = {s \in Slots : dir[s] # {}}
  BY DEF Init
<1>2a. NoDelete \in DeleteOf
  BY SlotAssumption DEF NoDelete, DeleteOf, Slots, TableIds
<1>3. HeapOK
  BY <1>1, <1>2, <1>2a DEF Init, HeapOK
<1>4. PointersOK
  BY <1>1, <1>2 DEF PointersOK, TablesDisjoint
<1>5. CallOK(NoCall)
  <2>1. NoCall \in Call
    <3>1. /\ 0 \in -1..(LastSlot + 1) /\ 0 \in Int /\ 0 \in 0..(MaxCount + Most)
          /\ << >> \in Seq(Numbers)
      BY SlotAssumption, SizeOfPostfixes
    <3>. QED
      BY <3>1 DEF NoCall, Call, Pcs
  <2>. QED
    BY <2>1 DEF CallOK, NoCall, Copying
<1>6. DataOK(NoCall)
  BY DEF DataOK, NoCall, Distinct
<1>7. CallsOK
  BY <1>5, <1>6 DEF Init, CallsOK, CallOK
<1>. QED
  BY <1>3, <1>4, <1>7 DEF IInv

\* What a table holds are postfixes.
LEMMA ContentTyped ==
  ASSUME HeapOK, NEW slot \in Slots
  PROVE  Content(slot) \subseteq Postfixes
<1>1. ptr[slot] # NULL => ptr[slot] \in TableIds
  BY DEF HeapOK
<1>. QED
  BY <1>1 DEF Content, HeapOK

\* An insert changes a live table, or one malloc returns, to which no slot
\* points but one whose delete has freed it.
LEMMA FillOK ==
  ASSUME IInv, NEW slot \in Slots, NEW S \in SUBSET Postfixes, Fill(slot, S)
  PROVE  HeapOK' /\ PointersOK'
<1>1. deletes' = deletes /\ (~torn' => ~torn)
      /\ HeapOK /\ PointersOK /\ locked' = locked /\ robbed' = robbed
  BY DEF Fill, Locks, IInv
<1>2. \A s \in Slots : Dangling(s)' = Dangling(s)
  BY <1>1 DEF Dangling, DeletesIn
<1>3. CASE ptr[slot] = NULL
  <2>1. PICK t \in FreeTables :
          /\ ptr' = [ptr EXCEPT ![slot] = t]
          /\ heap' = [heap EXCEPT ![t] = S]
          /\ allocated' = allocated \cup {t}
    BY <1>3 DEF Fill
  <2>2. t \in TableIds /\ t \notin allocated
    BY DEF FreeTables, Live
  <2>3. HeapOK'
    BY <1>1, <2>1, <2>2 DEF HeapOK
  <2>4. \A s \in Slots : ptr'[s] = IF s = slot THEN t ELSE ptr[s]
    BY <1>1, <2>1 DEF HeapOK
  <2>5. ASSUME ~torn' PROVE \A s \in Slots : ptr'[s] # NULL => ptr'[s] \in allocated' \/ Dangling(s)'
    BY <1>1, <1>2, <2>1, <2>4, <2>5 DEF PointersOK
  <2>6. ASSUME ~torn', NEW s \in Slots, NEW u \in Slots,
               ptr'[s] # NULL, s # u, ptr'[s] = ptr'[u]
        PROVE  Dangling(s)' \/ Dangling(u)'
    <3>1. CASE s # slot /\ u # slot
      BY <1>1, <1>2, <2>4, <2>6, <3>1 DEF PointersOK, TablesDisjoint
    <3>2. CASE s = slot
      BY <1>1, <1>2, <2>2, <2>4, <2>6, <3>2 DEF PointersOK
    <3>3. CASE u = slot
      BY <1>1, <1>2, <2>2, <2>4, <2>6, <3>3 DEF PointersOK
    <3>. QED
      BY <3>1, <3>2, <3>3
  <2>. QED
    BY <2>3, <2>5, <2>6 DEF PointersOK, TablesDisjoint
<1>4. CASE ptr[slot] # NULL
  <2>1. heap' = [heap EXCEPT ![ptr[slot]] = S] /\ ptr' = ptr /\ allocated' = allocated
    BY <1>4 DEF Fill
  <2>2. HeapOK'
    BY <1>1, <2>1 DEF HeapOK
  <2>3. PointersOK'
    BY <1>1, <1>2, <2>1 DEF PointersOK, TablesDisjoint
  <2>. QED
    BY <2>2, <2>3
<1>. QED
  BY <1>3, <1>4

\* An insert, done or not, leaves postfixes in the table.
LEMMA EnterOK ==
  ASSUME IInv, NEW slot \in Slots,
         \/ \E p \in Postfixes : Enter(slot, p) \/ EnterHalf(slot, p)
         \/ EnterRefused(slot)
  PROVE  \E S \in SUBSET Postfixes : Fill(slot, S)
<1>1. Content(slot) \in SUBSET Postfixes
  BY ContentTyped DEF IInv
<1>2. CASE EnterRefused(slot)
  BY <1>1, <1>2 DEF EnterRefused
<1>3. ASSUME NEW p \in Postfixes, Enter(slot, p) PROVE \E S \in SUBSET Postfixes : Fill(slot, S)
  <2>1. Content(slot) \cup {p} \in SUBSET Postfixes
    BY <1>1
  <2>. QED
    BY <1>3, <2>1 DEF Enter
<1>4. ASSUME NEW p \in Postfixes, EnterHalf(slot, p)
      PROVE  \E S \in SUBSET Postfixes : Fill(slot, S)
  <2> DEFINE S == IF p \in Content(slot) THEN Content(slot)
                  ELSE ButGreatest(Content(slot) \cup {p})
  <2>1. S \in SUBSET Postfixes
    BY <1>1 DEF ButGreatest
  <2>2. Fill(slot, S)
    BY <1>4 DEF EnterHalf
  <2>. QED
    BY <2>1, <2>2
<1>. QED
  BY <1>2, <1>3, <1>4

\* A delete that leaves entries moves no pointer.
LEMMA DeleteOK ==
  ASSUME IInv, NEW slot \in Slots, NEW p \in Postfixes, Delete(slot, p)
  PROVE  HeapOK' /\ PointersOK'
<1>1. /\ ptr' = ptr /\ allocated' = allocated /\ deletes' = deletes /\ (~torn' => ~torn)
      /\ HeapOK /\ PointersOK /\ locked' = locked /\ robbed' = robbed
      /\ heap' = [heap EXCEPT ![ptr[slot]] = @ \ {p}]
  BY DEF Delete, Locks, IInv
<1>2. HeapOK'
  BY <1>1 DEF HeapOK
<1>3. \A s \in Slots : Dangling(s)' = Dangling(s)
  BY <1>1 DEF Dangling, DeletesIn
<1>. QED
  BY <1>1, <1>2, <1>3 DEF PointersOK, TablesDisjoint

\* Whose delete is where, when one of them goes on.
LEMMA DeletesChange ==
  ASSUME HeapOK, NEW u \in Updaters, NEW d \in DeleteOf, deletes' = [deletes EXCEPT ![u] = d],
         NEW s \in Slots
  PROVE  /\ deletes' \in [Updaters -> DeleteOf]
         /\ d.at = "freed" /\ d.slot = s => Dangling(s)'
         /\ Dangling(s) => Dangling(s)' \/ (deletes[u].at = "freed" /\ deletes[u].slot = s)
<1>1. deletes \in [Updaters -> DeleteOf]
  BY DEF HeapOK
<1>2. deletes' \in [Updaters -> DeleteOf]
  BY <1>1
<1>3. \A v \in Updaters : deletes'[v] = IF v = u THEN d ELSE deletes[v]
  BY <1>1
<1>. QED
  BY <1>2, <1>3 DEF Dangling, DeletesIn

\* The delete of a last entry frees a table no other slot points to but one
\* whose delete has freed it before.
LEMMA DeleteLastOK ==
  ASSUME IInv, NEW u \in Updaters, deletes[u] = NoDelete,
         NEW slot \in Slots, NEW p \in Postfixes, DeleteLast(u, slot, p)
  PROVE  HeapOK' /\ PointersOK'
<1> DEFINE t == ptr[slot]
           d == [at |-> "freed", slot |-> slot, t |-> t]
<1>1. /\ ptr' = ptr /\ heap' = heap /\ allocated' = allocated \ {t}
      /\ deletes' = [deletes EXCEPT ![u] = d] /\ locked' = locked \cup {slot} /\ robbed' = robbed
      /\ HeapOK /\ PointersOK /\ t # NULL /\ t \in allocated
      /\ (~torn' => ~torn /\ DeletesIn(slot) = {})
  BY DEF DeleteLast, Locks, IInv, Live
<1>2. t \in TableIds
  BY <1>1 DEF HeapOK
<1>3. d \in DeleteOf /\ d.at = "freed" /\ d.slot = slot
  BY <1>2 DEF DeleteOf
<1>4. deletes[u].at # "freed"
  BY DEF NoDelete
<1> HIDE DEF d
<1>5. Dangling(slot)' /\ \A s \in Slots : Dangling(s) => Dangling(s)'
  BY <1>1, <1>3, <1>4, DeletesChange
<1>6. HeapOK'
  <2>1. deletes' \in [Updaters -> DeleteOf]
    BY <1>1, <1>3, DeletesChange
  <2>. QED
    BY <1>1, <2>1 DEF HeapOK
<1>7. ASSUME ~torn', NEW s \in Slots, ptr'[s] # NULL PROVE ptr'[s] \in allocated' \/ Dangling(s)'
  <2>1. CASE ptr[s] = t /\ s # slot
    <3>1. ~Dangling(slot)
      BY <1>1, <1>7 DEF Dangling
    <3>. QED
      BY <1>1, <1>5, <1>7, <2>1, <3>1 DEF PointersOK, TablesDisjoint
  <2>2. CASE ptr[s] # t
    BY <1>1, <1>5, <1>7, <2>2 DEF PointersOK
  <2>. QED
    BY <1>5, <2>1, <2>2
<1>. QED
  BY <1>1, <1>5, <1>6, <1>7 DEF PointersOK, TablesDisjoint

\* No pointer is left to the table that was freed.
LEMMA ClearPointerOK ==
  ASSUME IInv, NEW u \in Updaters, ClearPointer(u)
  PROVE  HeapOK' /\ PointersOK'
<1> DEFINE slot == deletes[u].slot
           d == [deletes[u] EXCEPT !.at = "cleared"]
<1>1. /\ ptr' = [ptr EXCEPT ![slot] = NULL] /\ heap' = heap /\ allocated' = allocated
      /\ deletes' = [deletes EXCEPT ![u] = d] /\ locked' = locked /\ robbed' = robbed
      /\ HeapOK /\ PointersOK /\ torn' = torn
  BY DEF ClearPointer, IInv, history
<1>2. deletes[u] \in DeleteOf
  BY <1>1 DEF HeapOK
<1>3. d \in DeleteOf /\ slot \in Slots
  BY <1>2 DEF DeleteOf
<1> HIDE DEF d
<1>4. \A s \in Slots : Dangling(s) => Dangling(s)' \/ s = slot
  BY <1>1, <1>3, DeletesChange
<1>5. \A s \in Slots : ptr'[s] = IF s = slot THEN NULL ELSE ptr[s]
  BY <1>1 DEF HeapOK
<1>6. HeapOK'
  <2>1. deletes' \in [Updaters -> DeleteOf]
    BY <1>1, <1>3, DeletesChange
  <2>. QED
    BY <1>1, <2>1 DEF HeapOK
<1>. QED
  BY <1>1, <1>4, <1>5, <1>6 DEF PointersOK, TablesDisjoint

\* The late write to a freed table empties one table and moves no pointer.
LEMMA WipeOK ==
  ASSUME IInv, NEW u \in Updaters, Wipe(u)
  PROVE  HeapOK' /\ PointersOK'
<1> DEFINE t == deletes[u].t
<1>1. /\ ptr' = ptr /\ heap' = [heap EXCEPT ![t] = {}] /\ allocated' = allocated
      /\ deletes' = [deletes EXCEPT ![u] = NoDelete] /\ locked' = locked \ {deletes[u].slot}
      /\ robbed' = robbed /\ HeapOK /\ PointersOK /\ torn' = torn /\ deletes[u].at = "cleared"
  BY DEF Wipe, IInv, history
<1>2. NoDelete \in DeleteOf
  BY SlotAssumption DEF NoDelete, DeleteOf, Slots, TableIds
<1>3. \A s \in Slots : Dangling(s) => Dangling(s)'
  BY <1>1, <1>2, DeletesChange
<1>4. HeapOK'
  <2>0. 0 \in Slots
    BY SlotAssumption DEF Slots
  <2>1. deletes' \in [Updaters -> DeleteOf]
    BY <1>1, <1>2, <2>0, DeletesChange
  <2>. QED
    BY <1>1, <2>1 DEF HeapOK
<1>. QED
  BY <1>1, <1>3, <1>4 DEF PointersOK, TablesDisjoint

\* What ends the server changes nothing else.
LEMMA FailOK ==
  ASSUME IInv, NEW what, Fail(what)
  PROVE  IInv'
<1>1. /\ ptr' = ptr /\ heap' = heap /\ allocated' = allocated /\ deletes' = deletes
      /\ locked' = locked /\ robbed' = robbed /\ torn' = torn /\ call' = call
  BY DEF Fail, index, history
<1>2. HeapOK' /\ CallsOK'
  BY <1>1 DEF IInv, HeapOK, CallsOK, CallOK, DataOK, Distinct
<1>3. PointersOK'
  BY <1>1 DEF IInv, PointersOK, TablesDisjoint, Dangling, DeletesIn
<1>. QED
  BY <1>2, <1>3 DEF IInv

\* What an updater does keeps the types, and the tables apart.
LEMMA UpdateOK ==
  ASSUME IInv, NEW u \in Updaters, Update(u)
  PROVE  IInv'
<1>1. ASSUME call' = call, HeapOK', PointersOK' PROVE IInv'
  BY <1>1 DEF IInv, CallsOK, CallOK, DataOK, Distinct
<1>2. ASSUME NEW slot \in Slots,
             \/ \E p \in Postfixes : Enter(slot, p) \/ EnterHalf(slot, p)
             \/ EnterRefused(slot)
      PROVE  IInv'
  <2>1. PICK S \in SUBSET Postfixes : Fill(slot, S)
    BY <1>2, EnterOK
  <2>2. call' = call
    BY <2>1 DEF Fill
  <2>. QED
    BY <1>1, <2>1, <2>2, FillOK
<1>3. ASSUME NEW slot \in Slots, NEW p \in Postfixes, Delete(slot, p) PROVE IInv'
  <2>1. call' = call
    BY <1>3 DEF Delete
  <2>. QED
    BY <1>1, <1>3, <2>1, DeleteOK
<1>4. ASSUME NEW slot \in Slots, NEW p \in Postfixes, deletes[u] = NoDelete, DeleteLast(u, slot, p)
      PROVE  IInv'
  <2>1. call' = call
    BY <1>4 DEF DeleteLast
  <2>. QED
    BY <1>1, <1>4, <2>1, DeleteLastOK
<1>5. ASSUME NEW slot \in Slots, UseFreed(slot) PROVE IInv'
  BY <1>5, FailOK DEF UseFreed
<1>6. ASSUME ClearPointer(u) PROVE IInv'
  <2>1. call' = call
    BY <1>6 DEF ClearPointer
  <2>. QED
    BY <1>1, <1>6, <2>1, ClearPointerOK
<1>7. ASSUME Wipe(u) PROVE IInv'
  <2>1. call' = call
    BY <1>7 DEF Wipe
  <2>. QED
    BY <1>1, <1>7, <2>1, WipeOK
<1>. QED
  BY <1>2, <1>3, <1>4, <1>5, <1>6, <1>7 DEF Update

-----------------------------------------------------------------------------
\* The steps of a call.

\* A step of a call changes the call and the locks only: it is enough that
\* what the call becomes has the invariant.
LEMMA MoveOK ==
  ASSUME IInv, NEW r \in Readers, NEW c, CallOK(c), DataOK(c), NEW take \in SUBSET Slots, NEW release,
         Continue(r, c, take, release)
  PROVE  IInv'
<1>0. /\ ptr' = ptr /\ heap' = heap /\ allocated' = allocated /\ deletes' = deletes
      /\ robbed' = robbed /\ torn' = torn /\ locked' = (locked \cup take) \ release
  BY DEF Continue, index, history
<1>1. HeapOK'
  BY <1>0 DEF IInv, HeapOK
<1>2. PointersOK'
  BY <1>0 DEF IInv, PointersOK, TablesDisjoint, Dangling, DeletesIn
<1>3. c \in Call
  BY DEF CallOK
<1>4. call' = [call EXCEPT ![r] = c] /\ call \in [Readers -> Call]
      /\ \A q \in Readers : CallOK(call[q]) /\ DataOK(call[q])
  BY DEF IInv, CallsOK, Continue
<1>5. call' \in [Readers -> Call] /\ \A q \in Readers : call'[q] = IF q = r THEN c ELSE call[q]
  BY <1>3, <1>4
<1>6. \A q \in Readers : CallOK(call'[q]) /\ DataOK(call'[q])
  BY <1>4, <1>5
<1>7. CallsOK'
  BY <1>5, <1>6 DEF CallsOK, CallOK, DataOK, Distinct
<1>. QED
  BY <1>1, <1>2, <1>7 DEF IInv

\* What is known of a call that is not idle.
LEMMA CallTyped ==
  ASSUME IInv, NEW r \in Readers
  PROVE  LET c == call[r] IN
         /\ CallOK(c) /\ DataOK(c) /\ c \in Call
         /\ c.cur \in -1..(LastSlot + 1) /\ c.pos \in Int
         /\ c.before \in 0..(MaxCount + Most) /\ c.after \in 0..(MaxCount + Most)
         /\ c.data \in Seq(Numbers) /\ c.t \in TableIds \cup {NULL}
BY DEF IInv, CallsOK, CallOK, Call

\* An idle reader is in no call.
LEMMA NoCallOK == CallOK(NoCall) /\ DataOK(NoCall)
<1>1. NoCall \in Call
  <2>1. /\ 0 \in -1..(LastSlot + 1) /\ 0 \in Int /\ 0 \in 0..(MaxCount + Most)
        /\ << >> \in Seq(Numbers)
    BY SlotAssumption, SizeOfPostfixes
  <2>. QED
    BY <2>1 DEF NoCall, Call, Pcs
<1>2. CallOK(NoCall)
  BY <1>1 DEF CallOK, NoCall, Copying
<1>3. DataOK(NoCall)
  BY DEF DataOK, NoCall, Distinct
<1>. QED
  BY <1>2, <1>3

\* A call starts with its counts as asked for and its data empty.
LEMMA BeginOK ==
  ASSUME IInv, NEW r \in Readers, NEW req \in Requests, Begin(r, req)
  PROVE  IInv'
<1> DEFINE c == [NoCall EXCEPT !.pc = "search",
                    !.nbr = <<req.slot, req.postfix>>,
                    !.asked = <<req.before, req.after>>,
                    !.before = req.before, !.after = req.after,
                    !.cur = req.slot, !.t = ptr[req.slot]]
<1>1. Continue(r, c, {}, {}) /\ req.postfix \in Postfixes
  BY DEF Begin
<1>2. /\ req.slot \in Slots /\ req.before \in 1..MaxCount /\ req.after \in 1..MaxCount
      /\ ptr[req.slot] \in TableIds \cup {NULL}
  BY DEF Requests, IInv, HeapOK
<1>3. CallOK(c)
  <2>1. /\ req.slot \in -1..(LastSlot + 1) /\ req.slot \in 0..LastSlot
        /\ req.before \in 0..(MaxCount + Most) /\ req.after \in 0..(MaxCount + Most)
    BY <1>2, SlotAssumption, SizeOfPostfixes DEF Slots
  <2>2. NoCall \in Call /\ <<req.slot, req.postfix>> \in Numbers
        /\ <<req.before, req.after>> \in (1..MaxCount) \X (1..MaxCount)
    BY <1>1, <1>2, NoCallOK DEF CallOK, Numbers
  <2>3. c \in Call
    BY <1>2, <2>1, <2>2 DEF Call, Pcs
  <2>4. /\ c.pc = "search" /\ c.nbr = <<req.slot, req.postfix>>
        /\ c.asked = <<req.before, req.after>> /\ c.cur = req.slot
        /\ c.before = req.before /\ c.after = req.after
    BY DEF NoCall
  <2>. HIDE DEF c
  <2>. QED
    BY <2>1, <2>2, <2>3, <2>4 DEF CallOK, Copying
<1>4. DataOK(c)
  <2>1. c.pc = "search" /\ c.data = << >> /\ c.asked = <<req.before, req.after>>
    BY DEF NoCall
  <2>. HIDE DEF c
  <2>2. req.before \in Nat /\ req.after \in Nat
    BY <1>2
  <2>. QED
    BY <2>1, <2>2 DEF DataOK, Distinct
<1>. HIDE DEF c
<1>. QED
  BY <1>1, <1>3, <1>4, MoveOK

\* A call that is refused never starts.
LEMMA BeginRefusedOK ==
  ASSUME IInv, NEW r \in Readers, NEW req \in Requests, BeginRefused(r, req)
  PROVE  IInv'
<1>1. /\ ptr' = ptr /\ heap' = heap /\ allocated' = allocated /\ deletes' = deletes
      /\ torn' = torn /\ call' = call /\ req.slot \in Slots
      /\ locked' = locked \ {req.slot} /\ robbed' = robbed \cup ({req.slot} \cap locked)
  BY DEF BeginRefused, index, Requests
<1>2. HeapOK' /\ CallsOK'
  BY <1>1 DEF IInv, HeapOK, CallsOK, CallOK, DataOK, Distinct
<1>3. PointersOK'
  BY <1>1 DEF IInv, PointersOK, TablesDisjoint, Dangling, DeletesIn
<1>. QED
  BY <1>2, <1>3 DEF IInv

\* A start found in the table that was peeked at is an index below the size
\* of a table, whatever table this is by now.
LEMMA SearchOK ==
  ASSUME IInv, NEW r \in Readers, Search(r)
  PROVE  IInv'
<1> DEFINE c == call[r]
           p == c.nbr[2]
<1>1. /\ CallOK(c) /\ DataOK(c) /\ c \in Call /\ c.cur \in Slots /\ c.pc = "search"
      /\ c.nbr \in Numbers /\ c.asked # << >>
  <2>1. CallOK(c) /\ DataOK(c) /\ c \in Call /\ c.cur \in -1..(LastSlot + 1) /\ c.pc = "search"
    BY CallTyped DEF Search
  <2>. HIDE DEF c
  <2>2. c.cur >= 0 /\ c.cur <= LastSlot /\ c.nbr \in Numbers /\ c.asked # << >>
    BY <2>1 DEF CallOK
  <2>. QED
    BY <2>1, <2>2, SlotAssumption DEF Slots
<1>2. CASE Fail("null table searched") \/ Fail("freed table used")
  BY <1>2, FailOK
<1>3. CASE /\ c.t # NULL /\ Live(c.t) /\ p \in heap[c.t]
           /\ Continue(r, [c EXCEPT !.pc = "copy", !.start = <<c.cur, Below(c.t, p)>>],
                       {c.cur}, {})
  <2> DEFINE e == Below(c.t, p)
             d == [c EXCEPT !.pc = "copy", !.start = <<c.cur, e>>]
  <2>1. c.t \in TableIds
    BY <1>1, <1>3 DEF Call
  <2>2. e \in 0..(Most - 1)
    <3>1. /\ Len(Entries(c.t)) \in 0..Most
          /\ \E i \in 1..Len(Entries(c.t)) : e = i - 1
      BY <1>3, <2>1, EntriesSorted DEF IInv
    <3>. HIDE DEF e, c, p
    <3>. QED
      BY <3>1, SizeOfPostfixes
  <2>3. <<c.cur, e>> \in Slots \X (0..(Most - 1)) /\ <<c.cur, e>> \in Slots \X Nat
    <3>. HIDE DEF c, e
    <3>. QED
      BY <1>1, <2>2, SizeOfPostfixes
  <2>4. d \in Call /\ d.pc = "copy" /\ d.start = <<c.cur, e>> /\ d.nbr = c.nbr
        /\ d.asked = c.asked /\ d.data = c.data /\ d.before = c.before /\ d.after = c.after
    <3>. HIDE DEF c, e
    <3>. QED
      BY <1>1, <2>3 DEF Call, Pcs
  <2>5. CallOK(d)
    <3>. HIDE DEF c, d, e
    <3>. QED
      BY <1>1, <2>3, <2>4 DEF CallOK, Copying
  <2>6. DataOK(d)
    <3>. HIDE DEF c, d, e
    <3>. QED
      BY <1>1, <2>4 DEF DataOK
  <2>. QED
    <3>. HIDE DEF c, d, e
    <3>1. {c.cur} \in SUBSET Slots
      BY <1>1
    <3>2. Continue(r, d, {c.cur}, {})
      BY <1>3 DEF d, e, c, p
    <3>. QED
      BY <2>5, <2>6, <3>1, <3>2, MoveOK
<1>4. CASE Continue(r, [c EXCEPT !.pc = "nearest", !.pos = Below(c.t, p)], {}, {})
           /\ c.t # NULL
  <2> DEFINE e == Below(c.t, p)
             d == [c EXCEPT !.pc = "nearest", !.pos = e]
  <2>1. e \in Int
    <3>1. heap[c.t] \subseteq Postfixes
      BY <1>1, <1>4 DEF Call, IInv, HeapOK
    <3>2. e = Cardinality({q \in heap[c.t] : q < p})
      BY DEF Below
    <3>. HIDE DEF c, e, p
    <3>3. {q \in heap[c.t] : q < p} \subseteq Postfixes
      BY <3>1
    <3>. QED
      BY <3>2, <3>3, PostfixesBounded, SizeOfPostfixes
  <2>2. d \in Call /\ d.pc = "nearest" /\ d.nbr = c.nbr /\ d.asked = c.asked /\ d.cur = c.cur
        /\ d.data = c.data /\ d.before = c.before /\ d.after = c.after
    <3>. HIDE DEF c, e
    <3>. QED
      BY <1>1, <2>1 DEF Call, Pcs
  <2>3. CallOK(d)
    <3>. HIDE DEF c, d, e
    <3>. QED
      BY <1>1, <2>2, SlotAssumption DEF CallOK, Copying, Slots
  <2>4. DataOK(d)
    <3>. HIDE DEF c, d, e
    <3>. QED
      BY <1>1, <2>2 DEF DataOK
  <2>. QED
    <3>. HIDE DEF c, d, e
    <3>2. Continue(r, d, {}, {})
      BY <1>4 DEF d, e, c, p
    <3>. QED
      BY <2>3, <2>4, <3>2, MoveOK
<1>. QED
  BY <1>2, <1>3, <1>4 DEF Search

\* The data, and behind them k entries of the slot's table from index a + 1.
Extended(slot, data, res, a, k) ==
  /\ Len(res) = Len(data) + k
  /\ \A i \in 1..Len(data) : res[i] = data[i]
  /\ \A i \in 1..k : /\ a + i \in 1..Len(Table(slot))
                     /\ res[Len(data) + i] = <<slot, Table(slot)[a + i]>>

(***************************************************************************)
(* copy_table_data appends entries of the table one after the other, from  *)
(* the first one asked for that exists, as many as there is room for.      *)
(***************************************************************************)
Appends(c, slot, from, to, data, res) ==
  LET len  == Len(Table(slot))
      a    == Lesser(from, len - 1)
      b    == Lesser(to, len - 1)
      room == c.asked[1] + c.asked[2] + 1 - Len(data)
  IN  /\ a \in Nat /\ b \in Nat /\ a <= b /\ b < len
      /\ \E k \in Nat : /\ a + k <= b + 1
                        /\ k = 0 \/ k <= room
                        /\ b - a + 1 <= room => k = b - a + 1
                        /\ Extended(slot, data, res, a, k)

\* copy_table_data leaves the data alone, or appends numbers of the slot.
LEMMA CopiedIs ==
  ASSUME HeapOK, NEW c \in Call, c.asked # << >>, NEW slot \in Slots,
         NEW from \in Nat, NEW to \in Int, NEW data \in Seq(Numbers)
  PROVE  /\ Copied(c, slot, from, to, data) \in Seq(Numbers)
         /\ IF from > to \/ Table(slot) = << >>
            THEN Copied(c, slot, from, to, data) = data
            ELSE Appends(c, slot, from, to, data, Copied(c, slot, from, to, data))
<1> DEFINE ents == Table(slot)
           last == Len(ents) - 1
           a    == Lesser(from, last)
           b    == Lesser(to, last)
           room == c.asked[1] + c.asked[2] + 1 - Len(data)
           res  == Copied(c, slot, from, to, data)
           part == SubSeq(ents, a + 1, b + 1)
           m    == Lesser(Len(part), room)
           nbrs == [i \in 1..m |-> <<slot, part[i]>>]
<1>1. ents \in Seq(Postfixes) /\ Len(ents) \in Nat
  BY TableSorted
<1>2. room \in Int
  <2>1. c.asked \in (1..MaxCount) \X (1..MaxCount)
    BY DEF Call
  <2>2. c.asked[1] \in Int /\ c.asked[2] \in Int
    BY <2>1
  <2>. QED
    BY <2>2
<1>3. CASE from > to \/ ents = << >>
  BY <1>3 DEF Copied
<1>4. CASE ~(from > to \/ ents = << >>)
  <2>1. res = data \o nbrs
    BY <1>4 DEF Copied
  <2>2. Len(ents) \in Nat \ {0}
    <3>. HIDE DEF ents
    <3>. QED
      BY <1>1, <1>4
  <2>3. a \in Nat /\ b \in Nat /\ a <= b /\ b < Len(ents)
    <3>. HIDE DEF ents
    <3>. QED
      BY <1>4, <2>2 DEF Lesser
  <2>4. Len(part) = b - a + 1 /\ \A i \in 1..(b - a + 1) : part[i] = ents[a + i]
    <3>. HIDE DEF ents, a, b
    <3>1. a + 1 \in 1..(Len(ents) + 1) /\ b + 1 \in a..Len(ents)
      BY <2>2, <2>3
    <3>2. Len(SubSeq(ents, a + 1, b + 1)) = b - a + 1
      BY <1>1, <2>3, <3>1
    <3>3. \A i \in 1..(b - a + 1) : SubSeq(ents, a + 1, b + 1)[i] = ents[a + i]
      BY <1>1, <2>3, <3>1
    <3>. QED
      BY <3>2, <3>3
  <2> DEFINE k == IF m > 0 THEN m ELSE 0
  <2>5. /\ m \in Int /\ k \in Nat /\ k <= b - a + 1 /\ (k = 0 \/ k <= room)
        /\ (b - a + 1 <= room => k = b - a + 1)
        /\ 1..m = 1..k
    <3>. HIDE DEF ents, a, b, part, room
    <3>1. Len(part) \in Nat /\ Len(part) = b - a + 1 /\ b - a + 1 > 0
      BY <2>3, <2>4
    <3>2. m = IF Len(part) < room THEN Len(part) ELSE room
      BY DEF Lesser
    <3>. HIDE DEF m
    <3>. QED
      BY <1>2, <3>1, <3>2
  <2>6. nbrs \in Seq(Numbers) /\ Len(nbrs) = k /\ \A i \in 1..k : nbrs[i] = <<slot, ents[a + i]>>
    <3>1. nbrs = [i \in 1..k |-> <<slot, part[i]>>]
      BY <2>5
    <3>2. \A i \in 1..k : i \in 1..(b - a + 1) /\ a + i \in 1..Len(ents)
      <4>. HIDE DEF ents, a, b, k, m
      <4>. QED
        BY <2>3, <2>5
    <3>. HIDE DEF ents, a, b, k, m, part, nbrs
    <3>3. \A i \in 1..k : <<slot, part[i]>> = <<slot, ents[a + i]>> /\ <<slot, ents[a + i]>> \in Numbers
      BY <1>1, <2>4, <3>2 DEF Numbers
    <3>4. nbrs \in [1..k -> Numbers]
      BY <3>1, <3>3
    <3>5. nbrs \in Seq(Numbers) /\ Len(nbrs) = k
      BY <2>5, <3>4
    <3>6. \A i \in 1..k : nbrs[i] = <<slot, ents[a + i]>>
      BY <3>1, <3>3
    <3>. QED
      BY <3>5, <3>6
  <2>7. \A i \in 1..k : a + i \in 1..Len(ents)
    <3>. HIDE DEF ents, a, b, k, m
    <3>. QED
      BY <2>3, <2>5
  <2>8. /\ res \in Seq(Numbers) /\ Len(res) = Len(data) + k
        /\ \A i \in 1..Len(data) : res[i] = data[i]
        /\ \A i \in 1..k : res[Len(data) + i] = <<slot, ents[a + i]>>
    <3>. HIDE DEF ents, a, b, k, m, nbrs, res, part
    <3>1. Len(data) \in Nat
      OBVIOUS
    <3>2. \A i \in 1..Len(data) : (data \o nbrs)[i] = data[i]
      BY <2>6
    <3>3. \A i \in 1..k : (data \o nbrs)[Len(data) + i] = nbrs[i]
      BY <2>5, <2>6, <3>1
    <3>4. data \o nbrs \in Seq(Numbers) /\ Len(data \o nbrs) = Len(data) + k
      BY <2>5, <2>6, ConcatProperties
    <3>5. \A i \in 1..k : (data \o nbrs)[Len(data) + i] = <<slot, ents[a + i]>>
      BY <2>6, <3>3
    <3>. QED
      BY <2>1, <3>2, <3>4, <3>5
  <2>9. a + k <= b + 1
    <3>. HIDE DEF ents, a, b, k, m
    <3>. QED
      BY <2>3, <2>5
  <2>. HIDE DEF ents, a, b, k, m, part, nbrs, res, room, last
  <2>10. Extended(slot, data, res, a, k)
    BY <2>7, <2>8 DEF Extended, ents
  <2>11. Appends(c, slot, from, to, data, res)
    BY <2>3, <2>5, <2>9, <2>10 DEF Appends, ents, a, b, room, last
  <2>. QED
    BY <1>4, <2>8, <2>11 DEF ents, res
<1>. QED
  BY <1>3, <1>4

\* What copy_table_data does to numbers that are all different: entries of a
\* slot that has given only smaller ones so far keep them so.
LEMMA AppendedOK ==
  ASSUME HeapOK, NEW c \in Call, c.asked # << >>, NEW slot \in Slots,
         NEW from \in Nat, NEW to \in Int, NEW data \in Seq(Numbers),
         Distinct(data), Len(data) <= c.asked[1] + c.asked[2] + 1,
         from <= to =>
           \A i \in 1..Len(data) : data[i][1] = slot =>
             from < Len(Table(slot)) /\ data[i][2] < Table(slot)[from + 1]
  PROVE  LET res == Copied(c, slot, from, to, data)
         IN  /\ res \in Seq(Numbers) /\ Distinct(res)
             /\ Len(res) <= c.asked[1] + c.asked[2] + 1
             /\ \A i \in 1..Len(res) :
                  \/ \E j \in 1..Len(data) : res[i] = data[j]
                  \/ \E j \in 1..Len(Table(slot)) :
                       j <= to + 1 /\ res[i] = <<slot, Table(slot)[j]>>
<1> DEFINE ents == Table(slot)
           a    == Lesser(from, Len(ents) - 1)
           b    == Lesser(to, Len(ents) - 1)
           room == c.asked[1] + c.asked[2] + 1 - Len(data)
           most == c.asked[1] + c.asked[2] + 1
           res  == Copied(c, slot, from, to, data)
<1>1. res \in Seq(Numbers) /\ (from > to \/ ents = << >> => res = data)
  BY CopiedIs
<1>2. CASE from > to \/ ents = << >>
  BY <1>1, <1>2
<1>3. CASE ~(from > to \/ ents = << >>)
  <2>1. Appends(c, slot, from, to, data, res)
    BY <1>3, CopiedIs
  <2>2. /\ a \in Nat /\ b \in Nat /\ a <= b /\ b < Len(ents)
         /\ \E k \in Nat : /\ a + k <= b + 1
                           /\ k = 0 \/ k <= room
                           /\ Extended(slot, data, res, a, k)
    <3>. HIDE DEF res
    <3>. QED
      BY <2>1 DEF Appends
  <2>3. PICK k \in Nat : /\ a + k <= b + 1
                         /\ k = 0 \/ k <= room
                         /\ Extended(slot, data, res, a, k)
    BY <2>2
  <2>4. /\ k \in Nat /\ a + k <= b + 1 /\ (k = 0 \/ k <= room)
        /\ Len(res) = Len(data) + k
        /\ \A i \in 1..Len(data) : res[i] = data[i]
        /\ \A i \in 1..k : /\ a + i \in 1..Len(ents)
                           /\ res[Len(data) + i] = <<slot, ents[a + i]>>
    <3>. HIDE DEF res, a, b, room
    <3>. QED
      BY <2>3 DEF Extended
  <2>5. /\ ents \in Seq(Postfixes) /\ Len(ents) \in Nat /\ Len(data) \in Nat
        /\ \A i, j \in 1..Len(ents) : i < j => ents[i] < ents[j]
        /\ \A i \in 1..Len(ents) : ents[i] \in Int
    <3>1. ents \in Seq(Postfixes) /\ \A i, j \in 1..Len(ents) : i < j => ents[i] < ents[j]
      BY TableSorted
    <3>. HIDE DEF ents
    <3>2. Len(ents) \in Nat /\ \A i \in 1..Len(ents) : ents[i] \in Postfixes
      BY <3>1
    <3>3. Len(data) \in Nat
      OBVIOUS
    <3>. QED
      BY <3>1, <3>2, <3>3, RankAssumption
  <2>6. most \in Int
    <3>1. c.asked \in (1..MaxCount) \X (1..MaxCount)
      BY DEF Call
    <3>2. c.asked[1] \in Int /\ c.asked[2] \in Int
      BY <3>1
    <3>. QED
      BY <3>2
  <2>7. from <= to
    BY <1>3
  <2>8. \A i \in 1..Len(data) : data[i][1] = slot =>
          from < Len(ents) /\ data[i][2] < ents[from + 1] /\ data[i][2] \in Int
    <3>1. \A i \in 1..Len(data) : data[i] \in Numbers
      OBVIOUS
    <3>2. \A n \in Numbers : n[2] \in Int
      BY RankAssumption DEF Numbers
    <3>. QED
      BY <2>7, <3>1, <3>2
  <2>9. from < Len(ents) => a = from
    <3>. HIDE DEF ents
    <3>. QED
      BY <2>5 DEF Lesser
  <2>10. Len(res) <= most
    <3>1. room = most - Len(data)
      <4>1. c.asked \in (1..MaxCount) \X (1..MaxCount)
        BY DEF Call
      <4>2. c.asked[1] \in Int /\ c.asked[2] \in Int
        BY <4>1
      <4>. QED
        BY <2>5, <4>2
    <3>2. Len(data) <= most
      OBVIOUS
    <3>. HIDE DEF ents, a, b, room, res, most
    <3>. QED
      BY <2>4, <2>5, <2>6, <3>1, <3>2
  <2>11. ASSUME NEW i \in 1..Len(res)
        PROVE  \/ i \in 1..Len(data)
               \/ i - Len(data) \in 1..k /\ i = Len(data) + (i - Len(data))
    <3>. HIDE DEF ents, a, b, room, res, most
    <3>. QED
      BY <2>4, <2>5
  <2>12. ASSUME NEW i \in 1..Len(data), NEW j \in 1..k PROVE data[i] # <<slot, ents[a + j]>>
    <3>1. SUFFICES ASSUME data[i] = <<slot, ents[a + j]>> PROVE FALSE
      OBVIOUS
    <3>2. data[i][1] = slot /\ data[i][2] = ents[a + j]
      BY <3>1
    <3>. HIDE DEF ents, a, b, room, res, most
    <3>3. from < Len(ents) /\ ents[a + j] < ents[from + 1] /\ a = from
      BY <2>8, <2>9, <3>2
    <3>4. a + j \in 1..Len(ents) /\ from + 1 \in 1..Len(ents)
      BY <2>2, <2>4, <2>5, <3>3
    <3>5. from + 1 < a + j \/ from + 1 = a + j
      BY <2>2, <3>3
    <3>6. ents[a + j] \in Int /\ ents[from + 1] \in Int
      BY <2>5, <3>4
    <3>. QED
      BY <2>5, <3>3, <3>4, <3>5, <3>6
  <2>13. ASSUME NEW i \in 1..k, NEW j \in 1..k, i # j
         PROVE  <<slot, ents[a + i]>> # <<slot, ents[a + j]>>
    <3>. HIDE DEF ents, a, b, room, res, most
    <3>1. a + i \in 1..Len(ents) /\ a + j \in 1..Len(ents) /\ (a + i < a + j \/ a + j < a + i)
      BY <2>2, <2>4, <2>13
    <3>2. ents[a + i] # ents[a + j]
      BY <2>5, <3>1
    <3>. QED
      BY <3>2
  <2>14. Distinct(res)
    <3>. HIDE DEF ents, a, b, room, res, most
    <3>1. SUFFICES ASSUME NEW i \in 1..Len(res), NEW j \in 1..Len(res), i # j
                   PROVE  res[i] # res[j]
      BY DEF Distinct
    <3>2. CASE i \in 1..Len(data) /\ j \in 1..Len(data)
      BY <2>4, <3>1, <3>2 DEF Distinct
    <3>3. CASE i \in 1..Len(data) /\ j - Len(data) \in 1..k /\ j = Len(data) + (j - Len(data))
      BY <2>4, <2>12, <3>3
    <3>4. CASE j \in 1..Len(data) /\ i - Len(data) \in 1..k /\ i = Len(data) + (i - Len(data))
      BY <2>4, <2>12, <3>4
    <3>5. CASE /\ i - Len(data) \in 1..k /\ i = Len(data) + (i - Len(data))
               /\ j - Len(data) \in 1..k /\ j = Len(data) + (j - Len(data))
      <4>1. i - Len(data) # j - Len(data)
        BY <2>5, <3>1
      <4>2. /\ res[i] = <<slot, ents[a + (i - Len(data))]>>
            /\ res[j] = <<slot, ents[a + (j - Len(data))]>>
        BY <2>4, <3>5
      <4>. QED
        BY <2>13, <3>5, <4>1, <4>2
    <3>. QED
      BY <2>11, <3>2, <3>3, <3>4, <3>5
  <2>15. ASSUME NEW i \in 1..Len(res)
         PROVE  \/ \E j \in 1..Len(data) : res[i] = data[j]
                \/ \E j \in 1..Len(ents) : j <= to + 1 /\ res[i] = <<slot, ents[j]>>
    <3>1. CASE i \in 1..Len(data)
      BY <2>4, <3>1
    <3>2. CASE i - Len(data) \in 1..k /\ i = Len(data) + (i - Len(data))
      <4> DEFINE j == a + (i - Len(data))
      <4>0. b <= to
        <5>. HIDE DEF ents
        <5>. QED
          BY <2>5 DEF Lesser
      <4>. HIDE DEF ents, a, b, room, res, most
      <4>1. j \in 1..Len(ents) /\ res[i] = <<slot, ents[j]>>
        BY <2>4, <3>2
      <4>2. j <= to + 1
        BY <2>2, <2>4, <3>2, <4>0
      <4>. QED
        BY <4>1, <4>2
    <3>. QED
      BY <2>11, <3>1, <3>2
  <2>. HIDE DEF ents, res
  <2>. QED
    BY <1>1, <2>10, <2>14, <2>15 DEF ents, res
<1>. QED
  BY <1>2, <1>3

\* The types of what a call reads and writes, away from the record.
LEMMA AskedTyped ==
  ASSUME NEW c \in Call, c.asked # << >>
  PROVE  c.asked[1] \in 1..MaxCount /\ c.asked[2] \in 1..MaxCount
         /\ c.asked[1] \in Nat /\ c.asked[2] \in Nat
<1>1. c.asked \in (1..MaxCount) \X (1..MaxCount)
  BY DEF Call
<1>. QED
  BY <1>1, SlotAssumption

\* A start found by find_nearest_entry is in the table of its slot.
LEMMA NearestOK ==
  ASSUME IInv, NEW r \in Readers, Nearest(r)
  PROVE  IInv'
<1> DEFINE c == call[r]
           len == Len(Table(c.cur))
           e == NearestInTable(len, c.pos)
<1>1. /\ CallOK(c) /\ DataOK(c) /\ c \in Call /\ c.pos \in Int /\ c.pc = "nearest"
      /\ c.nbr \in Numbers /\ c.asked # << >>
  BY CallTyped DEF Nearest, CallOK
<1>2. CASE \/ Fail("slot past the index") \/ Fail("null table read")
          \/ Fail("freed table used")
  BY <1>2, FailOK
<1>3. CASE /\ c.cur \in Slots /\ e >= 0
           /\ Continue(r, [c EXCEPT !.pc = "copy", !.start = <<c.cur, e>>], {c.cur}, {})
  <2> DEFINE d == [c EXCEPT !.pc = "copy", !.start = <<c.cur, e>>]
  <2>1. len \in 0..Most
    BY <1>3, TableSorted DEF IInv
  <2>2. e \in 0..(Most - 1)
    <3>. HIDE DEF c, len
    <3>. QED
      BY <1>1, <1>3, <2>1, SizeOfPostfixes DEF NearestInTable
  <2>. HIDE DEF e, len
  <2>3. <<c.cur, e>> \in Slots \X (0..(Most - 1)) /\ <<c.cur, e>> \in Slots \X Nat
    <3>. HIDE DEF c
    <3>. QED
      BY <1>3, <2>2, SizeOfPostfixes
  <2>4. d \in Call /\ d.pc = "copy" /\ d.start = <<c.cur, e>> /\ d.nbr = c.nbr
        /\ d.asked = c.asked /\ d.data = c.data /\ d.before = c.before /\ d.after = c.after
    <3>. HIDE DEF c
    <3>. QED
      BY <1>1, <2>3 DEF Call, Pcs
  <2>. HIDE DEF c, d
  <2>5. CallOK(d)
    BY <1>1, <2>3, <2>4 DEF CallOK, Copying
  <2>6. DataOK(d)
    BY <1>1, <2>4 DEF DataOK
  <2>7. Continue(r, d, {c.cur}, {}) /\ {c.cur} \in SUBSET Slots
    BY <1>3 DEF d, c, e, len
  <2>. QED
    BY <2>5, <2>6, <2>7, MoveOK
<1>4. CASE /\ c.cur \in Slots
           /\ Continue(r, [c EXCEPT !.cur = @ + 1, !.pos = -1], {}, {})
  <2> DEFINE n == c.cur + 1
             m == -1
             d == [c EXCEPT !.cur = n, !.pos = m]
  <2>1. n \in 0..(LastSlot + 1) /\ n \in -1..(LastSlot + 1)
    <3>. HIDE DEF c
    <3>. QED
      BY <1>4, SlotAssumption DEF Slots
  <2>2. Continue(r, d, {}, {})
    BY <1>4
  <2>. m \in Int
    OBVIOUS
  <2>. HIDE DEF n, m
  <2>3. d \in Call /\ d.pc = c.pc /\ d.cur = n /\ d.nbr = c.nbr
        /\ d.asked = c.asked /\ d.data = c.data /\ d.before = c.before /\ d.after = c.after
    <3>. HIDE DEF c
    <3>. QED
      BY <1>1, <2>1 DEF Call
  <2>. HIDE DEF c, d
  <2>4. CallOK(d)
    BY <1>1, <2>1, <2>3 DEF CallOK, Copying
  <2>5. DataOK(d)
    BY <1>1, <2>3 DEF DataOK
  <2>. QED
    BY <2>2, <2>4, <2>5, MoveOK
<1>. QED
  BY <1>2, <1>3, <1>4 DEF Nearest

\* After its reply a reader is idle again.
LEMMA ReturnOK ==
  ASSUME IInv, NEW r \in Readers, Return(r)
  PROVE  IInv'
BY NoCallOK, MoveOK DEF Return

(***************************************************************************)
(* The second copy in the start table begins right behind the first, or    *)
(* has nothing to copy.                                                    *)
(***************************************************************************)
LEMMA CopyStartOK ==
  ASSUME IInv, NEW r \in Readers, CopyStart(r)
  PROVE  IInv'
<1> DEFINE c     == call[r]
           slot  == c.start[1]
           e     == c.start[2]
           ents  == Table(slot)
           len   == Len(ents)
           first == IF c.before < e THEN e - c.before ELSE 0
           last  == IF c.after < len - (e + 1) THEN e + c.after ELSE len - 1
           below == Copied(c, slot, first, e, << >>)
           all   == Copied(c, slot, e + 1, last, below)
           b     == c.before - (e - first)
           a     == c.after - (last - e)
           n     == slot - 1
           d     == [c EXCEPT !.pc = "before", !.cur = n, !.before = b, !.after = a,
                              !.data = all]
<1>1. /\ CallOK(c) /\ DataOK(c) /\ c \in Call /\ c.pc = "copy"
      /\ c.nbr \in Numbers /\ c.asked # << >>
      /\ c.before = c.asked[1] /\ c.after = c.asked[2]
      /\ c.before \in 1..MaxCount /\ c.after \in 1..MaxCount
      /\ c.start \in Slots \X (0..(Most - 1))
  <2>1. /\ CallOK(c) /\ DataOK(c) /\ c \in Call /\ c.pc = "copy"
    BY CallTyped DEF CopyStart
  <2>. HIDE DEF c
  <2>2. /\ c.nbr \in Numbers /\ c.asked # << >>
        /\ c.before = c.asked[1] /\ c.after = c.asked[2]
        /\ c.start \in Slots \X (0..(Most - 1))
    BY <2>1 DEF CallOK, Copying
  <2>. QED
    BY <2>1, <2>2, AskedTyped
<1>2. slot \in Slots /\ e \in 0..(Most - 1) /\ c.start = <<slot, e>> /\ slot \in 0..LastSlot
  <2>. HIDE DEF c
  <2>. QED
    BY <1>1 DEF Slots
<1>3. /\ ents \in Seq(Postfixes) /\ len \in 0..Most
      /\ \A i, j \in 1..len : i < j => ents[i] < ents[j]
  BY <1>2, TableSorted DEF IInv
<1>4. HeapOK
  BY DEF IInv
<1> DEFINE before == c.before
           after  == c.after
<1>5. /\ first \in Nat /\ last \in Int /\ e + 1 \in Nat /\ e \in Int
      /\ b \in 0..(MaxCount + Most) /\ a \in 0..(MaxCount + Most)
      /\ (e + 1 <= last => e + 1 < len)
  <2>1. /\ first = IF before < e THEN e - before ELSE 0
        /\ last = IF after < len - (e + 1) THEN e + after ELSE len - 1
        /\ b = before - (e - first) /\ a = after - (last - e)
        /\ before \in 1..MaxCount /\ after \in 1..MaxCount
    BY <1>1
  <2>. HIDE DEF c, slot, e, ents, len, before, after, first, last, a, b
  <2>2. /\ before \in Int /\ after \in Int /\ 0 <= before /\ 0 <= after
        /\ before <= MaxCount /\ after <= MaxCount
        /\ e \in Int /\ 0 <= e /\ e <= Most - 1
        /\ len \in Int /\ 0 <= len /\ len <= Most /\ Most \in Int /\ MaxCount \in Int
        /\ 1 <= MaxCount
    BY <1>2, <1>3, <2>1, SizeOfPostfixes, SlotAssumption
  <2>3. first \in Nat /\ first <= e /\ b \in Int /\ 0 <= b /\ b <= before
    BY <2>1, <2>2
  <2>4. last \in Int /\ (e + 1 <= last => e + 1 < len)
    BY <2>1, <2>2
  <2>5. a \in Int /\ 0 <= a
    BY <2>1, <2>2
  <2>6. a <= MaxCount + Most
    <3>1. CASE after < len - (e + 1)
      <4>1. a = 0
        BY <2>1, <2>2, <3>1
      <4>. QED
        BY <2>2, <4>1
    <3>2. CASE ~(after < len - (e + 1))
      <4>1. a = after + (e + 1) - len
        BY <2>1, <2>2, <3>2
      <4>. QED
        BY <2>2, <4>1
    <3>. QED
      BY <3>1, <3>2
  <2>. QED
    BY <2>2, <2>3, <2>4, <2>5, <2>6
<1>6. c.asked[1] \in Nat /\ c.asked[2] \in Nat
  BY <1>1, AskedTyped
<1>7. /\ below \in Seq(Numbers) /\ Distinct(below)
      /\ Len(below) <= c.asked[1] + c.asked[2] + 1
      /\ \A i \in 1..Len(below) :
           \E j \in 1..len : j <= e + 1 /\ below[i] = <<slot, ents[j]>>
  <2>1. /\ << >> \in Seq(Numbers) /\ Distinct(<< >>) /\ Len(<< >>) <= c.asked[1] + c.asked[2] + 1
        /\ 1..Len(<< >>) = {}
    <3>. HIDE DEF c
    <3>. QED
      BY <1>6 DEF Distinct
  <2> DEFINE none == << >>
  <2>2. none \in Seq(Numbers) /\ Distinct(none) /\ Len(none) <= c.asked[1] + c.asked[2] + 1
        /\ \A i \in 1..Len(none) : FALSE
    BY <2>1
  <2>3. below = Copied(c, slot, first, e, none)
    OBVIOUS
  <2>. HIDE DEF none, c, slot, e, first, below
  <2>4. /\ below \in Seq(Numbers) /\ Distinct(below)
        /\ Len(below) <= c.asked[1] + c.asked[2] + 1
        /\ \A i \in 1..Len(below) :
             \/ \E j \in 1..Len(none) : below[i] = none[j]
             \/ \E j \in 1..Len(Table(slot)) : j <= e + 1 /\ below[i] = <<slot, Table(slot)[j]>>
    <3>1. /\ c \in Call /\ c.asked # << >> /\ slot \in Slots /\ first \in Nat /\ e \in Int
          /\ none \in Seq(Numbers) /\ Distinct(none) /\ Len(none) <= c.asked[1] + c.asked[2] + 1
          /\ \A i \in 1..Len(none) : none[i][1] = slot =>
               first < Len(Table(slot)) /\ none[i][2] < Table(slot)[first + 1]
      BY <1>1, <1>2, <1>5, <2>2
    <3>. QED
      BY <1>4, <2>3, <3>1, AppendedOK
  <2>. QED
    BY <2>2, <2>4
<1>8. e + 1 <= last =>
        \A i \in 1..Len(below) : below[i][1] = slot =>
          e + 1 < len /\ below[i][2] < ents[e + 1 + 1]
  <2>. HIDE DEF c, slot, e, ents, first, last, below
  <2>1. SUFFICES ASSUME e + 1 <= last, NEW i \in 1..Len(below)
                 PROVE  e + 1 < len /\ below[i][2] < ents[e + 1 + 1]
    OBVIOUS
  <2>2. PICK j \in 1..len : j <= e + 1 /\ below[i] = <<slot, ents[j]>>
    BY <1>7
  <2>3. e + 1 < len
    BY <1>5, <2>1
  <2>4. j < e + 1 + 1 /\ e + 1 + 1 \in 1..len
    <3>. HIDE DEF len
    <3>. QED
      BY <1>2, <1>3, <2>2, <2>3, SizeOfPostfixes
  <2>5. ents[j] < ents[e + 1 + 1]
    BY <1>3, <2>4
  <2>. QED
    BY <2>2, <2>3, <2>5
<1>9. /\ all \in Seq(Numbers) /\ Distinct(all)
      /\ Len(all) <= c.asked[1] + c.asked[2] + 1
      /\ \A i \in 1..Len(all) :
           \/ \E j \in 1..Len(below) : all[i] = below[j]
           \/ \E j \in 1..len : j <= last + 1 /\ all[i] = <<slot, ents[j]>>
  <2>. HIDE DEF c, slot, e, first, last, below
  <2>. QED
    BY <1>1, <1>2, <1>4, <1>5, <1>7, <1>8, AppendedOK
<1>10. \A i \in 1..Len(all) : all[i][1] = slot
  <2>. HIDE DEF c, slot, e, ents, len, first, last, below, all
  <2>. QED
    BY <1>7, <1>9
<1>11. n \in -1..(LastSlot + 1) /\ n < slot
  <2>. HIDE DEF c, slot
  <2>. QED
    BY <1>2, SlotAssumption
<1>12. d \in Call /\ d.pc = "before" /\ d.cur = n /\ d.data = all /\ d.start = c.start
       /\ d.nbr = c.nbr /\ d.asked = c.asked
  <2>. HIDE DEF c, n, a, b, all
  <2>. QED
    BY <1>1, <1>5, <1>9, <1>11 DEF Call, Pcs
<1>13. CallOK(d)
  <2>. HIDE DEF c, n, a, b, all, d, slot
  <2>. QED
    BY <1>1, <1>2, <1>11, <1>12 DEF CallOK, Copying
<1>14. DataOK(d)
  <2>1. d.start[1] = slot /\ slot <= slot
    BY <1>2, <1>12
  <2>. HIDE DEF c, n, a, b, all, d, slot
  <2>. QED
    BY <1>9, <1>10, <1>11, <1>12, <2>1 DEF DataOK
<1>15. Continue(r, d, {}, {}) \/ Fail("null table read") \/ Fail("freed table used")
  BY DEF CopyStart
<1>. HIDE DEF d
<1>. QED
  BY <1>13, <1>14, <1>15, MoveOK, FailOK

\* Below the start: a table is skipped, is the next to copy, or is the last.
LEMMA PeekBeforeOK ==
  ASSUME IInv, NEW r \in Readers, PeekBefore(r)
  PROVE  IInv'
<1> DEFINE c == call[r]
<1>1. /\ CallOK(c) /\ DataOK(c) /\ c \in Call /\ c.pc = "before"
      /\ c.cur \in -1..(LastSlot + 1)
  BY CallTyped DEF PeekBefore
<1>2. /\ c.nbr \in Numbers /\ c.asked # << >> /\ c.start \in Slots \X (0..(Most - 1))
      /\ c.cur < c.start[1] /\ c.start[1] \in 0..LastSlot
      /\ \A i \in 1..Len(c.data) : c.cur < c.data[i][1] /\ c.data[i][1] <= c.start[1]
      /\ \A i \in 1..Len(c.data) : c.data[i][1] \in Int
  <2>. HIDE DEF c
  <2>1. c.data \in Seq(Numbers)
    BY <1>1 DEF Call
  <2>2. \A i \in 1..Len(c.data) : c.data[i] \in Numbers
    BY <2>1
  <2>3. \A n \in Numbers : n[1] \in Int
    BY SlotAssumption DEF Numbers, Slots
  <2>. QED
    BY <1>1, <2>2, <2>3 DEF CallOK, DataOK, Copying, Slots
<1>3. CASE /\ c.cur >= 0 /\ Continue(r, [c EXCEPT !.cur = @ - 1], {}, {})
  <2> DEFINE n == c.cur - 1
             d == [c EXCEPT !.cur = n]
  <2>1. n \in -1..(LastSlot + 1) /\ n < c.cur /\ c.cur \in Int
    <3>. HIDE DEF c
    <3>. QED
      BY <1>1, <1>3, SlotAssumption
  <2>2. Continue(r, d, {}, {})
    BY <1>3
  <2>. HIDE DEF n
  <2>3. d \in Call /\ d.pc = c.pc /\ d.cur = n /\ d.nbr = c.nbr
        /\ d.asked = c.asked /\ d.data = c.data /\ d.start = c.start
    <3>. HIDE DEF c
    <3>. QED
      BY <1>1, <2>1 DEF Call
  <2>. HIDE DEF c, d
  <2>4. n < c.start[1] /\ \A i \in 1..Len(c.data) : n < c.data[i][1]
    BY <1>2, <2>1
  <2>5. CallOK(d)
    BY <1>1, <1>2, <2>3, <2>4 DEF CallOK, Copying
  <2>6. DataOK(d)
    BY <1>1, <1>2, <2>3, <2>4 DEF DataOK
  <2>. QED
    BY <2>2, <2>5, <2>6, MoveOK
<1>4. CASE /\ c.cur >= 0 /\ MayBeEntered(c.cur)
           /\ Continue(r, [c EXCEPT !.pc = "lockBefore", !.t = ptr[c.cur]], {}, {})
  <2> DEFINE t == ptr[c.cur]
             d == [c EXCEPT !.pc = "lockBefore", !.t = t]
  <2>1. c.cur \in Slots
    <3>. HIDE DEF c
    <3>. QED
      BY <1>1, <1>2, <1>4, SlotAssumption DEF Slots
  <2>2. t \in TableIds /\ t # NULL
    <3>1. t # NULL
      BY <1>4 DEF MayBeEntered, Table, Freed
    <3>. QED
      BY <2>1, <3>1 DEF IInv, HeapOK
  <2>3. Continue(r, d, {}, {})
    BY <1>4
  <2>. HIDE DEF t
  <2>4. d \in Call /\ d.pc = "lockBefore" /\ d.cur = c.cur /\ d.nbr = c.nbr /\ d.t = t
        /\ d.asked = c.asked /\ d.data = c.data /\ d.start = c.start
    <3>. HIDE DEF c
    <3>. QED
      BY <1>1, <2>2 DEF Call, Pcs
  <2>. HIDE DEF c, d
  <2>5. CallOK(d)
    BY <1>1, <1>2, <1>4, <2>2, <2>4 DEF CallOK, Copying
  <2>6. DataOK(d)
    BY <1>1, <1>2, <2>4 DEF DataOK
  <2>. QED
    BY <2>3, <2>5, <2>6, MoveOK
<1>5. CASE Continue(r, [c EXCEPT !.pc = "after", !.cur = c.start[1] + 1], {}, {})
  <2> DEFINE n == c.start[1] + 1
             d == [c EXCEPT !.pc = "after", !.cur = n]
  <2>1. n \in -1..(LastSlot + 1) /\ n > c.start[1]
    <3>. HIDE DEF c
    <3>. QED
      BY <1>2, SlotAssumption
  <2>2. Continue(r, d, {}, {})
    BY <1>5
  <2>3. \A i \in 1..Len(c.data) : c.data[i][1] < n
    <3>. HIDE DEF c
    <3>. QED
      BY <1>2
  <2>. HIDE DEF n
  <2>4. d \in Call /\ d.pc = "after" /\ d.cur = n /\ d.nbr = c.nbr
        /\ d.asked = c.asked /\ d.data = c.data /\ d.start = c.start
    <3>. HIDE DEF c
    <3>. QED
      BY <1>1, <2>1 DEF Call, Pcs
  <2>. HIDE DEF c, d
  <2>5. CallOK(d)
    BY <1>1, <1>2, <2>1, <2>4 DEF CallOK, Copying
  <2>6. DataOK(d)
    BY <1>1, <1>2, <2>3, <2>4 DEF DataOK
  <2>. QED
    BY <2>2, <2>5, <2>6, MoveOK
<1>. QED
  BY <1>3, <1>4, <1>5 DEF PeekBefore

\* What a table below the start adds is of a slot nothing was copied from yet.
LEMMA LockBeforeOK ==
  ASSUME IInv, NEW r \in Readers, LockBefore(r)
  PROVE  IInv'
<1> DEFINE c     == call[r]
           len   == Cardinality(heap[c.t])
           first == IF len < c.before THEN 0 ELSE len - c.before
           all   == Copied(c, c.cur, first, len - 1, c.data)
           b     == c.before - (len - first)
           n     == c.cur - 1
           to    == len - 1
           d     == [c EXCEPT !.pc = "before", !.cur = n, !.before = b, !.data = all]
<1>1. /\ CallOK(c) /\ DataOK(c) /\ c \in Call /\ c.pc = "lockBefore"
      /\ c.cur \in -1..(LastSlot + 1) /\ c.before \in 0..(MaxCount + Most)
      /\ c.data \in Seq(Numbers)
  BY CallTyped DEF LockBefore
<1>2. /\ c.nbr \in Numbers /\ c.asked # << >> /\ c.start \in Slots \X (0..(Most - 1))
      /\ c.cur < c.start[1] /\ c.start[1] \in 0..LastSlot /\ c.cur >= 0
      /\ c.t \in TableIds
      /\ Distinct(c.data) /\ Len(c.data) <= c.asked[1] + c.asked[2] + 1
      /\ \A i \in 1..Len(c.data) : c.cur < c.data[i][1] /\ c.data[i][1] <= c.start[1]
      /\ \A i \in 1..Len(c.data) : c.data[i][1] \in Int
  <2>. HIDE DEF c
  <2>1. \A i \in 1..Len(c.data) : c.data[i] \in Numbers
    BY <1>1
  <2>2. \A m \in Numbers : m[1] \in Int
    BY SlotAssumption DEF Numbers, Slots
  <2>3. c.t \in TableIds \cup {NULL}
    BY <1>1 DEF Call
  <2>. QED
    BY <1>1, <2>1, <2>2, <2>3 DEF CallOK, DataOK, Copying, Slots
<1>3. HeapOK
  BY DEF IInv
<1>4. len \in 0..Most
  <2>. HIDE DEF c
  <2>. QED
    BY <1>2, <1>3, EntriesSorted
<1>5. /\ first \in Nat /\ to \in Int /\ b \in 0..(MaxCount + Most)
      /\ n \in -1..(LastSlot + 1) /\ n < c.cur /\ c.cur \in Slots /\ n < c.start[1]
      /\ c.cur \in Int
  <2> DEFINE before == c.before
             cur == c.cur
  <2>1. /\ first = IF len < before THEN 0 ELSE len - before
        /\ b = before - (len - first) /\ n = cur - 1 /\ to = len - 1
        /\ before \in 0..(MaxCount + Most) /\ cur < c.start[1] /\ cur >= 0
        /\ cur \in -1..(LastSlot + 1)
    BY <1>1, <1>2
  <2> DEFINE st == c.start[1]
  <2>. st \in 0..LastSlot /\ cur < st
    BY <1>2
  <2>. HIDE DEF c, len, before, cur, first, b, n, to, st
  <2>2. first \in Nat /\ to \in Int /\ b \in 0..(MaxCount + Most)
    BY <1>4, <2>1, SizeOfPostfixes, SlotAssumption
  <2>3. n \in -1..(LastSlot + 1) /\ n < cur /\ cur \in Slots /\ n < st /\ cur \in Int
    BY <2>1, SlotAssumption DEF Slots
  <2>. QED
    BY <2>2, <2>3 DEF cur, st
<1>6. /\ all \in Seq(Numbers) /\ Distinct(all)
      /\ Len(all) <= c.asked[1] + c.asked[2] + 1
      /\ \A i \in 1..Len(all) :
           \/ \E j \in 1..Len(c.data) : all[i] = c.data[j]
           \/ \E j \in 1..Len(Table(c.cur)) : j <= to + 1 /\ all[i] = <<c.cur, Table(c.cur)[j]>>
  <2>1. \A i \in 1..Len(c.data) : c.data[i][1] # c.cur
    <3>. HIDE DEF c
    <3>. QED
      BY <1>2, <1>5
  <2> DEFINE slot == c.cur
             data == c.data
  <2>2. all = Copied(c, slot, first, to, data)
    OBVIOUS
  <2>3. /\ c \in Call /\ c.asked # << >> /\ slot \in Slots /\ first \in Nat /\ to \in Int
        /\ data \in Seq(Numbers) /\ Distinct(data) /\ Len(data) <= c.asked[1] + c.asked[2] + 1
        /\ \A i \in 1..Len(data) : data[i][1] # slot
    BY <1>1, <1>2, <1>5, <2>1
  <2>. HIDE DEF c, first, to, all, slot, data
  <2>4. /\ all \in Seq(Numbers) /\ Distinct(all)
        /\ Len(all) <= c.asked[1] + c.asked[2] + 1
        /\ \A i \in 1..Len(all) :
             \/ \E j \in 1..Len(data) : all[i] = data[j]
             \/ \E j \in 1..Len(Table(slot)) : j <= to + 1 /\ all[i] = <<slot, Table(slot)[j]>>
    BY <1>3, <2>2, <2>3, AppendedOK
  <2>. QED
    BY <2>4 DEF slot, data
<1>7. \A i \in 1..Len(all) : n < all[i][1] /\ all[i][1] <= c.start[1]
  <2>. HIDE DEF c, all, n, to
  <2>1. ASSUME NEW i \in 1..Len(all), NEW j \in 1..Len(c.data), all[i] = c.data[j]
        PROVE  n < all[i][1] /\ all[i][1] <= c.start[1]
    BY <1>2, <1>5, <2>1
  <2>2. ASSUME NEW i \in 1..Len(all), all[i][1] = c.cur
        PROVE  n < all[i][1] /\ all[i][1] <= c.start[1]
    BY <1>2, <1>5, <2>2
  <2>. QED
    BY <1>6, <2>1, <2>2
<1>8. d \in Call /\ d.pc = "before" /\ d.cur = n /\ d.data = all /\ d.start = c.start
       /\ d.nbr = c.nbr /\ d.asked = c.asked
  <2>. HIDE DEF c, n, b, all
  <2>. QED
    BY <1>1, <1>5, <1>6 DEF Call, Pcs
<1>9. CallOK(d)
  <2>. HIDE DEF c, n, b, all, d
  <2>. QED
    BY <1>1, <1>2, <1>5, <1>8 DEF CallOK, Copying
<1>10. DataOK(d)
  <2>. HIDE DEF c, n, b, all, d
  <2>. QED
    BY <1>6, <1>7, <1>8 DEF DataOK
<1>11. Continue(r, d, {}, {}) \/ Fail("freed table used")
  BY DEF LockBefore
<1>. HIDE DEF d
<1>. QED
  BY <1>9, <1>10, <1>11, MoveOK, FailOK

\* What a table above the start adds is of a slot nothing was copied from yet.
LEMMA LockAfterOK ==
  ASSUME IInv, NEW r \in Readers, LockAfter(r)
  PROVE  IInv'
<1> DEFINE c    == call[r]
           len  == Cardinality(heap[c.t])
           last == IF c.after - 1 >= len THEN len - 1 ELSE c.after - 1
           all  == Copied(c, c.cur, 0, last, c.data)
           a    == c.after - (last + 1)
           n    == c.cur + 1
           zero == 0
           d    == [c EXCEPT !.pc = "after", !.cur = n, !.after = a, !.data = all]
<1>1. /\ CallOK(c) /\ DataOK(c) /\ c \in Call /\ c.pc = "lockAfter"
      /\ c.cur \in -1..(LastSlot + 1) /\ c.after \in 0..(MaxCount + Most)
      /\ c.data \in Seq(Numbers)
  BY CallTyped DEF LockAfter
<1>2. /\ c.nbr \in Numbers /\ c.asked # << >> /\ c.start \in Slots \X (0..(Most - 1))
      /\ c.cur > c.start[1] /\ c.start[1] \in 0..LastSlot /\ c.cur <= LastSlot
      /\ c.t \in TableIds
      /\ Distinct(c.data) /\ Len(c.data) <= c.asked[1] + c.asked[2] + 1
      /\ \A i \in 1..Len(c.data) : c.data[i][1] < c.cur
      /\ \A i \in 1..Len(c.data) : c.data[i][1] \in Int
  <2>. HIDE DEF c
  <2>1. \A i \in 1..Len(c.data) : c.data[i] \in Numbers
    BY <1>1
  <2>2. \A m \in Numbers : m[1] \in Int
    BY SlotAssumption DEF Numbers, Slots
  <2>3. c.t \in TableIds \cup {NULL}
    BY <1>1 DEF Call
  <2>. QED
    BY <1>1, <2>1, <2>2, <2>3 DEF CallOK, DataOK, Copying, Slots
<1>3. HeapOK
  BY DEF IInv
<1>4. len \in 0..Most
  <2>. HIDE DEF c
  <2>. QED
    BY <1>2, <1>3, EntriesSorted
<1>5. /\ zero \in Nat /\ last \in Int /\ a \in 0..(MaxCount + Most)
      /\ n \in -1..(LastSlot + 1) /\ c.cur < n /\ c.cur \in Slots /\ n > c.start[1]
      /\ c.cur \in Int
  <2> DEFINE after == c.after
             cur == c.cur
  <2>1. /\ last = IF after - 1 >= len THEN len - 1 ELSE after - 1
        /\ a = after - (last + 1) /\ n = cur + 1 /\ zero = 0
        /\ after \in 0..(MaxCount + Most) /\ cur <= LastSlot
        /\ cur \in -1..(LastSlot + 1)
    BY <1>1, <1>2
  <2> DEFINE st == c.start[1]
  <2>. st \in 0..LastSlot /\ cur > st
    BY <1>2
  <2>. HIDE DEF c, len, after, cur, last, a, n, zero, st
  <2>2. zero \in Nat /\ last \in Int /\ a \in 0..(MaxCount + Most)
    BY <1>4, <2>1, SizeOfPostfixes, SlotAssumption
  <2>3. n \in -1..(LastSlot + 1) /\ cur < n /\ cur \in Slots /\ n > st /\ cur \in Int
    BY <2>1, SlotAssumption DEF Slots
  <2>. QED
    BY <2>2, <2>3 DEF cur, st
<1>6. /\ all \in Seq(Numbers) /\ Distinct(all)
      /\ Len(all) <= c.asked[1] + c.asked[2] + 1
      /\ \A i \in 1..Len(all) :
           \/ \E j \in 1..Len(c.data) : all[i] = c.data[j]
           \/ \E j \in 1..Len(Table(c.cur)) : j <= last + 1 /\ all[i] = <<c.cur, Table(c.cur)[j]>>
  <2>1. \A i \in 1..Len(c.data) : c.data[i][1] # c.cur
    <3>. HIDE DEF c
    <3>. QED
      BY <1>2, <1>5
  <2> DEFINE slot == c.cur
             data == c.data
  <2>2. all = Copied(c, slot, zero, last, data)
    OBVIOUS
  <2>3. /\ c \in Call /\ c.asked # << >> /\ slot \in Slots /\ zero \in Nat /\ last \in Int
        /\ data \in Seq(Numbers) /\ Distinct(data) /\ Len(data) <= c.asked[1] + c.asked[2] + 1
        /\ \A i \in 1..Len(data) : data[i][1] # slot
    BY <1>1, <1>2, <1>5, <2>1
  <2>. HIDE DEF c, zero, last, all, slot, data
  <2>4. /\ all \in Seq(Numbers) /\ Distinct(all)
        /\ Len(all) <= c.asked[1] + c.asked[2] + 1
        /\ \A i \in 1..Len(all) :
             \/ \E j \in 1..Len(data) : all[i] = data[j]
             \/ \E j \in 1..Len(Table(slot)) : j <= last + 1 /\ all[i] = <<slot, Table(slot)[j]>>
    BY <1>3, <2>2, <2>3, AppendedOK
  <2>. QED
    BY <2>4 DEF slot, data
<1>7. \A i \in 1..Len(all) : all[i][1] < n
  <2>. HIDE DEF c, all, n, last
  <2>1. ASSUME NEW i \in 1..Len(all), NEW j \in 1..Len(c.data), all[i] = c.data[j]
        PROVE  all[i][1] < n
    <3>1. c.data[j][1] < c.cur /\ c.data[j][1] \in Int /\ n \in Int
      BY <1>2, <1>5
    <3>. QED
      BY <1>5, <2>1, <3>1
  <2>2. ASSUME NEW i \in 1..Len(all), all[i][1] = c.cur
        PROVE  all[i][1] < n
    BY <1>2, <1>5, <2>2
  <2>. QED
    BY <1>6, <2>1, <2>2
<1>8. d \in Call /\ d.pc = "after" /\ d.cur = n /\ d.data = all /\ d.start = c.start
       /\ d.nbr = c.nbr /\ d.asked = c.asked
  <2>. HIDE DEF c, n, a, all
  <2>. QED
    BY <1>1, <1>5, <1>6 DEF Call, Pcs
<1>9. CallOK(d)
  <2>. HIDE DEF c, n, a, all, d
  <2>. QED
    BY <1>1, <1>2, <1>5, <1>8 DEF CallOK, Copying
<1>10. DataOK(d)
  <2>. HIDE DEF c, n, a, all, d
  <2>. QED
    BY <1>6, <1>7, <1>8 DEF DataOK
<1>11. Continue(r, d, {}, {}) \/ Fail("freed table used")
  BY DEF LockAfter
<1>. HIDE DEF d
<1>. QED
  BY <1>9, <1>10, <1>11, MoveOK, FailOK

\* Sorting numbers that are all different changes nothing but their places.
LEMMA SortedOK ==
  ASSUME NEW data \in Seq(Numbers), Distinct(data)
  PROVE  /\ Sorted(data) \in Seq(Numbers) /\ Len(Sorted(data)) = Len(data)
         /\ Distinct(Sorted(data))
         /\ \A i, j \in 1..Len(data) :
              i < j => Alphabetical(Sorted(data)[i], Sorted(data)[j])
<1> DEFINE W == Members(data)
           n == Len(data)
           f == Sorted(data)
<1>1. W \subseteq Numbers /\ n \in Nat
  BY DEF Members
<1>2. f = Ranked(W, Alpha(W)) /\ StrictOrder(W, Alpha(W))
      /\ IsFiniteSet(W) /\ Cardinality(W) = n
  BY <1>1, SortedDistinct, AlphaOrders
<1>3. f \in [1..n -> W] /\ \A i, j \in 1..n : i < j => <<f[i], f[j]>> \in Alpha(W)
  <2>. HIDE DEF W, f, n
  <2>. QED
    BY <1>2, RankedSorts
<1>4. \A i, j \in 1..n : i < j => Alphabetical(f[i], f[j])
  <2>. HIDE DEF W, f, n
  <2>. QED
    BY <1>3 DEF Alpha
<1>5. f \in Seq(Numbers) /\ Len(f) = n
  <2>. HIDE DEF W, f, n
  <2>1. f \in [1..n -> Numbers]
    BY <1>1, <1>3
  <2>. QED
    BY <1>1, <2>1
<1>6. ASSUME NEW i \in 1..n, NEW j \in 1..n, i < j PROVE f[i] # f[j]
  <2>. HIDE DEF W, f, n
  <2>1. <<f[i], f[j]>> \in Alpha(W) /\ f[i] \in W
    BY <1>3, <1>6
  <2>. QED
    BY <1>2, <2>1 DEF StrictOrder
<1>7. Distinct(f)
  <2>. HIDE DEF W, f, n
  <2>1. \A i, j \in 1..n : i # j => i < j \/ j < i
    BY <1>1
  <2>. QED
    BY <1>5, <1>6, <2>1 DEF Distinct
<1>. QED
  BY <1>4, <1>5, <1>7

\* Above the start: as below, and at the end the data is sorted, which keeps
\* its numbers and puts them in the order of their text.
LEMMA PeekAfterOK ==
  ASSUME IInv, NEW r \in Readers, PeekAfter(r)
  PROVE  IInv'
<1> DEFINE c == call[r]
<1>1. /\ CallOK(c) /\ DataOK(c) /\ c \in Call /\ c.pc = "after"
      /\ c.cur \in -1..(LastSlot + 1)
  BY CallTyped DEF PeekAfter
<1>2. /\ c.nbr \in Numbers /\ c.asked # << >> /\ c.start \in Slots \X (0..(Most - 1))
      /\ c.cur > c.start[1] /\ c.start[1] \in 0..LastSlot
      /\ Distinct(c.data) /\ Len(c.data) <= c.asked[1] + c.asked[2] + 1
      /\ \A i \in 1..Len(c.data) : c.data[i][1] < c.cur
      /\ \A i \in 1..Len(c.data) : c.data[i][1] \in Int
      /\ c.data \in Seq(Numbers)
  <2>. HIDE DEF c
  <2>1. c.data \in Seq(Numbers)
    BY <1>1 DEF Call
  <2>2. \A i \in 1..Len(c.data) : c.data[i] \in Numbers
    BY <2>1
  <2>3. \A n \in Numbers : n[1] \in Int
    BY SlotAssumption DEF Numbers, Slots
  <2>. QED
    BY <1>1, <2>1, <2>2, <2>3 DEF CallOK, DataOK, Copying, Slots
<1>3. CASE /\ c.cur <= LastSlot /\ Continue(r, [c EXCEPT !.cur = @ + 1], {}, {})
  <2> DEFINE n == c.cur + 1
             d == [c EXCEPT !.cur = n]
  <2>1. n \in -1..(LastSlot + 1) /\ c.cur < n /\ c.cur \in Int /\ n > c.start[1]
    <3>. HIDE DEF c
    <3>. QED
      BY <1>1, <1>2, <1>3, SlotAssumption
  <2>2. Continue(r, d, {}, {})
    BY <1>3
  <2>. HIDE DEF n
  <2>3. d \in Call /\ d.pc = c.pc /\ d.cur = n /\ d.nbr = c.nbr
        /\ d.asked = c.asked /\ d.data = c.data /\ d.start = c.start
    <3>. HIDE DEF c
    <3>. QED
      BY <1>1, <2>1 DEF Call
  <2>. HIDE DEF c, d
  <2>4. \A i \in 1..Len(c.data) : c.data[i][1] < n
    <3>1. n \in Int
      BY <2>1
    <3>. QED
      BY <1>2, <2>1, <3>1
  <2>5. CallOK(d)
    BY <1>1, <1>2, <2>1, <2>3, <2>4 DEF CallOK, Copying
  <2>6. DataOK(d)
    BY <1>1, <1>2, <2>3, <2>4 DEF DataOK
  <2>. QED
    BY <2>2, <2>5, <2>6, MoveOK
<1>4. CASE /\ c.cur <= LastSlot /\ MayBeEntered(c.cur)
           /\ Continue(r, [c EXCEPT !.pc = "lockAfter", !.t = ptr[c.cur]], {}, {})
  <2> DEFINE t == ptr[c.cur]
             d == [c EXCEPT !.pc = "lockAfter", !.t = t]
  <2>1. c.cur \in Slots
    <3>. HIDE DEF c
    <3>. QED
      BY <1>1, <1>2, <1>4, SlotAssumption DEF Slots
  <2>2. t \in TableIds /\ t # NULL
    <3>1. t # NULL
      BY <1>4 DEF MayBeEntered, Table, Freed
    <3>. QED
      BY <2>1, <3>1 DEF IInv, HeapOK
  <2>3. Continue(r, d, {}, {})
    BY <1>4
  <2>. HIDE DEF t
  <2>4. d \in Call /\ d.pc = "lockAfter" /\ d.cur = c.cur /\ d.nbr = c.nbr /\ d.t = t
        /\ d.asked = c.asked /\ d.data = c.data /\ d.start = c.start
    <3>. HIDE DEF c
    <3>. QED
      BY <1>1, <2>2 DEF Call, Pcs
  <2>. HIDE DEF c, d
  <2>5. CallOK(d)
    BY <1>1, <1>2, <1>4, <2>2, <2>4 DEF CallOK, Copying
  <2>6. DataOK(d)
    BY <1>1, <1>2, <2>4 DEF DataOK
  <2>. QED
    BY <2>3, <2>5, <2>6, MoveOK
<1>5. CASE Continue(r, [c EXCEPT !.pc = "answered", !.data = Sorted(@)], {}, {c.start[1]})
  <2> DEFINE f == Sorted(c.data)
             d == [c EXCEPT !.pc = "answered", !.data = f]
  <2>1. /\ f \in Seq(Numbers) /\ Len(f) = Len(c.data) /\ Distinct(f)
        /\ \A i, j \in 1..Len(c.data) : i < j => Alphabetical(f[i], f[j])
    <3>. HIDE DEF c
    <3>. QED
      BY <1>2, SortedOK
  <2>2. Continue(r, d, {}, {c.start[1]})
    BY <1>5
  <2>. HIDE DEF f
  <2>3. d \in Call /\ d.pc = "answered" /\ d.cur = c.cur /\ d.nbr = c.nbr
        /\ d.asked = c.asked /\ d.data = f /\ d.start = c.start
    <3>. HIDE DEF c
    <3>. QED
      BY <1>1, <2>1 DEF Call, Pcs
  <2>. HIDE DEF c, d
  <2>4. CallOK(d)
    BY <1>1, <1>2, <2>3 DEF CallOK, Copying
  <2>5. DataOK(d)
    BY <1>2, <2>1, <2>3 DEF DataOK
  <2>. QED
    BY <2>2, <2>4, <2>5, MoveOK
<1>. QED
  BY <1>3, <1>4, <1>5 DEF PeekAfter

-----------------------------------------------------------------------------
\* Every step keeps the invariant.

\* Every step keeps the invariant, one action at a time.
LEMMA NextOK == IInv /\ [Next]_vars => IInv'
<1> SUFFICES ASSUME IInv, [Next]_vars PROVE IInv'
  OBVIOUS
<1>1. CASE UNCHANGED vars
  <2>1. /\ ptr' = ptr /\ heap' = heap /\ allocated' = allocated /\ deletes' = deletes
        /\ locked' = locked /\ robbed' = robbed /\ torn' = torn /\ call' = call
    BY <1>1 DEF vars, index, history
  <2>2. HeapOK' /\ CallsOK'
    BY <2>1 DEF IInv, HeapOK, CallsOK, CallOK, DataOK, Distinct
  <2>3. PointersOK'
    BY <2>1 DEF IInv, PointersOK, TablesDisjoint, Dangling, DeletesIn
  <2>. QED
    BY <2>2, <2>3 DEF IInv
<1>2. ASSUME NEW r \in Readers, Work(r) PROVE IInv'
  BY <1>2, SearchOK, NearestOK, CopyStartOK, PeekBeforeOK, LockBeforeOK, PeekAfterOK,
     LockAfterOK, ReturnOK DEF Work
<1>3. ASSUME NEW r \in Readers, NEW req \in Requests, Begin(r, req) \/ BeginRefused(r, req)
      PROVE  IInv'
  BY <1>3, BeginOK, BeginRefusedOK
<1>. QED
  BY <1>1, <1>2, <1>3, UpdateOK DEF Next

(***************************************************************************)
(* nlkup_get_range_around: the pointers, the tables, the locks and the     *)
(* counts of a call keep to their types, whatever the other threads do     *)
(* between its steps and whatever it was that malloc returned. The counts  *)
(* left stay within what was asked for and the size of one table, though   *)
(* the index found in a recycled table can be behind the end of the slot's *)
(* own one.                                                                *)
(***************************************************************************)
THEOREM RangeAroundTypes == Spec => []TypeOK
<1>1. IInv => TypeOK
  <2> SUFFICES ASSUME IInv PROVE TypeOK
    OBVIOUS
  <2>1. \A r \in Readers : /\ call[r].before \in 0..(MaxCount + Most)
                           /\ call[r].after \in 0..(MaxCount + Most)
                           /\ call[r].cur \in -1..(LastSlot + 1)
    BY CallTyped
  <2>. QED
    BY <2>1 DEF IInv, HeapOK, TypeOK, Most, DeleteOf
<1>. QED
  BY InitOK, NextOK, <1>1, PTL DEF Spec

(***************************************************************************)
(* delete_entry and enter_entry: two slots point to the same table only    *)
(* in between mem_free(t) and table = NULL of a delete of one of them,     *)
(* although the address is handed out again before, unless an insert or    *)
(* delete came into the middle of a delete.                                *)
(***************************************************************************)
THEOREM TablesStayDisjoint == Spec => []TablesDisjoint
<1>1. IInv => TablesDisjoint
  BY DEF IInv, PointersOK
<1>. QED
  BY InitOK, NextOK, <1>1, PTL DEF Spec

(***************************************************************************)
(* nlkup_get_range_around, sort_range_data: among inserts and deletes of   *)
(* any other threads a reply holds no number twice, is in the order of the *)
(* text of its numbers, and is not longer than the array allocated for it. *)
(***************************************************************************)
THEOREM RepliesWellFormed == Spec => []ReplyWellFormed
<1>1. IInv => ReplyWellFormed
  <2> SUFFICES ASSUME IInv, NEW r \in Readers, call[r].pc = "answered"
               PROVE  LET c == call[r]
                      IN  /\ \A i, j \in 1..Len(c.data) :
                               i < j => Alphabetical(c.data[i], c.data[j])
                          /\ Len(c.data) <= c.asked[1] + c.asked[2] + 1
    BY DEF ReplyWellFormed
  <2>. QED
    BY CallTyped DEF DataOK
<1>. QED
  BY InitOK, NextOK, <1>1, PTL DEF Spec

-----------------------------------------------------------------------------
\* Locks.

\* The slot a call in c keeps locked.
Held(c) == IF c.pc \in Copying THEN {c.start[1]} ELSE {}

(***************************************************************************)
(* A slot is locked by a delete that is not through or by a call, by one   *)
(* of them only unless a refused call has unlocked it, and for no other    *)
(* reason.                                                                 *)
(***************************************************************************)
LocksOK ==
  /\ \A s \in Slots \ robbed : DeletesIn(s) # {} => s \in locked
  /\ \A r \in Readers : \A s \in Holds(r) \ robbed : s \in locked
  /\ MutualExclusion
  /\ \A s \in locked : DeletesIn(s) # {} \/ \E r \in Readers : s \in Holds(r)

LInv == IInv /\ LocksOK

\* A call that takes free slots and gives back its own, and then keeps the
\* difference.
LEMMA MoveKeepsLocks ==
  ASSUME LInv, NEW r \in Readers, NEW c, NEW take \in SUBSET Slots, NEW release,
         Continue(r, c, take, release), take \cap locked = {}, release \subseteq Holds(r),
         Held(c) = (Holds(r) \cup take) \ release
  PROVE  LocksOK'
<1>1. /\ call' = [call EXCEPT ![r] = c] /\ locked' = (locked \cup take) \ release
      /\ deletes' = deletes /\ robbed' = robbed /\ torn' = torn
      /\ call \in [Readers -> Call] /\ locked \subseteq Slots
  BY DEF Continue, LInv, IInv, CallsOK, HeapOK, history
<1>2. \A q \in Readers : Holds(q)' = IF q = r THEN (Holds(r) \cup take) \ release ELSE Holds(q)
  <2>1. \A q \in Readers : call'[q] = IF q = r THEN c ELSE call[q]
    BY <1>1
  <2>. QED
    BY <2>1 DEF Holds, Held
<1>2a. \A s \in Slots : (DeletesIn(s))' = DeletesIn(s)
  BY <1>1 DEF DeletesIn
<1> DEFINE H == [q \in Readers |-> Holds(q)]
           H2 == [q \in Readers |-> (Holds(q))']
           D == {s \in Slots : DeletesIn(s) # {}}
<1>3. /\ \A q \in Readers : H[q] = Holds(q) /\ H2[q] = (Holds(q))'
      /\ \A q \in Readers : H2[q] = IF q = r THEN (H[r] \cup take) \ release ELSE H[q]
      /\ release \subseteq H[r]
  BY <1>2
<1>4. /\ \A s \in D \ robbed : s \in locked
      /\ \A q \in Readers : \A s \in H[q] \ robbed : s \in locked
      /\ \A s \in Slots \ robbed : /\ \A p, q \in Readers : p # q => s \notin H[p] \cap H[q]
                                   /\ \A q \in Readers : s \in H[q] => s \notin D
      /\ \A s \in locked : s \in D \/ \E q \in Readers : s \in H[q]
  BY <1>1 DEF LInv, LocksOK, MutualExclusion
<1>5. \A s \in Slots : DeletesIn(s) # {} <=> s \in D
  OBVIOUS
<1>6. /\ \A s \in Slots \ robbed : \A u, v \in DeletesIn(s) : u = v
      /\ torn => robbed # {}
  BY DEF LInv, LocksOK, MutualExclusion
<1>. HIDE DEF H, H2, D
<1>7. \A s \in D \ robbed : s \in locked'
  <2>1. D \subseteq Slots
    BY DEF D
  <2>. QED
    BY <1>1, <1>3, <1>4, <2>1
<1>8. \A q \in Readers : \A s \in H2[q] \ robbed : s \in locked'
  <2>. SUFFICES ASSUME NEW q \in Readers, NEW s \in H2[q] \ robbed PROVE s \in locked'
    OBVIOUS
  <2>1. CASE q = r
    BY <1>1, <1>3, <1>4, <2>1
  <2>2. CASE q # r
    <3>1. s \in H[q] /\ s \in locked /\ s \in Slots
      BY <1>1, <1>3, <1>4, <2>2
    <3>2. s \notin H[r]
      BY <1>4, <2>2, <3>1
    <3>. QED
      BY <1>1, <1>3, <3>1, <3>2
  <2>. QED
    BY <2>1, <2>2
<1>9. ASSUME NEW s \in Slots \ robbed
      PROVE  /\ \A p, q \in Readers : p # q => s \notin H2[p] \cap H2[q]
             /\ \A q \in Readers : s \in H2[q] => s \notin D
  <2>1. s \in take => s \notin D /\ \A q \in Readers : s \notin H[q]
    BY <1>4
  <2>2. \A q \in Readers : s \in H2[q] => s \in H[q] \/ (q = r /\ s \in take)
    BY <1>3
  <2>3. /\ \A p, q \in Readers : p # q => s \notin H[p] \cap H[q]
        /\ \A q \in Readers : s \in H[q] => s \notin D
    BY <1>4
  <2>. QED
    BY <2>1, <2>2, <2>3
<1>10. \A s \in locked' : s \in D \/ \E q \in Readers : s \in H2[q]
  BY <1>1, <1>3, <1>4
<1>11. MutualExclusion'
  BY <1>1, <1>2a, <1>3, <1>5, <1>6, <1>9 DEF MutualExclusion
<1>12. locked' \subseteq Slots
  BY <1>1
<1>. QED
  BY <1>1, <1>2a, <1>3, <1>5, <1>7, <1>8, <1>10, <1>11, <1>12 DEF LocksOK

\* A step that touches no lock, no delete and no call.
LEMMA SameLocks ==
  ASSUME LInv, call' = call, deletes' = deletes, locked' = locked, robbed' = robbed,
         torn' => torn \/ robbed # {}
  PROVE  LocksOK'
<1>1. \A s \in Slots : (DeletesIn(s))' = DeletesIn(s)
  BY DEF DeletesIn
<1>2. \A r \in Readers : (Holds(r))' = Holds(r)
  BY DEF Holds
<1>3. locked \subseteq Slots
  BY DEF LInv, IInv, HeapOK
<1>4. MutualExclusion'
  BY <1>1, <1>2 DEF LInv, LocksOK, MutualExclusion
<1>. QED
  BY <1>1, <1>2, <1>3, <1>4 DEF LInv, LocksOK

\* What ends the server leaves the locks.
LEMMA FailKeepsLocks ==
  ASSUME LInv, NEW what, Fail(what)
  PROVE  LocksOK'
<1>1. call' = call /\ deletes' = deletes /\ locked' = locked /\ robbed' = robbed /\ torn' = torn
  BY DEF Fail, history
<1>. QED
  BY <1>1, SameLocks

\* A search takes the lock of a free slot and keeps it when it finds its number.
LEMMA SearchKeepsLocks ==
  ASSUME LInv, NEW r \in Readers, Search(r)
  PROVE  LocksOK'
<1> DEFINE c == call[r]
           p == c.nbr[2]
<1>1. c \in Call /\ CallOK(c) /\ c.pc = "search" /\ c.cur \notin locked
  BY CallTyped DEF Search, LInv, Free
<1>2. c.cur \in Slots /\ Holds(r) = {}
  <2>1. c.cur \in -1..(LastSlot + 1) /\ c.cur >= 0 /\ c.cur <= LastSlot
    BY <1>1, CallTyped DEF LInv, CallOK
  <2>2. Holds(r) = {}
    BY <1>1 DEF Holds, Copying
  <2>. HIDE DEF c
  <2>. QED
    BY <2>1, <2>2, SlotAssumption DEF Slots
<1>3. CASE Fail("null table searched") \/ Fail("freed table used")
  BY <1>3, FailKeepsLocks
<1>4. CASE Continue(r, [c EXCEPT !.pc = "copy", !.start = <<c.cur, Below(c.t, p)>>],
                    {c.cur}, {})
  <2> DEFINE e == Below(c.t, p)
             d == [c EXCEPT !.pc = "copy", !.start = <<c.cur, e>>]
  <2>. HIDE DEF e
  <2>1. d.pc = "copy" /\ d.start = <<c.cur, e>>
    <3>. HIDE DEF c
    <3>. QED
      BY <1>1 DEF Call
  <2>2. Continue(r, d, {c.cur}, {})
    BY <1>4 DEF e
  <2>. HIDE DEF c, d
  <2>3. Held(d) = {c.cur}
    BY <2>1 DEF Held, Copying
  <2>. QED
    BY <1>1, <1>2, <2>2, <2>3, MoveKeepsLocks
<1>5. CASE Continue(r, [c EXCEPT !.pc = "nearest", !.pos = Below(c.t, p)], {}, {})
  <2> DEFINE e == Below(c.t, p)
             d == [c EXCEPT !.pc = "nearest", !.pos = e]
  <2>. HIDE DEF e
  <2>1. d.pc = "nearest"
    <3>. HIDE DEF c
    <3>. QED
      BY <1>1 DEF Call
  <2>2. Continue(r, d, {}, {})
    BY <1>5 DEF e
  <2>. HIDE DEF c, d
  <2>3. Held(d) = {}
    BY <2>1 DEF Held, Copying
  <2>. QED
    BY <1>2, <2>2, <2>3, MoveKeepsLocks
<1>. QED
  BY <1>3, <1>4, <1>5 DEF Search

\* find_nearest_entry takes the lock of a free slot and keeps it with an entry.
LEMMA NearestKeepsLocks ==
  ASSUME LInv, NEW r \in Readers, Nearest(r)
  PROVE  LocksOK'
<1> DEFINE c == call[r]
           e == NearestInTable(Len(Table(c.cur)), c.pos)
<1>1. c \in Call /\ c.pc = "nearest" /\ Holds(r) = {}
  BY CallTyped DEF Nearest, LInv, Holds, Copying
<1>2. CASE \/ Fail("slot past the index") \/ Fail("null table read")
           \/ Fail("freed table used")
  BY <1>2, FailKeepsLocks
<1>3. CASE /\ c.cur \in Slots /\ c.cur \notin locked
           /\ Continue(r, [c EXCEPT !.pc = "copy", !.start = <<c.cur, e>>], {c.cur}, {})
  <2> DEFINE d == [c EXCEPT !.pc = "copy", !.start = <<c.cur, e>>]
  <2>1. Continue(r, d, {c.cur}, {})
    BY <1>3
  <2>. HIDE DEF e
  <2>2. d.pc = "copy" /\ d.start = <<c.cur, e>>
    <3>. HIDE DEF c
    <3>. QED
      BY <1>1 DEF Call
  <2>. HIDE DEF c, d
  <2>3. Held(d) = {c.cur}
    BY <2>2 DEF Held, Copying
  <2>. QED
    BY <1>1, <1>3, <2>1, <2>3, MoveKeepsLocks
<1>4. CASE Continue(r, [c EXCEPT !.cur = @ + 1, !.pos = -1], {}, {})
  <2> DEFINE d == [c EXCEPT !.cur = @ + 1, !.pos = -1]
  <2>1. d.pc = "nearest"
    <3>. HIDE DEF c
    <3>. QED
      BY <1>1 DEF Call
  <2>2. Continue(r, d, {}, {})
    BY <1>4
  <2>. HIDE DEF c, d
  <2>3. Held(d) = {}
    BY <2>1 DEF Held, Copying
  <2>. QED
    BY <1>1, <2>2, <2>3, MoveKeepsLocks
<1>. QED
  BY <1>2, <1>3, <1>4 DEF Nearest, Free

\* While it copies, a call keeps its start slot from step to step.
LEMMA CopyingKeepsLocks ==
  ASSUME LInv, NEW r \in Readers, call[r].pc \in Copying,
         NEW d, Continue(r, d, {}, {}), d.pc \in Copying, d.start = call[r].start
  PROVE  LocksOK'
<1>1. Held(d) = (Holds(r) \cup {}) \ {}
  BY DEF Held, Holds
<1>. QED
  BY <1>1, MoveKeepsLocks

\* Until the last table is copied the start slot stays locked and no other is.
LEMMA CopyStepsKeepLocks ==
  ASSUME LInv, NEW r \in Readers,
         CopyStart(r) \/ PeekBefore(r) \/ LockBefore(r) \/ LockAfter(r)
  PROVE  LocksOK'
<1> DEFINE c == call[r]
<1>1. c \in Call
  BY CallTyped DEF LInv
<1>2. CASE CopyStart(r)
  <2>1. PICK n, b, a, all :
          \/ Continue(r, [c EXCEPT !.pc = "before", !.cur = n, !.before = b, !.after = a,
                                   !.data = all], {}, {})
          \/ Fail("null table read")
          \/ Fail("freed table used")
    BY <1>2 DEF CopyStart
  <2> DEFINE d == [c EXCEPT !.pc = "before", !.cur = n, !.before = b, !.after = a,
                            !.data = all]
  <2>2. d.pc = "before" /\ d.start = c.start
    <3>. HIDE DEF c
    <3>. QED
      BY <1>1 DEF Call
  <2>3. c.pc \in Copying /\ d.pc \in Copying
    BY <1>2, <2>2 DEF CopyStart, Copying
  <2>. HIDE DEF d
  <2>. QED
    BY <2>1, <2>2, <2>3, CopyingKeepsLocks, FailKeepsLocks DEF d
<1>3. CASE PeekBefore(r)
  <2>1. c.pc \in Copying
    BY <1>3 DEF PeekBefore, Copying
  <2>2. CASE Continue(r, [c EXCEPT !.cur = @ - 1], {}, {})
    <3> DEFINE d == [c EXCEPT !.cur = @ - 1]
    <3>1. d.pc = c.pc /\ d.start = c.start
      <4>. HIDE DEF c
      <4>. QED
        BY <1>1 DEF Call
    <3>. HIDE DEF d
    <3>. QED
      BY <2>1, <2>2, <3>1, CopyingKeepsLocks DEF d
  <2>3. CASE Continue(r, [c EXCEPT !.pc = "lockBefore", !.t = ptr[c.cur]], {}, {})
    <3> DEFINE d == [c EXCEPT !.pc = "lockBefore", !.t = ptr[c.cur]]
    <3>1. d.pc = "lockBefore" /\ d.start = c.start
      <4>. HIDE DEF c
      <4>. QED
        BY <1>1 DEF Call
    <3>2. d.pc \in Copying
      BY <3>1 DEF Copying
    <3>. HIDE DEF d
    <3>. QED
      BY <2>1, <2>3, <3>1, <3>2, CopyingKeepsLocks DEF d
  <2>4. CASE Continue(r, [c EXCEPT !.pc = "after", !.cur = c.start[1] + 1], {}, {})
    <3> DEFINE d == [c EXCEPT !.pc = "after", !.cur = c.start[1] + 1]
    <3>1. d.pc = "after" /\ d.start = c.start
      <4>. HIDE DEF c
      <4>. QED
        BY <1>1 DEF Call
    <3>2. d.pc \in Copying
      BY <3>1 DEF Copying
    <3>. HIDE DEF d
    <3>. QED
      BY <2>1, <2>4, <3>1, <3>2, CopyingKeepsLocks DEF d
  <2>. QED
    BY <1>3, <2>2, <2>3, <2>4 DEF PeekBefore
<1>4. CASE LockBefore(r)
  <2>1. PICK n, b, all :
          \/ Continue(r, [c EXCEPT !.pc = "before", !.cur = n, !.before = b, !.data = all],
                      {}, {})
          \/ Fail("freed table used")
    BY <1>4 DEF LockBefore
  <2> DEFINE d == [c EXCEPT !.pc = "before", !.cur = n, !.before = b, !.data = all]
  <2>2. d.pc = "before" /\ d.start = c.start
    <3>. HIDE DEF c
    <3>. QED
      BY <1>1 DEF Call
  <2>3. c.pc \in Copying /\ d.pc \in Copying
    BY <1>4, <2>2 DEF LockBefore, Copying
  <2>. HIDE DEF d
  <2>. QED
    BY <2>1, <2>2, <2>3, CopyingKeepsLocks, FailKeepsLocks DEF d
<1>5. CASE LockAfter(r)
  <2>1. PICK n, a, all :
          \/ Continue(r, [c EXCEPT !.pc = "after", !.cur = n, !.after = a, !.data = all],
                      {}, {})
          \/ Fail("freed table used")
    BY <1>5 DEF LockAfter
  <2> DEFINE d == [c EXCEPT !.pc = "after", !.cur = n, !.after = a, !.data = all]
  <2>2. d.pc = "after" /\ d.start = c.start
    <3>. HIDE DEF c
    <3>. QED
      BY <1>1 DEF Call
  <2>3. c.pc \in Copying /\ d.pc \in Copying
    BY <1>5, <2>2 DEF LockAfter, Copying
  <2>. HIDE DEF d
  <2>. QED
    BY <2>1, <2>2, <2>3, CopyingKeepsLocks, FailKeepsLocks DEF d
<1>. QED
  BY <1>2, <1>3, <1>4, <1>5

\* With the last table copied the start slot is unlocked.
LEMMA PeekAfterKeepsLocks ==
  ASSUME LInv, NEW r \in Readers, PeekAfter(r)
  PROVE  LocksOK'
<1> DEFINE c == call[r]
<1>1. c \in Call /\ CallOK(c) /\ c.pc = "after" /\ c.pc \in Copying /\ Holds(r) = {c.start[1]}
  BY CallTyped DEF LInv, PeekAfter, Copying, Holds
<1>2. CASE Continue(r, [c EXCEPT !.cur = @ + 1], {}, {})
  <2> DEFINE d == [c EXCEPT !.cur = @ + 1]
  <2>1. d.pc = c.pc /\ d.start = c.start
    <3>. HIDE DEF c
    <3>. QED
      BY <1>1 DEF Call
  <2>. HIDE DEF d
  <2>. QED
    BY <1>1, <1>2, <2>1, CopyingKeepsLocks DEF d
<1>3. CASE Continue(r, [c EXCEPT !.pc = "lockAfter", !.t = ptr[c.cur]], {}, {})
  <2> DEFINE d == [c EXCEPT !.pc = "lockAfter", !.t = ptr[c.cur]]
  <2>1. d.pc = "lockAfter" /\ d.start = c.start
    <3>. HIDE DEF c
    <3>. QED
      BY <1>1 DEF Call
  <2>2. d.pc \in Copying
    BY <2>1 DEF Copying
  <2>. HIDE DEF d
  <2>. QED
    BY <1>1, <1>3, <2>1, <2>2, CopyingKeepsLocks DEF d
<1>4. CASE Continue(r, [c EXCEPT !.pc = "answered", !.data = Sorted(@)], {}, {c.start[1]})
  <2> DEFINE d == [c EXCEPT !.pc = "answered", !.data = Sorted(@)]
  <2>1. d.pc = "answered"
    <3>. HIDE DEF c
    <3>. QED
      BY <1>1 DEF Call
  <2>2. Continue(r, d, {}, {c.start[1]})
    BY <1>4
  <2>. HIDE DEF c, d
  <2>3. Held(d) = {}
    BY <2>1 DEF Held, Copying
  <2>. QED
    BY <1>1, <2>2, <2>3, MoveKeepsLocks
<1>. QED
  BY <1>2, <1>3, <1>4 DEF PeekAfter

\* A step of a call that keeps no slot, before and after, leaves the locks.
LEMMA IdleKeepsLocks ==
  ASSUME LInv, NEW r \in Readers, call[r].pc \notin Copying,
         NEW d, Continue(r, d, {}, {}), d.pc \notin Copying
  PROVE  LocksOK'
<1>1. Held(d) = (Holds(r) \cup {}) \ {}
  BY DEF Held, Holds
<1>. QED
  BY <1>1, MoveKeepsLocks

\* An insert or a delete needs its slot free: it only comes into the middle of
\* a delete whose slot was unlocked.
LEMMA UpdatesKeepLocks ==
  ASSUME LInv, NEW slot \in Slots, NEW p, NEW S, Fill(slot, S) \/ Delete(slot, p)
  PROVE  LocksOK'
<1>1. /\ call' = call /\ deletes' = deletes /\ locked' = locked /\ robbed' = robbed
      /\ slot \notin locked /\ torn' = (torn \/ DeletesIn(slot) # {})
  BY DEF Fill, Delete, Locks, Free
<1>2. DeletesIn(slot) # {} => slot \in robbed
  BY <1>1 DEF LInv, LocksOK
<1>. QED
  BY <1>1, <1>2, SameLocks

\* The deletes in a slot when one of them goes on.
LEMMA DeletesMove ==
  ASSUME HeapOK, NEW u \in Updaters, NEW d, deletes' = [deletes EXCEPT ![u] = d],
         NEW s \in Slots
  PROVE  /\ (DeletesIn(s))' \subseteq Updaters
         /\ u \in (DeletesIn(s))' <=> d.at # "none" /\ d.slot = s
         /\ \A v \in Updaters \ {u} : v \in (DeletesIn(s))' <=> v \in DeletesIn(s)
<1>1. \A v \in Updaters : deletes'[v] = IF v = u THEN d ELSE deletes[v]
  BY DEF HeapOK
<1>. QED
  BY <1>1 DEF DeletesIn

\* A delete locks its slot.
LEMMA DeleteLastKeepsLocks ==
  ASSUME LInv, NEW u \in Updaters, deletes[u] = NoDelete,
         NEW slot \in Slots, NEW p, DeleteLast(u, slot, p)
  PROVE  LocksOK'
<1> DEFINE d == [at |-> "freed", slot |-> slot, t |-> ptr[slot]]
<1>1. /\ deletes' = [deletes EXCEPT ![u] = d] /\ locked' = locked \cup {slot}
      /\ robbed' = robbed /\ call' = call
      /\ slot \notin locked /\ torn' = (torn \/ DeletesIn(slot) # {})
  BY DEF DeleteLast, Locks, Free
<1>2. /\ \A r \in Readers : (Holds(r))' = Holds(r)
      /\ locked \subseteq Slots /\ HeapOK
  BY <1>1 DEF Holds, LInv, IInv, HeapOK
<1>3. d.at # "none" /\ d.slot = slot
  OBVIOUS
<1>4. \A s \in Slots : u \notin DeletesIn(s)
  BY DEF DeletesIn, NoDelete
<1> HIDE DEF d
<1>5. \A s \in Slots : (DeletesIn(s))' = IF s = slot THEN DeletesIn(s) \cup {u} ELSE DeletesIn(s)
  <2>. SUFFICES ASSUME NEW s \in Slots
                PROVE  (DeletesIn(s))' = IF s = slot THEN DeletesIn(s) \cup {u} ELSE DeletesIn(s)
    OBVIOUS
  <2>1. /\ (DeletesIn(s))' \subseteq Updaters
        /\ u \in (DeletesIn(s))' <=> d.at # "none" /\ d.slot = s
        /\ \A v \in Updaters \ {u} : v \in (DeletesIn(s))' <=> v \in DeletesIn(s)
    BY <1>1, <1>2, DeletesMove
  <2>2. DeletesIn(s) \subseteq Updaters
    BY DEF DeletesIn
  <2>. QED
    BY <1>3, <1>4, <2>1, <2>2
<1>6. /\ DeletesIn(slot) # {} => slot \in robbed
      /\ slot \notin robbed => \A r \in Readers : slot \notin Holds(r)
  BY <1>1 DEF LInv, LocksOK
<1>7. MutualExclusion'
  <2>1. ASSUME NEW s \in Slots \ robbed
        PROVE  /\ \A r \in Readers : s \in Holds(r) => (DeletesIn(s))' = {}
               /\ \A v, w \in (DeletesIn(s))' : v = w
    <3>1. CASE s = slot
      BY <1>5, <1>6, <3>1
    <3>2. CASE s # slot
      BY <1>5, <3>2 DEF LInv, LocksOK, MutualExclusion
    <3>. QED
      BY <3>1, <3>2
  <2>2. /\ torn' => robbed' # {}
        /\ \A s \in Slots \ robbed : \A r, q \in Readers : r # q => s \notin Holds(r) \cap Holds(q)
    BY <1>1, <1>6 DEF LInv, LocksOK, MutualExclusion
  <2>. QED
    BY <1>1, <1>2, <2>1, <2>2 DEF MutualExclusion
<1>. QED
  BY <1>1, <1>2, <1>5, <1>7 DEF LInv, LocksOK

\* With its pointer cleared a delete still is where it was.
LEMMA ClearPointerKeepsLocks ==
  ASSUME LInv, NEW u \in Updaters, ClearPointer(u)
  PROVE  LocksOK'
<1> DEFINE d == [deletes[u] EXCEPT !.at = "cleared"]
<1>1. /\ deletes' = [deletes EXCEPT ![u] = d] /\ locked' = locked
      /\ robbed' = robbed /\ call' = call /\ torn' = torn /\ deletes[u].at = "freed"
  BY DEF ClearPointer, history
<1>2. /\ \A r \in Readers : (Holds(r))' = Holds(r)
      /\ locked \subseteq Slots /\ HeapOK /\ deletes[u] \in DeleteOf
  BY <1>1 DEF Holds, LInv, IInv, HeapOK
<1>3. d.at # "none" /\ d.slot = deletes[u].slot
  BY <1>2 DEF DeleteOf
<1> HIDE DEF d
<1>4. \A s \in Slots : (DeletesIn(s))' = DeletesIn(s)
  <2>. SUFFICES ASSUME NEW s \in Slots PROVE (DeletesIn(s))' = DeletesIn(s)
    OBVIOUS
  <2>1. /\ (DeletesIn(s))' \subseteq Updaters
        /\ u \in (DeletesIn(s))' <=> d.at # "none" /\ d.slot = s
        /\ \A v \in Updaters \ {u} : v \in (DeletesIn(s))' <=> v \in DeletesIn(s)
    BY <1>1, <1>2, DeletesMove
  <2>2. DeletesIn(s) \subseteq Updaters /\ (u \in DeletesIn(s) <=> d.slot = s)
    BY <1>1, <1>3 DEF DeletesIn
  <2>. QED
    BY <1>3, <2>1, <2>2
<1>5. MutualExclusion'
  BY <1>1, <1>2, <1>4 DEF LInv, LocksOK, MutualExclusion
<1>. QED
  BY <1>1, <1>2, <1>4, <1>5 DEF LInv, LocksOK

\* A delete unlocks its own slot, in the end.
LEMMA WipeKeepsLocks ==
  ASSUME LInv, NEW u \in Updaters, Wipe(u)
  PROVE  LocksOK'
<1> DEFINE slot == deletes[u].slot
<1>1. /\ deletes' = [deletes EXCEPT ![u] = NoDelete] /\ locked' = locked \ {slot}
      /\ robbed' = robbed /\ call' = call /\ torn' = torn /\ deletes[u].at = "cleared"
  BY DEF Wipe, history
<1>2. /\ \A r \in Readers : (Holds(r))' = Holds(r)
      /\ locked \subseteq Slots /\ HeapOK /\ deletes[u] \in DeleteOf
  BY <1>1 DEF Holds, LInv, IInv, HeapOK
<1>3. slot \in Slots
  BY <1>2 DEF DeleteOf
<1>4. NoDelete.at = "none"
  BY DEF NoDelete
<1>5. u \in DeletesIn(slot) /\ \A s \in Slots : DeletesIn(s) \subseteq Updaters /\ (u \in DeletesIn(s) => s = slot)
  BY <1>1 DEF DeletesIn
<1>. HIDE DEF slot
<1>6. \A s \in Slots : (DeletesIn(s))' = DeletesIn(s) \ {u}
  <2>. SUFFICES ASSUME NEW s \in Slots PROVE (DeletesIn(s))' = DeletesIn(s) \ {u}
    OBVIOUS
  <2> DEFINE d == NoDelete
  <2>1. deletes' = [deletes EXCEPT ![u] = d] /\ d.at = "none"
    BY <1>1, <1>4
  <2>. HIDE DEF d
  <2>2. /\ (DeletesIn(s))' \subseteq Updaters
        /\ u \in (DeletesIn(s))' <=> d.at # "none" /\ d.slot = s
        /\ \A v \in Updaters \ {u} : v \in (DeletesIn(s))' <=> v \in DeletesIn(s)
    BY <1>2, <2>1, DeletesMove
  <2>. QED
    BY <1>5, <2>1, <2>2
<1>7. slot \notin robbed => DeletesIn(slot) = {u} /\ \A r \in Readers : slot \notin Holds(r)
  BY <1>3, <1>5 DEF LInv, LocksOK, MutualExclusion
<1>8. MutualExclusion'
  BY <1>1, <1>2, <1>6 DEF LInv, LocksOK, MutualExclusion
<1>9. \A s \in Slots \ robbed : (DeletesIn(s))' # {} => s \in locked'
  BY <1>1, <1>6, <1>7 DEF LInv, LocksOK
<1>10. \A r \in Readers : \A s \in Holds(r) \ robbed : s \in locked'
  BY <1>1, <1>7 DEF LInv, LocksOK
<1>11. \A s \in locked' : (DeletesIn(s))' # {} \/ \E r \in Readers : s \in Holds(r)
  BY <1>1, <1>2, <1>5, <1>6 DEF LInv, LocksOK
<1>. QED
  BY <1>1, <1>2, <1>8, <1>9, <1>10, <1>11 DEF LocksOK

\* A refused call takes a lock away, of which robbed keeps account.
LEMMA BeginRefusedKeepsLocks ==
  ASSUME LInv, NEW r \in Readers, NEW req \in Requests, BeginRefused(r, req)
  PROVE  LocksOK'
<1> DEFINE slot == req.slot
<1>1. /\ deletes' = deletes /\ call' = call /\ torn' = torn
      /\ locked' = locked \ {slot} /\ robbed' = robbed \cup ({slot} \cap locked)
  BY DEF BeginRefused
<1>2. \A s \in Slots : (DeletesIn(s))' = DeletesIn(s)
  BY <1>1 DEF DeletesIn
<1>3. (\A q \in Readers : (Holds(q))' = Holds(q)) /\ locked \subseteq Slots
  BY <1>1 DEF Holds, LInv, IInv, HeapOK
<1>. HIDE DEF slot
<1>4. robbed \subseteq robbed'
  BY <1>1
<1>5. MutualExclusion'
  BY <1>1, <1>2, <1>3, <1>4 DEF LInv, LocksOK, MutualExclusion
<1>. QED
  BY <1>1, <1>2, <1>3, <1>4, <1>5 DEF LInv, LocksOK

\* What an updater does keeps the locks in order.
LEMMA UpdateKeepsLocks ==
  ASSUME LInv, NEW u \in Updaters, Update(u)
  PROVE  LocksOK'
<1>1. ASSUME NEW slot \in Slots,
             \/ \E p \in Postfixes : Enter(slot, p) \/ EnterHalf(slot, p)
             \/ EnterRefused(slot)
      PROVE  LocksOK'
  <2>1. PICK S \in SUBSET Postfixes : Fill(slot, S)
    BY <1>1, EnterOK DEF LInv
  <2>. QED
    BY <2>1, UpdatesKeepLocks
<1>2. ASSUME NEW slot \in Slots, NEW p \in Postfixes, Delete(slot, p) PROVE LocksOK'
  BY <1>2, UpdatesKeepLocks
<1>3. ASSUME NEW slot \in Slots, NEW p \in Postfixes, deletes[u] = NoDelete, DeleteLast(u, slot, p)
      PROVE  LocksOK'
  BY <1>3, DeleteLastKeepsLocks
<1>4. ASSUME NEW slot \in Slots, UseFreed(slot) PROVE LocksOK'
  BY <1>4, FailKeepsLocks DEF UseFreed
<1>. QED
  BY <1>1, <1>2, <1>3, <1>4, ClearPointerKeepsLocks, WipeKeepsLocks DEF Update

\* At first nothing is locked.
LEMMA LockedInit == Init => LInv
<1> SUFFICES ASSUME Init PROVE LocksOK
  BY InitOK DEF LInv
<1>1. \A r \in Readers : Holds(r) = {}
  BY DEF Init, Holds, NoCall, Copying
<1>2. \A s \in Slots : DeletesIn(s) = {}
  BY DEF Init, DeletesIn, NoDelete
<1>. QED
  BY <1>1, <1>2 DEF Init, LocksOK, MutualExclusion

\* Every step keeps the locks in order.
LEMMA LockedNext == LInv /\ [Next]_vars => LInv'
<1> SUFFICES ASSUME LInv, [Next]_vars PROVE LocksOK'
  BY NextOK DEF LInv
<1>1. CASE UNCHANGED vars
  <2>1. call' = call /\ deletes' = deletes /\ locked' = locked /\ robbed' = robbed /\ torn' = torn
    BY <1>1 DEF vars, history
  <2>. QED
    BY <2>1, SameLocks
<1>2. ASSUME NEW r \in Readers, Work(r) PROVE LocksOK'
  <2>1. CASE Return(r)
    <3>1. call[r].pc \notin Copying /\ NoCall.pc \notin Copying /\ Continue(r, NoCall, {}, {})
      BY <2>1 DEF Return, Copying, NoCall
    <3>. QED
      BY <3>1, IdleKeepsLocks
  <2>. QED
    BY <1>2, <2>1, SearchKeepsLocks, NearestKeepsLocks, CopyStepsKeepLocks,
       PeekAfterKeepsLocks DEF Work
<1>3. ASSUME NEW r \in Readers, NEW req \in Requests, Begin(r, req) PROVE LocksOK'
  <2>1. PICK nbr, asked, before, after, cur, t :
          Continue(r, [NoCall EXCEPT !.pc = "search", !.nbr = nbr, !.asked = asked,
                          !.before = before, !.after = after, !.cur = cur, !.t = t], {}, {})
    BY <1>3 DEF Begin
  <2> DEFINE d == [NoCall EXCEPT !.pc = "search", !.nbr = nbr, !.asked = asked,
                          !.before = before, !.after = after, !.cur = cur, !.t = t]
  <2>2. d.pc = "search"
    BY DEF NoCall
  <2>3. call[r].pc \notin Copying /\ d.pc \notin Copying
    BY <1>3, <2>2 DEF Begin, Copying
  <2>. HIDE DEF d
  <2>. QED
    BY <2>1, <2>3, IdleKeepsLocks DEF d
<1>. QED
  BY <1>1, <1>2, <1>3, BeginRefusedKeepsLocks, UpdateKeepsLocks DEF Next

(***************************************************************************)
(* lock_table, unlock_table: no two calls, nor a call and a delete, nor    *)
(* two deletes are in the critical section of one slot, and nothing comes  *)
(* into the middle of a delete, but for slots that a refused range_around  *)
(* has unlocked, which never locked them.                                  *)
(***************************************************************************)
THEOREM CallsExcludeEachOther == Spec => []MutualExclusion
<1>1. LInv => MutualExclusion
  BY DEF LInv, LocksOK
<1>. QED
  BY LockedInit, LockedNext, <1>1, PTL DEF Spec

(***************************************************************************)
(* nlkup_get_range_around keeps its start slot and waits for others: with  *)
(* any number of readers, calls in a circle, each waiting for what another *)
(* keeps, are the only ones stuck for good. No lock is left behind.        *)
(***************************************************************************)
THEOREM OnlyCirclesAreStuck == Spec => []StuckOnlyInCircle
<1>1. ASSUME LInv PROVE StuckOnlyInCircle
  <2> SUFFICES ASSUME NEW r0 \in Readers, Blocked(r0),
                      \A q \in Readers : call[q].pc = "idle" \/ Blocked(q),
                      \A u \in Updaters : deletes[u] = NoDelete
               PROVE  CircularWait
    BY DEF StuckOnlyInCircle
  <2> DEFINE circle == {q \in Readers : Blocked(q) /\ Holds(q) # {}}
  <2>1. ASSUME NEW r \in Readers, Blocked(r)
        PROVE  \E q \in circle : WaitsFor(r) \cap Holds(q) # {}
    <3>1. PICK s \in WaitsFor(r) : s \in locked
      BY <2>1 DEF Blocked
    <3>1a. DeletesIn(s) = {}
      BY DEF DeletesIn, NoDelete
    <3>2. PICK q \in Readers : s \in Holds(q)
      BY <1>1, <3>1, <3>1a DEF LInv, LocksOK
    <3>3. call[q].pc # "idle"
      BY <3>2 DEF Holds, Copying
    <3>. QED
      BY <3>1, <3>2, <3>3
  <2>2. ASSUME NEW r \in circle PROVE WaitsFor(r) \cap Holds(r) = {}
    <3> DEFINE c == call[r]
    <3>1. CallOK(c) /\ c \in Call /\ c.cur \in Int
      BY <1>1, CallTyped, SlotAssumption DEF LInv
    <3>2. CASE c.pc \in {"lockBefore", "lockAfter"}
      <4>1. c.cur # c.start[1]
        <5>. HIDE DEF c
        <5>1. c.start \in Slots \X (0..(Most - 1)) /\ (c.cur < c.start[1] \/ c.cur > c.start[1])
          BY <3>1, <3>2 DEF CallOK, Copying
        <5>2. c.start[1] \in Int
          BY <5>1, SlotAssumption DEF Slots
        <5>. QED
          BY <3>1, <5>1, <5>2
      <4>. QED
        BY <3>2, <4>1 DEF WaitsFor, Holds
    <3>3. CASE c.pc \notin {"lockBefore", "lockAfter"}
      <4>1. WaitsFor(r) = {} \/ Holds(r) = {}
        BY <3>3 DEF WaitsFor, Holds, Copying
      <4>. QED
        BY <4>1
    <3>. QED
      BY <3>2, <3>3
  <2>3. circle # {} /\ circle \in SUBSET Readers
    BY <2>1
  <2>4. \A r \in circle : \E q \in circle \ {r} : WaitsFor(r) \cap Holds(q) # {}
    <3>. SUFFICES ASSUME NEW r \in circle
                  PROVE  \E q \in circle \ {r} : WaitsFor(r) \cap Holds(q) # {}
      OBVIOUS
    <3>1. PICK q \in circle : WaitsFor(r) \cap Holds(q) # {}
      BY <2>1
    <3>2. q # r
      BY <2>2, <3>1
    <3>. QED
      BY <3>1, <3>2
  <2>. HIDE DEF circle
  <2>. QED
    BY <2>3, <2>4 DEF CircularWait
<1>. QED
  BY LockedInit, LockedNext, <1>1, PTL DEF Spec

\* No entries.
LEMMA NoEntries == InOrder({}, <) = << >>
<1>1. Cardinality({}) = 0
  BY FS_EmptySet
<1>. QED
  BY <1>1 DEF InOrder

\* The table of a slot is what is at the address the slot points to.
LEMMA SameTable ==
  ASSUME NEW slot \in Slots, ptr'[slot] = ptr[slot],
         ptr[slot] # NULL => heap'[ptr[slot]] = heap[ptr[slot]]
  PROVE  Table(slot)' = Table(slot)
<1>1. CASE ptr[slot] = NULL
  BY <1>1 DEF Table
<1>2. CASE ptr[slot] # NULL
  <2>1. Entries(ptr[slot])' = InOrder(heap'[ptr'[slot]], <)
    BY DEF Entries, InOrder
  <2>2. Entries(ptr[slot]) = InOrder(heap[ptr[slot]], <)
    BY DEF Entries
  <2>3. heap'[ptr'[slot]] = heap[ptr[slot]]
    BY <1>2
  <2>. QED
    BY <1>2, <2>1, <2>2, <2>3 DEF Table
<1>. QED
  BY <1>1, <1>2

\* What becomes of a table when one address is written: it stays, unless that
\* address is its own.
LEMMA TableWritten ==
  ASSUME HeapOK, NEW slot \in Slots, NEW t, NEW S, heap' = [heap EXCEPT ![t] = S],
         ptr'[slot] = ptr[slot], ptr[slot] # t
  PROVE  Table(slot)' = Table(slot)
<1>1. ptr[slot] # NULL => heap'[ptr[slot]] = heap[ptr[slot]]
  BY DEF HeapOK
<1>. QED
  BY <1>1, SameTable

(***************************************************************************)
(* While nlkup_get_range_around keeps its start slot locked, no thread     *)
(* changes that slot's table, but for a delete in another slot that still  *)
(* writes to memory it has freed, and for requests after a refused call    *)
(* has unlocked this slot or the one of a delete in its middle.            *)
(***************************************************************************)
THEOREM StartTablesStable == Spec => StartTableStable
<1> DEFINE Kept(slot) ==
             Table(slot)' = Table(slot) \/ WipedLate(slot) \/ slot \in robbed \/ torn'
<1>1. ASSUME LInv, [Next]_vars
      PROVE  \A r \in Readers : \A slot \in Holds(r) : Kept(slot)
  <2> SUFFICES ASSUME NEW r \in Readers, NEW slot \in Holds(r), slot \notin robbed, ~torn'
               PROVE  Table(slot)' = Table(slot) \/ WipedLate(slot)
    OBVIOUS
  <2>1. /\ slot \in locked /\ slot \in Slots /\ HeapOK /\ PointersOK /\ locked \subseteq Slots
    BY <1>1 DEF LInv, LocksOK, IInv, HeapOK
  <2>2. DeletesIn(slot) = {}
    BY <1>1, <2>1 DEF LInv, LocksOK, MutualExclusion
  <2>3. ~Dangling(slot)
    BY <2>2 DEF Dangling
  <2>4. CASE ptr' = ptr /\ heap' = heap
    BY <2>1, <2>4, SameTable
  <2>5. ASSUME NEW q \in Readers, Work(q) PROVE ptr' = ptr /\ heap' = heap
    BY <2>5 DEF Work, Search, Nearest, CopyStart, PeekBefore, LockBefore, PeekAfter,
       LockAfter, Return, Continue, Fail, index
  <2>6. ASSUME NEW q \in Readers, NEW req \in Requests, Begin(q, req) \/ BeginRefused(q, req)
        PROVE  ptr' = ptr /\ heap' = heap
    BY <2>6 DEF Begin, BeginRefused, Continue, index
  <2>7. ASSUME NEW s \in Slots, NEW S, NEW p, Fill(s, S) \/ Delete(s, p) PROVE Table(slot)' = Table(slot)
    <3>1. s # slot
      BY <2>1, <2>7 DEF Fill, Delete, Locks, Free
    <3>2. ~torn /\ DeletesIn(s) = {}
      BY <2>7 DEF Fill, Delete, Locks
    <3>3. ~Dangling(s)
      BY <3>2 DEF Dangling
    <3>4. CASE ptr[s] # NULL
      <4>1. ptr' = ptr /\ \E T : heap' = [heap EXCEPT ![ptr[s]] = T]
        BY <2>7, <3>4 DEF Fill, Delete
      <4>2. ptr[slot] # ptr[s]
        BY <2>1, <2>3, <3>1, <3>2, <3>3, <3>4 DEF PointersOK, TablesDisjoint
      <4>. QED
        BY <2>1, <4>1, <4>2, TableWritten
    <3>5. CASE ptr[s] = NULL
      <4>1. PICK t \in FreeTables : ptr' = [ptr EXCEPT ![s] = t] /\ heap' = [heap EXCEPT ![t] = S]
        BY <2>7, <3>5 DEF Fill, Delete
      <4>2. t \notin allocated /\ t \in Int
        BY SlotAssumption DEF FreeTables, Live, TableIds
      <4>3. ptr[slot] # t
        BY <2>1, <2>3, <3>2, <4>2, NullAssumption DEF PointersOK
      <4>4. ptr'[slot] = ptr[slot]
        BY <2>1, <3>1, <4>1 DEF HeapOK
      <4>. QED
        BY <2>1, <4>1, <4>3, <4>4, TableWritten
    <3>. QED
      BY <3>4, <3>5
  <2>8. ASSUME NEW u \in Updaters, Wipe(u) PROVE Table(slot)' = Table(slot) \/ WipedLate(slot)
    <3> DEFINE t == deletes[u].t
    <3>1. /\ ptr' = ptr /\ heap' = [heap EXCEPT ![t] = {}] /\ deletes[u].at = "cleared"
          /\ deletes' = [deletes EXCEPT ![u] = NoDelete]
      BY <2>8 DEF Wipe
    <3>2. CASE ptr[slot] = t
      <4>1. u \in Updaters \ DeletesIn(slot) /\ deletes'[u] = NoDelete /\ t \in TableIds
        BY <2>1, <2>2, <3>1 DEF HeapOK, DeleteOf
      <4>2. heap'[t] = {} /\ t # NULL
        BY <2>1, <3>1, <4>1, NullAssumption, SlotAssumption DEF HeapOK, TableIds
      <4>3. Entries(ptr[slot])' = InOrder(heap'[ptr'[slot]], <)
        BY DEF Entries, InOrder
      <4>4. heap'[ptr'[slot]] = {} /\ ptr'[slot] # NULL
        BY <3>1, <3>2, <4>2
      <4>5. Table(slot)' = << >>
        BY <4>3, <4>4, NoEntries DEF Table
      <4>. QED
        BY <3>1, <3>2, <4>1, <4>5 DEF WipedLate
    <3>3. CASE ptr[slot] # t
      BY <2>1, <3>1, <3>3, TableWritten
    <3>. QED
      BY <3>2, <3>3
  <2>9. ASSUME NEW u \in Updaters, ClearPointer(u) PROVE Table(slot)' = Table(slot)
    <3>1. /\ ptr' = [ptr EXCEPT ![deletes[u].slot] = NULL] /\ heap' = heap
          /\ deletes[u].at = "freed"
      BY <2>9 DEF ClearPointer
    <3>2. deletes[u].slot # slot
      BY <2>2, <3>1 DEF DeletesIn
    <3>. QED
      BY <2>1, <3>1, <3>2, SameTable DEF HeapOK
  <2>10. ASSUME NEW u \in Updaters, Update(u) PROVE Table(slot)' = Table(slot) \/ WipedLate(slot)
    <3>1. ASSUME NEW s \in Slots,
                 \/ \E p \in Postfixes : Enter(s, p) \/ EnterHalf(s, p)
                 \/ EnterRefused(s)
          PROVE  Table(slot)' = Table(slot)
      <4>1. PICK S \in SUBSET Postfixes : Fill(s, S)
        BY <1>1, <3>1, EnterOK DEF LInv
      <4>. QED
        BY <2>7, <4>1
    <3>2. ASSUME NEW s \in Slots, NEW p, DeleteLast(u, s, p) PROVE ptr' = ptr /\ heap' = heap
      BY <3>2 DEF DeleteLast
    <3>3. ASSUME NEW s \in Slots, UseFreed(s) PROVE ptr' = ptr /\ heap' = heap
      BY <3>3 DEF UseFreed, Fail, index
    <3>. QED
      BY <2>4, <2>7, <2>8, <2>9, <2>10, <3>1, <3>2, <3>3 DEF Update
  <2>11. CASE UNCHANGED vars
    BY <2>4, <2>11 DEF vars, index
  <2>. QED
    BY <1>1, <2>4, <2>5, <2>6, <2>10, <2>11 DEF Next
<1>. QED
  BY LockedInit, LockedNext, <1>1, PTL DEF Spec, StartTableStable

-----------------------------------------------------------------------------
\* All numbers, table by table.

AtMost(s) == {n \in Stored : n[1] <= s}
AtSlot(s) == IF ptr[s] = NULL THEN {} ELSE heap[ptr[s]]

Tables == [s \in Slots |-> Table(s)]
Uptos  == [s \in -1..LastSlot |-> Cardinality(AtMost(s))]

\* The numbers of a slot follow all those of the slots below it.
Blocks(all, tbl, upto) ==
  /\ all \in Seq(Numbers)
  /\ \A i, j \in 1..Len(all) : all[i] = all[j] => i = j
  /\ tbl \in [Slots -> Seq(Postfixes)]
  /\ upto \in [-1..LastSlot -> 0..Len(all)]
  /\ upto[-1] = 0 /\ upto[LastSlot] = Len(all)
  /\ \A s \in Slots : upto[s] = upto[s - 1] + Len(tbl[s])
  /\ \A s \in Slots : \A k \in 1..Len(tbl[s]) : all[upto[s - 1] + k] = <<s, tbl[s][k]>>

\* There are finitely many numbers.
LEMMA NumbersFinite == IsFiniteSet(Numbers)
<1>1. IsFiniteSet(Slots)
  <2>1. 0 \in Int /\ LastSlot \in Int
    BY SlotAssumption
  <2>. QED
    BY <2>1, FS_Interval DEF Slots
<1>. QED
  BY <1>1, RankAssumption, FS_Product DEF Numbers

\* The postfixes of one slot as numbers.
LEMMA AtSlotPairs ==
  ASSUME HeapOK, NEW s \in Slots, NEW P, P \subseteq AtSlot(s)
  PROVE  /\ {s} \X P \subseteq Stored /\ IsFiniteSet({s} \X P)
         /\ Cardinality({s} \X P) = Cardinality(P) /\ Cardinality(P) \in Nat
<1>1. P \subseteq Postfixes /\ {s} \X P \subseteq Stored
  BY DEF AtSlot, Stored, HeapOK
<1>2. IsFiniteSet(P) /\ Cardinality(P) \in Nat
  BY <1>1, PostfixesBounded, SizeOfPostfixes
<1>3. IsFiniteSet({s}) /\ Cardinality({s}) = 1
  BY FS_Singleton
<1>4. IsFiniteSet({s} \X P) /\ Cardinality({s} \X P) = Cardinality({s}) * Cardinality(P)
  BY <1>2, <1>3, FS_Product
<1>5. \A k \in Nat : 1 * k = k
  OBVIOUS
<1>. QED
  BY <1>1, <1>2, <1>3, <1>4, <1>5

\* The stored numbers up to a slot are some of those stored.
LEMMA StoredParts ==
  ASSUME HeapOK
  PROVE  /\ Stored \subseteq Numbers /\ IsFiniteSet(Stored) /\ Cardinality(Stored) \in Nat
         /\ \A s \in -1..LastSlot : /\ IsFiniteSet(AtMost(s))
                                    /\ Cardinality(AtMost(s)) \in 0..Cardinality(Stored)
         /\ AtMost(-1) = {} /\ AtMost(LastSlot) = Stored
<1>1. Stored \subseteq Numbers
  BY DEF Stored, Numbers
<1>2. IsFiniteSet(Stored) /\ Cardinality(Stored) \in Nat
  BY <1>1, NumbersFinite, FS_Subset, FS_CardinalityType
<1>3. ASSUME NEW s \in -1..LastSlot
      PROVE  IsFiniteSet(AtMost(s)) /\ Cardinality(AtMost(s)) \in 0..Cardinality(Stored)
  <2>1. AtMost(s) \subseteq Stored
    BY DEF AtMost
  <2>2. IsFiniteSet(AtMost(s)) /\ Cardinality(AtMost(s)) <= Cardinality(Stored)
    BY <1>2, <2>1, FS_Subset
  <2>3. Cardinality(AtMost(s)) \in Nat
    BY <2>2, FS_CardinalityType
  <2>. QED
    BY <1>2, <2>2, <2>3
<1>4. \A n \in Stored : n[1] \in 0..LastSlot
  BY DEF Stored, Slots
<1>5. AtMost(-1) = {} /\ AtMost(LastSlot) = Stored
  BY <1>4, SlotAssumption DEF AtMost
<1>. QED
  BY <1>1, <1>2, <1>3, <1>5

\* The table of a slot lists what is at the slot.
LEMMA TableLists ==
  ASSUME HeapOK, NEW s \in Slots
  PROVE  /\ Table(s) \in Seq(Postfixes) /\ Len(Table(s)) \in Nat
         /\ Len(Table(s)) = Cardinality(AtSlot(s))
         /\ AtSlot(s) \subseteq Postfixes
         /\ \A k \in 1..Len(Table(s)) :
              Table(s)[k] \in AtSlot(s) /\ Cardinality({q \in AtSlot(s) : q < Table(s)[k]}) = k - 1
<1>1. Table(s) \in Seq(Postfixes) /\ Len(Table(s)) \in Nat
  BY TableSorted, SizeOfPostfixes
<1>2. CASE ptr[s] = NULL
  <2>1. Table(s) = << >> /\ AtSlot(s) = {} /\ Len(<< >>) = 0
    BY <1>2 DEF Table, AtSlot
  <2>. QED
    BY <1>1, <2>1, FS_EmptySet
<1>3. CASE ptr[s] # NULL
  <2> DEFINE t == ptr[s]
             f == Table(s)
             P == AtSlot(s)
  <2>1. t \in TableIds /\ f = Entries(t) /\ P = heap[t]
    BY <1>3, TableSorted DEF AtSlot
  <2>2. /\ Len(f) = Cardinality(P)
        /\ \A i, j \in 1..Len(f) : i < j => f[i] < f[j]
        /\ \A i \in 1..Len(f) : f[i] \in P
        /\ \A p \in P : \E i \in 1..Len(f) : f[i] = p /\ Below(t, p) = i - 1
    <3>. HIDE DEF f, P, t
    <3>. QED
      BY <2>1, EntriesSorted
  <2>3. P \subseteq Postfixes /\ P \subseteq Int
    <3>. HIDE DEF P, t
    <3>1. heap[t] \in SUBSET Postfixes
      BY <2>1 DEF HeapOK
    <3>. QED
      BY <2>1, <3>1, RankAssumption
  <2>4. ASSUME NEW k \in 1..Len(f) PROVE Cardinality({q \in P : q < f[k]}) = k - 1
    <3>1. PICK i \in 1..Len(f) : f[i] = f[k] /\ Below(t, f[k]) = i - 1
      BY <2>2
    <3>2. i = k
      <4>0. Len(f) \in Nat
        BY <1>1
      <4>. HIDE DEF f, P, t
      <4>1. i \in Nat /\ k \in Nat /\ f[i] \in Int /\ f[k] \in Int
        <5>1. i \in Nat /\ k \in Nat
          BY <4>0
        <5>2. f[i] \in P /\ f[k] \in P
          BY <2>2
        <5>. QED
          BY <2>3, <5>1, <5>2
      <4>2. i < k \/ k < i \/ i = k
        BY <4>1
      <4>. QED
        BY <2>2, <3>1, <4>1, <4>2
    <3>3. Below(t, f[k]) = Cardinality({q \in P : q < f[k]})
      <4>. HIDE DEF f, P, t
      <4>. QED
        BY <2>1 DEF Below
    <3>. QED
      BY <3>1, <3>2, <3>3
  <2>. HIDE DEF f, P, t
  <2>. QED
    BY <1>1, <2>2, <2>3, <2>4 DEF f, P
<1>. QED
  BY <1>2, <1>3

\* All numbers in order are the tables in the order of their slots.
LEMMA BlocksOK ==
  ASSUME HeapOK
  PROVE  Blocks(AllNumbers, Tables, Uptos)
<1> DEFINE S == Stored
           f == AllNumbers
           N == Cardinality(S)
           R == Lower(S)
<1>1. S \subseteq Numbers /\ IsFiniteSet(S) /\ N \in Nat
  BY StoredParts
<1>2. StrictOrder(S, R) /\ f = Ranked(S, R)
  <2>1. f = InOrder(S, Precedes)
    BY DEF AllNumbers
  <2>. QED
    BY <1>1, <2>1, LowerOrders
<1>3. /\ f \in [1..N -> S]
      /\ \A i, j \in 1..N : i < j => <<f[i], f[j]>> \in R
      /\ \A x \in S : \E i \in 1..N : f[i] = x /\ Cardinality(Smaller(S, R, x)) = i - 1
  <2>. HIDE DEF S, f, R
  <2>. QED
    BY <1>1, <1>2, RankedSorts DEF N
<1>4. f \in Seq(Numbers) /\ Len(f) = N
  <2>. HIDE DEF S, f, R, N
  <2>1. f \in [1..N -> Numbers]
    BY <1>1, <1>3
  <2>. QED
    BY <1>1, <2>1
<1>5. \A i, j \in 1..N : f[i] = f[j] => i = j
  <2>. HIDE DEF S, f, R, N
  <2>1. SUFFICES ASSUME NEW i \in 1..N, NEW j \in 1..N, f[i] = f[j], i # j PROVE FALSE
    OBVIOUS
  <2>2. i < j \/ j < i
    BY <1>1, <2>1
  <2>. QED
    BY <1>2, <1>3, <2>1, <2>2 DEF StrictOrder
<1>6. Tables \in [Slots -> Seq(Postfixes)] /\ \A s \in Slots : Tables[s] = Table(s)
  BY TableLists DEF Tables
<1>7. /\ Uptos \in [-1..LastSlot -> 0..N]
      /\ \A s \in -1..LastSlot : Uptos[s] = Cardinality(AtMost(s))
      /\ Uptos[-1] = 0 /\ Uptos[LastSlot] = N
  <2>1. -1 \in -1..LastSlot /\ LastSlot \in -1..LastSlot
    BY SlotAssumption
  <2>2. \A s \in -1..LastSlot : Uptos[s] = Cardinality(AtMost(s))
    BY DEF Uptos
  <2>3. Uptos \in [-1..LastSlot -> 0..N]
    BY StoredParts DEF Uptos
  <2>4. Cardinality({}) = 0
    BY FS_EmptySet
  <2>. QED
    BY <2>1, <2>2, <2>3, <2>4, StoredParts
<1>8. ASSUME NEW s \in Slots
      PROVE  s \in -1..LastSlot /\ s - 1 \in -1..LastSlot /\ s \in Int
  BY SlotAssumption DEF Slots
<1>9. \A n \in S : n = <<n[1], n[2]>> /\ n[1] \in Int /\ n[2] \in Int /\ n[1] \in Slots
                   /\ n[2] \in AtSlot(n[1])
  <2>1. Slots \subseteq Int /\ Postfixes \subseteq Int
    BY RankAssumption, SlotAssumption DEF Slots
  <2>2. ASSUME NEW n \in S
        PROVE  n = <<n[1], n[2]>> /\ n[1] \in Slots /\ n[2] \in Postfixes /\ n[2] \in AtSlot(n[1])
    <3>1. n \in Slots \X Postfixes /\ ptr[n[1]] # NULL /\ n[2] \in heap[ptr[n[1]]]
      BY DEF Stored
    <3>. HIDE DEF S
    <3>. QED
      BY <3>1 DEF AtSlot
  <2>. QED
    BY <2>1, <2>2
<1>10. ASSUME NEW s \in Slots
       PROVE  Uptos[s] = Uptos[s - 1] + Len(Tables[s])
  <2> DEFINE A == AtMost(s - 1)
             B == {s} \X AtSlot(s)
  <2>1. AtMost(s) = A \cup B /\ A \cap B = {}
    <3>1. \A n \in S : n[1] <= s <=> (n[1] <= s - 1 \/ n[1] = s)
      BY <1>8, <1>9
    <3>2. \A n \in S : n[1] = s <=> n \in B
      BY <1>9
    <3>3. B \subseteq S
      BY AtSlotPairs
    <3>4. \A n \in S : ~(n[1] <= s - 1 /\ n[1] = s)
      BY <1>8, <1>9
    <3>. HIDE DEF S, B
    <3>. QED
      BY <3>1, <3>2, <3>3, <3>4 DEF AtMost, S
  <2>2. IsFiniteSet(A) /\ Cardinality(A) \in Nat /\ IsFiniteSet(B)
        /\ Cardinality(B) = Len(Table(s)) /\ Cardinality(B) \in Nat
    BY <1>8, StoredParts, AtSlotPairs, TableLists, FS_CardinalityType
  <2>. HIDE DEF A, B
  <2>3. Cardinality(AtMost(s)) = Cardinality(A) + Cardinality(B) - Cardinality({})
    BY <2>1, <2>2, FS_Union
  <2>4. Cardinality(AtMost(s)) = Cardinality(A) + Len(Table(s))
    BY <2>2, <2>3, FS_EmptySet
  <2>. QED
    BY <1>6, <1>7, <1>8, <2>4 DEF A
<1>11. ASSUME NEW s \in Slots, NEW k \in 1..Len(Tables[s])
       PROVE  f[Uptos[s - 1] + k] = <<s, Tables[s][k]>>
  <2> DEFINE p == Table(s)[k]
             x == <<s, p>>
             Q == {q \in AtSlot(s) : q < p}
             A == AtMost(s - 1)
             B == {s} \X Q
  <2>1. k \in 1..Len(Table(s)) /\ k \in Nat
    BY <1>6, TableLists
  <2>2. p \in AtSlot(s) /\ Cardinality(Q) = k - 1
    BY <2>1, TableLists
  <2>3. x \in S
    <3>1. {s} \X AtSlot(s) \subseteq S
      BY AtSlotPairs
    <3>. HIDE DEF S, p
    <3>. QED
      BY <2>2, <3>1
  <2>4. Smaller(S, R, x) = A \cup B /\ A \cap B = {}
    <3>0. x[1] = s /\ x[2] = p /\ p \in Int
      BY <1>9, <2>3
    <3>. HIDE DEF p, x
    <3>1. \A n \in S : n \in Smaller(S, R, x) <=> (n[1] <= s - 1 \/ (n[1] = s /\ n[2] < p))
      <4>1. \A n \in S : n \in Smaller(S, R, x) <=> Precedes(n, x)
        BY <2>3 DEF Smaller, Lower
      <4>2. \A n \in S : n[1] < s <=> n[1] <= s - 1
        BY <1>8, <1>9
      <4>. HIDE DEF S, R
      <4>. QED
        BY <3>0, <4>1, <4>2 DEF Precedes
    <3>2. \A n \in S : (n[1] = s /\ n[2] < p) <=> n \in B
      BY <1>9
    <3>3. B \subseteq S
      BY AtSlotPairs
    <3>4. \A n \in S : ~(n[1] <= s - 1 /\ n[1] = s)
      BY <1>8, <1>9
    <3>5. Smaller(S, R, x) \subseteq S /\ \A n \in S : n \in A <=> n[1] <= s - 1
      BY DEF Smaller, AtMost
    <3>6. A \subseteq S
      BY DEF AtMost
    <3>7. \A n \in B : n[1] = s
      OBVIOUS
    <3>. HIDE DEF S, B, R, A
    <3>. QED
      BY <3>1, <3>2, <3>3, <3>4, <3>5, <3>6, <3>7
  <2>5. IsFiniteSet(A) /\ Cardinality(A) \in Nat /\ IsFiniteSet(B) /\ Cardinality(B) = k - 1
    <3>1. Q \subseteq AtSlot(s)
      OBVIOUS
    <3>. HIDE DEF Q
    <3>. QED
      BY <1>8, <2>2, <3>1, StoredParts, AtSlotPairs, FS_CardinalityType
  <2>6. PICK i \in 1..N : f[i] = x /\ Cardinality(Smaller(S, R, x)) = i - 1
    <3>. HIDE DEF S, f, R, N, x
    <3>. QED
      BY <1>3, <2>3
  <2>. HIDE DEF A, B, S, R, N, f, x, p, Q
  <2>7. Cardinality(A \cup B) = Cardinality(A) + Cardinality(B) - Cardinality({})
    BY <2>4, <2>5, FS_Union
  <2>8. i - 1 = Cardinality(A) + (k - 1) /\ i \in Nat
    BY <1>1, <2>1, <2>4, <2>5, <2>6, <2>7, FS_EmptySet
  <2>9. i = Cardinality(A) + k
    BY <2>1, <2>5, <2>8
  <2>10. Uptos[s - 1] = Cardinality(A)
    BY <1>7, <1>8 DEF A
  <2>. QED
    BY <1>6, <2>6, <2>9, <2>10 DEF x, p
<1>. HIDE DEF f, N
<1>. QED
  BY <1>4, <1>5, <1>6, <1>7, <1>10, <1>11 DEF Blocks, f

-----------------------------------------------------------------------------
\* A reply when nothing is updated.

Part(all, lo, hi) == {all[k] : k \in lo..hi}

\* Where the start entry is among all numbers, and the ends of what a call
\* gathered around it.
Home(c, upto) == upto[c.start[1] - 1] + c.start[2] + 1
Lo(c, upto) == Home(c, upto) - (c.asked[1] - c.before)
Hi(c, upto) == Home(c, upto) + (c.asked[2] - c.after)

Around(c, all, upto) ==
  {all[k] : k \in {j \in 1..Len(all) : /\ j >= Home(c, upto) - c.asked[1]
                                       /\ j <= Home(c, upto) + c.asked[2]}}

Gathered(c, all, upto) ==
  /\ Members(c.data) = Part(all, Lo(c, upto), Hi(c, upto))
  /\ Len(c.data) = Hi(c, upto) - Lo(c, upto) + 1
  /\ 1 <= Lo(c, upto) /\ Lo(c, upto) <= Home(c, upto)
  /\ Home(c, upto) <= Hi(c, upto) /\ Hi(c, upto) <= Len(all)

(***************************************************************************)
(* What a call gathered is one piece of all numbers around its start.  It  *)
(* reaches down to the slot looked at next, or as far as was asked; then   *)
(* up likewise.                                                            *)
(***************************************************************************)
Exact(c, at, all, tbl, upto) ==
  /\ c.pc \in {"search", "lockBefore", "lockAfter"} => c.t = at[c.cur]
  /\ c.pc \in Copying \cup {"answered"} => c.start[2] < Len(tbl[c.start[1]])
  /\ c.pc \in {"before", "lockBefore", "after", "lockAfter"} => Gathered(c, all, upto)
  /\ c.pc \in {"before", "lockBefore"} =>
       /\ c.before = 0 \/ Lo(c, upto) = upto[c.cur] + 1
       /\ c.after = 0 \/ Hi(c, upto) = upto[c.start[1]]
  /\ c.pc \in {"after", "lockAfter"} =>
       /\ c.before = 0 \/ Lo(c, upto) = 1
       /\ c.after = 0 \/ Hi(c, upto) = upto[c.cur - 1]
  /\ c.pc = "lockBefore" => c.before > 0
  /\ c.pc = "lockAfter" => c.after > 0
  /\ c.pc = "answered" =>
       c.data = Ranked(Around(c, all, upto), Alpha(Around(c, all, upto)))

\* No table was freed, and the calls of Q are exact.
ExactOK(Q) ==
  /\ \A s \in Slots : ~Freed(ptr[s])
  /\ \A r \in Q : Exact(call[r], ptr, AllNumbers, Tables, Uptos)

XInv(Q) == Q \subseteq Readers /\ IInv /\ ExactOK(Q)

\* The calls of the quiet readers are exact.
HInv == IInv /\ quiet \subseteq Readers /\ (quiet # {} => ExactOK(quiet))

\* Two neighbouring parts of all numbers are one.
LEMMA PartsJoin ==
  ASSUME NEW all, NEW lo \in Int, NEW m \in Int, NEW hi \in Int, lo <= m + 1, m <= hi
  PROVE  Part(all, lo, m) \cup Part(all, m + 1, hi) = Part(all, lo, hi)
<1>1. lo..hi = (lo..m) \cup ((m + 1)..hi)
  OBVIOUS
<1>. QED
  BY <1>1 DEF Part

\* The data, and behind them all the entries from..to of the slot's table.
AddsAll(slot, from, to, data, res) ==
  /\ res \in Seq(Numbers) /\ Len(res) = Len(data) + (to + 1 - from)
  /\ Members(res) = Members(data)
       \cup {<<slot, Table(slot)[from + i]>> : i \in 1..(to + 1 - from)}

\* Without updates a copy has room for all it is asked for.
LEMMA CopiedAll ==
  ASSUME HeapOK, NEW c \in Call, c.asked # << >>, NEW slot \in Slots,
         NEW from \in Nat, NEW to \in Int, NEW data \in Seq(Numbers),
         from <= to + 1, to < Len(Table(slot)),
         Len(data) + (to + 1 - from) <= c.asked[1] + c.asked[2] + 1
  PROVE  AddsAll(slot, from, to, data, Copied(c, slot, from, to, data))
<1> DEFINE res  == Copied(c, slot, from, to, data)
           ents == Table(slot)
           new  == {<<slot, Table(slot)[from + i]>> : i \in 1..(to + 1 - from)}
<1>1. res \in Seq(Numbers) /\ Len(ents) \in Nat /\ Len(data) \in Nat
  <2>1. res \in Seq(Numbers)
    BY CopiedIs
  <2>2. Len(ents) \in Nat
    BY TableLists
  <2>3. Len(data) \in Nat
    OBVIOUS
  <2>. QED
    BY <2>1, <2>2, <2>3
<1>2. CASE from > to \/ ents = << >>
  <2>1. from = to + 1
    <3>1. CASE ents = << >>
      <4>1. Len(ents) = 0
        BY <3>1
      <4>. HIDE DEF ents
      <4>. QED
        BY <4>1 DEF ents
    <3>. QED
      BY <1>2, <3>1
  <2>2. res = data
    BY <1>2, CopiedIs
  <2>3. new = {} /\ Len(data) + (to + 1 - from) = Len(data)
    <3>1. 1..(to + 1 - from) = {}
      BY <2>1
    <3>. QED
      BY <1>1, <2>1, <3>1
  <2>. HIDE DEF res, new
  <2>. QED
    BY <1>1, <2>2, <2>3 DEF AddsAll, res, new
<1>3. CASE ~(from > to \/ ents = << >>)
  <2> DEFINE len  == Len(Table(slot))
             a    == Lesser(from, len - 1)
             b    == Lesser(to, len - 1)
             room == c.asked[1] + c.asked[2] + 1 - Len(data)
             n    == to + 1 - from
  <2>1. Appends(c, slot, from, to, data, res)
    BY <1>3, CopiedIs
  <2>2. len \in Nat /\ a = from /\ b = to
    <3>1. len \in Nat /\ to < len
      BY <1>1
    <3>. HIDE DEF len
    <3>. QED
      BY <1>3, <3>1 DEF Lesser
  <2>3. room \in Int /\ n <= room
    <3>1. c.asked[1] \in Nat /\ c.asked[2] \in Nat
      BY AskedTyped
    <3> DEFINE sum == c.asked[1] + c.asked[2] + 1
    <3>2. sum \in Int /\ room = sum - Len(data) /\ Len(data) + n <= sum /\ n \in Int
      <4>1. sum \in Int
        BY <3>1
      <4>2. n \in Int
        OBVIOUS
      <4>3. room = sum - Len(data)
        <5> DEFINE x == c.asked[1]
                   y == c.asked[2]
                   l == Len(data)
        <5>1. x \in Int /\ y \in Int /\ l \in Int /\ room = x + y + 1 - l /\ sum = x + y + 1
          BY <1>1, <3>1
        <5>. HIDE DEF x, y, l, room, sum
        <5>2. room = sum - l
          BY <5>1
        <5>. QED
          BY <5>2 DEF l
      <4>. QED
        BY <4>1, <4>2, <4>3
    <3>. HIDE DEF room, sum, n
    <3>. QED
      BY <1>1, <3>2
  <2>4. PICK k \in Nat : /\ b - a + 1 <= room => k = b - a + 1
                         /\ Extended(slot, data, res, a, k)
    <3>. HIDE DEF res
    <3>. QED
      BY <2>1 DEF Appends
  <2>5. k = n
    <3>1. n = b - a + 1
      BY <2>2
    <3>. HIDE DEF n, room, a, b
    <3>. QED
      BY <2>3, <2>4, <3>1
  <2>6. /\ Len(res) = Len(data) + n
        /\ \A i \in 1..Len(data) : res[i] = data[i]
        /\ \A i \in 1..n : res[Len(data) + i] = <<slot, ents[from + i]>>
    <3>. HIDE DEF res, ents, n, a, b
    <3>. QED
      BY <2>2, <2>4, <2>5 DEF Extended, ents
  <2>7. \A i \in 1..Len(res) : i \in 1..Len(data)
                               \/ (i - Len(data) \in 1..n /\ i = Len(data) + (i - Len(data)))
    <3>1. n \in Nat
      BY <2>4, <2>5
    <3>. HIDE DEF res, n
    <3>. QED
      BY <1>1, <2>6, <3>1
  <2>8. \A i \in 1..n : Len(data) + i \in 1..Len(res)
    <3>. HIDE DEF res, n
    <3>. QED
      BY <1>1, <2>4, <2>5, <2>6
  <2>9. \A i \in 1..Len(data) : i \in 1..Len(res)
    <3>. HIDE DEF res, n
    <3>. QED
      BY <1>1, <2>4, <2>5, <2>6
  <2>10. Members(res) \subseteq Members(data) \cup new
    <3>1. SUFFICES ASSUME NEW i \in 1..Len(res)
                   PROVE  res[i] \in Members(data) \cup new
      BY DEF Members
    <3>2. CASE i \in 1..Len(data)
      <4>. HIDE DEF res, new
      <4>. QED
        BY <2>6, <3>2 DEF Members
    <3>3. CASE i - Len(data) \in 1..n /\ i = Len(data) + (i - Len(data))
      <4> DEFINE j == i - Len(data)
      <4>1. j \in 1..n /\ res[i] = <<slot, ents[from + j]>>
        BY <2>6, <3>3
      <4>. HIDE DEF j, res
      <4>. QED
        BY <4>1
    <3>. QED
      BY <2>7, <3>2, <3>3
  <2>11. new \subseteq Members(res)
    <3>. SUFFICES ASSUME NEW i \in 1..n PROVE <<slot, ents[from + i]>> \in Members(res)
      OBVIOUS
    <3>. HIDE DEF res, ents, n
    <3>. QED
      BY <2>6, <2>8 DEF Members
  <2>12. Members(data) \subseteq Members(res)
    <3>. HIDE DEF res, ents, n
    <3>. QED
      BY <2>6, <2>9 DEF Members
  <2>. HIDE DEF res, new
  <2>. QED
    BY <1>1, <2>6, <2>10, <2>11, <2>12 DEF AddsAll, res, new
<1>. QED
  BY <1>2, <1>3

\* The entries of a table are a piece of all numbers.
LEMMA PartOfTable ==
  ASSUME HeapOK, NEW slot \in Slots, NEW from \in Nat, NEW to \in Int,
         from <= to + 1, to < Len(Table(slot))
  PROVE  {<<slot, Table(slot)[from + i]>> : i \in 1..(to + 1 - from)}
           = Part(AllNumbers, Uptos[slot - 1] + from + 1, Uptos[slot - 1] + to + 1)
<1> DEFINE all  == AllNumbers
           base == Uptos[slot - 1]
           new  == {<<slot, Table(slot)[from + i]>> : i \in 1..(to + 1 - from)}
           part == Part(all, base + from + 1, base + to + 1)
<1>1. /\ \A k \in 1..Len(Table(slot)) : all[base + k] = <<slot, Table(slot)[k]>>
      /\ Len(Table(slot)) \in Nat /\ base \in Int
  <2>1. Blocks(AllNumbers, Tables, Uptos) /\ Tables[slot] = Table(slot)
        /\ Len(Table(slot)) \in Nat
    BY BlocksOK, TableLists DEF Tables
  <2>2. slot - 1 \in -1..LastSlot
    BY SlotAssumption DEF Slots
  <2>3. base \in 0..Len(all)
    BY <2>1, <2>2 DEF Blocks
  <2>. QED
    BY <2>1, <2>3 DEF Blocks
<1>2. new \subseteq part
  <2>. SUFFICES ASSUME NEW i \in 1..(to + 1 - from)
                PROVE  <<slot, Table(slot)[from + i]>> \in part
    OBVIOUS
  <2> DEFINE k == base + (from + i)
  <2>1. from + i \in 1..Len(Table(slot))
    BY <1>1
  <2>2. all[k] = <<slot, Table(slot)[from + i]>>
    <3>. HIDE DEF base, all
    <3>. QED
      BY <1>1, <2>1
  <2>3. k \in (base + from + 1)..(base + to + 1)
    <3>. HIDE DEF base, all
    <3>. QED
      BY <1>1
  <2>. HIDE DEF k, base, all
  <2>. QED
    BY <2>2, <2>3 DEF Part
<1>3. part \subseteq new
  <2>. SUFFICES ASSUME NEW k \in (base + from + 1)..(base + to + 1)
                PROVE  all[k] \in new
    BY DEF Part
  <2> DEFINE i == k - base - from
  <2>. HIDE DEF base, all
  <2>1. i \in 1..(to + 1 - from) /\ from + i \in 1..Len(Table(slot)) /\ k = base + (from + i)
    BY <1>1
  <2>2. all[k] = <<slot, Table(slot)[from + i]>>
    <3>. HIDE DEF i
    <3>. QED
      BY <1>1, <2>1
  <2>. HIDE DEF i
  <2>. QED
    BY <2>1, <2>2
<1>. QED
  BY <1>2, <1>3

\* What the orders of the numbers depend on.
LEMMA SameNumbers ==
  ASSUME HeapOK, ptr' = ptr, heap' = heap
  PROVE  AllNumbers' = AllNumbers /\ Tables' = Tables /\ Uptos' = Uptos
<1>1. Stored' = Stored
  BY DEF Stored
<1>2. AllNumbers' = AllNumbers
  BY <1>1 DEF AllNumbers, InOrder, Precedes
<1>3. \A s \in Slots : Table(s)' = Table(s)
  BY SameTable
<1>4. Tables' = Tables
  BY <1>3 DEF Tables
<1>5. \A s : AtMost(s)' = AtMost(s)
  BY <1>1 DEF AtMost
<1>6. Uptos' = Uptos
  BY <1>5 DEF Uptos
<1>. QED
  BY <1>2, <1>4, <1>6

\* A step of a call moves no table: it is enough that what the call becomes is
\* exact, and that all other calls are.
LEMMA JoinExact ==
  ASSUME NEW Q, NEW r \in Readers, XInv(Q \ {r}), NEW c, NEW take, NEW release,
         Continue(r, c, take, release), Exact(c, ptr, AllNumbers, Tables, Uptos)
  PROVE  ExactOK(Q)'
<1>1. /\ ptr' = ptr /\ heap' = heap /\ allocated' = allocated /\ HeapOK
      /\ call' = [call EXCEPT ![r] = c] /\ call \in [Readers -> Call]
  BY DEF XInv, IInv, CallsOK, Continue, index
<1>2. AllNumbers' = AllNumbers /\ Tables' = Tables /\ Uptos' = Uptos
  BY <1>1, SameNumbers
<1>3. \A q \in Q : q \in Readers /\ call'[q] = IF q = r THEN c ELSE call[q]
  BY <1>1 DEF XInv
<1>4. \A q \in Q : Exact(call'[q], ptr, AllNumbers, Tables, Uptos)
  BY <1>3 DEF XInv, ExactOK
<1>5. \A q \in Q : Exact(call'[q], ptr', AllNumbers', Tables', Uptos')
  BY <1>1, <1>2, <1>4
<1>6. \A s \in Slots : (Freed(ptr[s]))' = Freed(ptr[s])
  BY <1>1 DEF Freed, Live
<1>. QED
  BY <1>1, <1>5, <1>6 DEF XInv, ExactOK

\* The same for a call that is one of the exact ones already.
LEMMA MoveExact ==
  ASSUME NEW Q, XInv(Q), NEW r \in Readers, NEW c, NEW take, NEW release,
         Continue(r, c, take, release), Exact(c, ptr, AllNumbers, Tables, Uptos)
  PROVE  ExactOK(Q)'
<1>1. XInv(Q \ {r})
  BY DEF XInv, ExactOK
<1>. QED
  BY <1>1, JoinExact

\* What changes no table and no call of Q leaves these exact.
LEMMA SameExact ==
  ASSUME NEW Q, XInv(Q), UNCHANGED index, \A q \in Q : call'[q] = call[q]
  PROVE  ExactOK(Q)'
<1>1. ptr' = ptr /\ heap' = heap /\ allocated' = allocated /\ HeapOK
  BY DEF XInv, IInv, index
<1>2. AllNumbers' = AllNumbers /\ Tables' = Tables /\ Uptos' = Uptos
  BY <1>1, SameNumbers
<1>3. \A q \in Q : Exact(call'[q], ptr', AllNumbers', Tables', Uptos')
  BY <1>1, <1>2 DEF XInv, ExactOK
<1>4. \A s \in Slots : (Freed(ptr[s]))' = Freed(ptr[s])
  BY <1>1 DEF Freed, Live
<1>. QED
  BY <1>1, <1>3, <1>4 DEF XInv, ExactOK

\* What ends the server changes no call.
LEMMA FailExact ==
  ASSUME NEW Q, XInv(Q), NEW what, Fail(what)
  PROVE  ExactOK(Q)'
BY SameExact DEF Fail

\* The numbers a call in the middle of its copy works with.
LEMMA HomeTyped ==
  ASSUME HeapOK, NEW c \in Call, c.start \in Slots \X (0..(Most - 1)), c.asked # << >>
  PROVE  /\ Uptos[c.start[1] - 1] \in 0..Len(AllNumbers) /\ c.start[2] \in Nat
         /\ c.start[1] \in Slots
         /\ c.before \in Nat /\ c.after \in Nat /\ c.asked[1] \in Nat /\ c.asked[2] \in Nat
         /\ Home(c, Uptos) \in Nat /\ Lo(c, Uptos) \in Int /\ Hi(c, Uptos) \in Int
<1>1. c.start[1] \in Slots /\ c.start[2] \in Nat
  BY SizeOfPostfixes
<1>2. c.start[1] - 1 \in -1..LastSlot
  BY <1>1, SlotAssumption DEF Slots
<1>3. Uptos[c.start[1] - 1] \in 0..Len(AllNumbers) /\ Len(AllNumbers) \in Nat
  <2>1. Uptos \in [-1..LastSlot -> 0..Len(AllNumbers)] /\ AllNumbers \in Seq(Numbers)
    BY BlocksOK DEF Blocks
  <2>. QED
    BY <1>2, <2>1
<1>4. c.before \in Nat /\ c.after \in Nat
  BY SlotAssumption, SizeOfPostfixes DEF Call
<1>5. c.asked[1] \in Nat /\ c.asked[2] \in Nat
  BY AskedTyped
<1> DEFINE base == Uptos[c.start[1] - 1]
           e == c.start[2]
           h == base + e + 1
<1>6. base \in Nat /\ e \in Nat
  BY <1>1, <1>3
<1>7. h \in Nat
  <2>. HIDE DEF base, e
  <2>. QED
    BY <1>6
<1>8. Home(c, Uptos) = h
  BY DEF Home
<1>. HIDE DEF h
<1>9. Lo(c, Uptos) \in Int /\ Hi(c, Uptos) \in Int
  BY <1>4, <1>5, <1>7, <1>8 DEF Lo, Hi
<1>. QED
  BY <1>1, <1>3, <1>4, <1>5, <1>7, <1>8, <1>9

\* Where the numbers of a slot are among all numbers.
LEMMA SlotFacts ==
  ASSUME HeapOK, NEW slot \in Slots
  PROVE  /\ Uptos[slot - 1] \in Nat /\ Uptos[slot] \in Nat /\ Len(AllNumbers) \in Nat
         /\ Uptos[slot] = Uptos[slot - 1] + Len(Table(slot))
         /\ Uptos[slot] <= Len(AllNumbers)
         /\ Len(Table(slot)) \in Nat /\ Tables[slot] = Table(slot)
<1>1. Blocks(AllNumbers, Tables, Uptos)
  BY BlocksOK
<1>2. slot \in -1..LastSlot /\ slot - 1 \in -1..LastSlot
  BY SlotAssumption DEF Slots
<1>3. Len(AllNumbers) \in Nat
  <2>1. AllNumbers \in Seq(Numbers)
    BY <1>1 DEF Blocks
  <2>. QED
    BY <2>1
<1>4. Uptos[slot - 1] \in 0..Len(AllNumbers) /\ Uptos[slot] \in 0..Len(AllNumbers)
  BY <1>1, <1>2 DEF Blocks
<1>5. Tables[slot] = Table(slot) /\ Len(Table(slot)) \in Nat
  BY TableLists DEF Tables
<1>6. Uptos[slot] = Uptos[slot - 1] + Len(Table(slot))
  BY <1>1, <1>5 DEF Blocks
<1>. QED
  BY <1>3, <1>4, <1>5, <1>6

\* What an exact call is while it copies.
LEMMA ExactTyped ==
  ASSUME NEW Q, XInv(Q), NEW r \in Q
  PROVE  /\ HeapOK /\ CallOK(call[r]) /\ DataOK(call[r]) /\ call[r] \in Call
         /\ call[r].data \in Seq(Numbers)
         /\ Exact(call[r], ptr, AllNumbers, Tables, Uptos)
BY CallTyped DEF XInv, IInv, ExactOK

\* A call starts exact.
LEMMA BeginExact ==
  ASSUME NEW Q, NEW r \in Readers, XInv(Q \ {r}), NEW req \in Requests, Begin(r, req)
  PROVE  ExactOK(Q)'
<1>1. PICK nbr, asked, before, after :
        Continue(r, [NoCall EXCEPT !.pc = "search", !.nbr = nbr, !.asked = asked,
                       !.before = before, !.after = after, !.cur = req.slot,
                       !.t = ptr[req.slot]], {}, {})
  BY DEF Begin
<1> DEFINE d == [NoCall EXCEPT !.pc = "search", !.nbr = nbr, !.asked = asked,
                       !.before = before, !.after = after, !.cur = req.slot,
                       !.t = ptr[req.slot]]
<1>2. d.pc = "search" /\ d.cur = req.slot /\ d.t = ptr[req.slot]
  BY DEF NoCall
<1>. HIDE DEF d
<1>3. Exact(d, ptr, AllNumbers, Tables, Uptos)
  BY <1>2 DEF Exact, Copying
<1>. QED
  BY <1>1, <1>3, JoinExact DEF d

\* An idle reader is exact.
LEMMA NoCallExact == Exact(NoCall, ptr, AllNumbers, Tables, Uptos)
BY DEF Exact, NoCall, Copying

\* The table that was peeked at is still that of the slot, so the number that
\* is found is the start.
LEMMA SearchExact ==
  ASSUME NEW Q, XInv(Q), NEW r \in Readers, r \in Q, Search(r)
  PROVE  ExactOK(Q)'
<1> DEFINE c == call[r]
           p == c.nbr[2]
           e == Below(c.t, p)
<1>1. /\ HeapOK /\ CallOK(c) /\ c \in Call /\ c.pc = "search"
      /\ Exact(c, ptr, AllNumbers, Tables, Uptos)
  BY ExactTyped DEF Search
<1>2. c.cur \in Slots /\ c.t = ptr[c.cur]
  <2>. HIDE DEF c
  <2>1. c.cur \in -1..(LastSlot + 1)
    BY <1>1 DEF Call
  <2>. QED
    BY <1>1, <2>1, SlotAssumption DEF CallOK, Exact, Slots
<1>3. CASE Fail("null table searched") \/ Fail("freed table used")
  BY <1>3, FailExact
<1>4. CASE /\ c.t # NULL /\ p \in heap[c.t]
           /\ Continue(r, [c EXCEPT !.pc = "copy", !.start = <<c.cur, e>>], {c.cur}, {})
  <2> DEFINE d == [c EXCEPT !.pc = "copy", !.start = <<c.cur, e>>]
  <2>1. e < Len(Tables[c.cur])
    <3>. HIDE DEF c
    <3>1. c.t \in TableIds /\ Table(c.cur) = Entries(c.t)
      BY <1>1, <1>2, <1>4, TableSorted
    <3>2. PICK i \in 1..Len(Entries(c.t)) : Below(c.t, p) = i - 1
      BY <1>1, <1>4, <3>1, EntriesSorted
    <3>3. Len(Entries(c.t)) \in Nat /\ Tables[c.cur] = Table(c.cur)
      BY <1>1, <1>2, <3>1, SlotFacts
    <3>. QED
      BY <3>1, <3>2, <3>3
  <2>2. Continue(r, d, {c.cur}, {})
    BY <1>4
  <2>. HIDE DEF e
  <2>3. d.pc = "copy" /\ d.start = <<c.cur, e>>
    <3>. HIDE DEF c
    <3>. QED
      BY <1>1 DEF Call
  <2>. HIDE DEF c, d
  <2>4. Exact(d, ptr, AllNumbers, Tables, Uptos)
    BY <2>1, <2>3 DEF Exact, Copying
  <2>. QED
    BY <2>2, <2>4, MoveExact
<1>5. CASE Continue(r, [c EXCEPT !.pc = "nearest", !.pos = e], {}, {})
  <2> DEFINE d == [c EXCEPT !.pc = "nearest", !.pos = e]
  <2>1. Continue(r, d, {}, {})
    BY <1>5
  <2>. HIDE DEF e
  <2>2. d.pc = "nearest"
    <3>. HIDE DEF c
    <3>. QED
      BY <1>1 DEF Call
  <2>. HIDE DEF c, d
  <2>3. Exact(d, ptr, AllNumbers, Tables, Uptos)
    BY <2>2 DEF Exact, Copying
  <2>. QED
    BY <2>1, <2>3, MoveExact
<1>. QED
  BY <1>3, <1>4, <1>5 DEF Search

\* An entry that find_nearest_entry finds is the start.
LEMMA NearestExact ==
  ASSUME NEW Q, XInv(Q), NEW r \in Readers, r \in Q, Nearest(r)
  PROVE  ExactOK(Q)'
<1> DEFINE c == call[r]
           len == Len(Table(c.cur))
           e == NearestInTable(len, c.pos)
<1>1. HeapOK /\ c \in Call /\ c.pc = "nearest"
  BY ExactTyped DEF Nearest
<1>2. CASE \/ Fail("slot past the index") \/ Fail("null table read")
           \/ Fail("freed table used")
  BY <1>2, FailExact
<1>3. CASE /\ c.cur \in Slots /\ e >= 0
           /\ Continue(r, [c EXCEPT !.pc = "copy", !.start = <<c.cur, e>>], {c.cur}, {})
  <2> DEFINE d == [c EXCEPT !.pc = "copy", !.start = <<c.cur, e>>]
             pos == c.pos
  <2>1. len \in Nat /\ Tables[c.cur] = Table(c.cur) /\ pos \in Int
    BY <1>1, <1>3, SlotFacts DEF Call
  <2>2. e < len
    <3>1. e = NearestInTable(len, pos)
      OBVIOUS
    <3>. HIDE DEF c, len, pos, e
    <3>. QED
      BY <1>3, <2>1, <3>1 DEF NearestInTable
  <2>3. Continue(r, d, {c.cur}, {})
    BY <1>3
  <2>. HIDE DEF e
  <2>4. d.pc = "copy" /\ d.start = <<c.cur, e>>
    <3>. HIDE DEF c
    <3>. QED
      BY <1>1 DEF Call
  <2>. HIDE DEF c, d
  <2>5. Exact(d, ptr, AllNumbers, Tables, Uptos)
    BY <2>1, <2>2, <2>4 DEF Exact, Copying
  <2>. QED
    BY <2>3, <2>5, MoveExact
<1>4. CASE Continue(r, [c EXCEPT !.cur = @ + 1, !.pos = -1], {}, {})
  <2> DEFINE d == [c EXCEPT !.cur = @ + 1, !.pos = -1]
  <2>1. d.pc = "nearest"
    <3>. HIDE DEF c
    <3>. QED
      BY <1>1 DEF Call
  <2>2. Continue(r, d, {}, {})
    BY <1>4
  <2>. HIDE DEF c, d
  <2>3. Exact(d, ptr, AllNumbers, Tables, Uptos)
    BY <2>1 DEF Exact, Copying
  <2>. QED
    BY <2>2, <2>3, MoveExact
<1>. QED
  BY <1>2, <1>3, <1>4 DEF Nearest

\* The two parts of the start table, in numbers.
LEMMA StartArith ==
  ASSUME NEW before \in Nat, NEW after \in Nat, NEW e \in Nat, NEW len \in Nat,
         before >= 1, after >= 1, e < len,
         NEW first, first = IF before < e THEN e - before ELSE 0,
         NEW last, last = IF after < len - (e + 1) THEN e + after ELSE len - 1,
         NEW b, b = before - (e - first), NEW a, a = after - (last - e), NEW next, next = e + 1
  PROVE  /\ first \in Nat /\ first <= e /\ e - first <= before
         /\ first = 0 \/ b = 0
         /\ last \in Int /\ e <= last /\ last < len /\ last - e <= after
         /\ last = len - 1 \/ a = 0
         /\ a \in Int /\ b \in Int /\ next \in Nat
<1>1. /\ first \in Nat /\ first <= e /\ e - first <= before
      /\ first = 0 \/ b = 0
  <2>1. CASE before < e
    <3>1. first = e - before
      BY <2>1
    <3>. QED
      BY <2>1, <3>1
  <2>2. CASE ~(before < e)
    <3>1. first = 0
      BY <2>2
    <3>. QED
      BY <2>2, <3>1
  <2>. QED
    BY <2>1, <2>2
<1>2. /\ last \in Int /\ e <= last /\ last < len /\ last - e <= after
      /\ last = len - 1 \/ a = 0
  <2>1. CASE after < len - (e + 1)
    <3>1. last = e + after
      BY <2>1
    <3>. QED
      BY <2>1, <3>1
  <2>2. CASE ~(after < len - (e + 1))
    <3>1. last = len - 1
      BY <2>2
    <3>. QED
      BY <2>2, <3>1
  <2>. QED
    BY <2>1, <2>2
<1>. QED
  BY <1>1, <1>2

\* The copies in the start table give the piece of it around the start.
LEMMA CopyStartExact ==
  ASSUME NEW Q, XInv(Q), NEW r \in Readers, r \in Q, CopyStart(r)
  PROVE  ExactOK(Q)'
<1> DEFINE c     == call[r]
           slot  == c.start[1]
           e     == c.start[2]
           len   == Len(Table(slot))
           before == c.before
           after == c.after
           first == IF c.before < e THEN e - c.before ELSE 0
           last  == IF c.after < len - (e + 1) THEN e + c.after ELSE len - 1
           none  == << >>
           below == Copied(c, slot, first, e, none)
           all   == Copied(c, slot, e + 1, last, below)
           b     == c.before - (e - first)
           a     == c.after - (last - e)
           n     == slot - 1
           base  == Uptos[slot - 1]
           next  == e + 1
           d     == [c EXCEPT !.pc = "before", !.cur = n, !.before = b, !.after = a,
                              !.data = all]
<1>1. /\ HeapOK /\ CallOK(c) /\ c \in Call /\ c.pc = "copy"
      /\ Exact(c, ptr, AllNumbers, Tables, Uptos)
  BY ExactTyped DEF CopyStart
<1>2. /\ c.asked # << >> /\ before = c.asked[1] /\ after = c.asked[2]
      /\ before \in Nat /\ after \in Nat /\ before >= 1 /\ after >= 1
      /\ slot \in Slots /\ e \in Nat /\ e < Len(Tables[slot])
  <2>. HIDE DEF c
  <2>1. /\ c.asked # << >> /\ c.before = c.asked[1] /\ c.after = c.asked[2]
        /\ c.start \in Slots \X (0..(Most - 1)) /\ c.start[2] < Len(Tables[c.start[1]])
    BY <1>1 DEF CallOK, Exact, Copying
  <2>2. c.asked[1] \in 1..MaxCount /\ c.asked[2] \in 1..MaxCount
    BY <1>1, <2>1, AskedTyped
  <2>3. c.start[1] \in Slots /\ c.start[2] \in Nat
    BY <2>1, SizeOfPostfixes
  <2>. QED
    BY <2>1, <2>2, <2>3, SlotAssumption
<1>3. /\ base \in Nat /\ Uptos[slot] = base + len /\ base + len <= Len(AllNumbers)
      /\ len \in Nat /\ e < len /\ Len(AllNumbers) \in Nat
  <2>. HIDE DEF c
  <2>. QED
    BY <1>1, <1>2, SlotFacts
<1>4. /\ first = IF before < e THEN e - before ELSE 0
      /\ last = IF after < len - (e + 1) THEN e + after ELSE len - 1
      /\ b = before - (e - first) /\ a = after - (last - e) /\ next = e + 1
      /\ below = Copied(c, slot, first, e, none) /\ all = Copied(c, slot, next, last, below)
  OBVIOUS
<1>5. /\ first \in Nat /\ first <= e /\ e - first <= before
      /\ first = 0 \/ b = 0
      /\ last \in Int /\ e <= last /\ last < len /\ last - e <= after
      /\ last = len - 1 \/ a = 0
      /\ a \in Int /\ b \in Int /\ next \in Nat
  <2>. HIDE DEF c, slot, e, len, before, after, first, last, a, b, next, none, below, all
  <2>1. before \in Nat /\ after \in Nat /\ e \in Nat /\ len \in Nat
    BY <1>2, <1>3
  <2>2. before >= 1 /\ after >= 1 /\ e < len
    BY <1>2, <1>3
  <2>3. first = IF before < e THEN e - before ELSE 0
    BY <1>4
  <2>4. last = IF after < len - (e + 1) THEN e + after ELSE len - 1
    BY <1>4
  <2>5. b = before - (e - first) /\ a = after - (last - e) /\ next = e + 1
    BY <1>4
  <2>. QED
    BY <2>1, <2>2, <2>3, <2>4, <2>5, StartArith
<1>0. /\ before \in Nat /\ after \in Nat /\ e \in Nat /\ len \in Nat /\ base \in Nat
      /\ e < len /\ next = e + 1
  BY <1>2, <1>3, <1>4
<1>6. none \in Seq(Numbers) /\ Len(none) = 0 /\ Members(none) = {}
  BY DEF Members
<1>7. /\ below \in Seq(Numbers) /\ Len(below) = e + 1 - first
      /\ Members(below) = Part(AllNumbers, base + first + 1, base + e + 1)
  <2>1. first <= e + 1 /\ Len(none) + (e + 1 - first) <= c.asked[1] + c.asked[2] + 1
    <3> DEFINE x == c.asked[1]
               y == c.asked[2]
               l == Len(none)
    <3>1. x = before /\ y = after /\ l = 0
      BY <1>2, <1>6
    <3>. HIDE DEF x, y, l, c, e, first, before, after, none
    <3>2. first <= e + 1 /\ l + (e + 1 - first) <= x + y + 1
      BY <1>0, <1>5, <3>1
    <3>. QED
      BY <3>2 DEF x, y, l
  <2>. HIDE DEF c, slot, e, len, before, after, first, last, none, below
  <2>2. /\ below \in Seq(Numbers) /\ Len(below) = Len(none) + (e + 1 - first)
        /\ Members(below) = Members(none)
             \cup {<<slot, Table(slot)[first + i]>> : i \in 1..(e + 1 - first)}
    <3>1. /\ slot \in Slots /\ c \in Call /\ c.asked # << >> /\ first \in Nat /\ e \in Int
          /\ e < Len(Table(slot)) /\ none \in Seq(Numbers) /\ below = Copied(c, slot, first, e, none)
      BY <1>1, <1>2, <1>3, <1>4, <1>5, <1>6 DEF len
    <3>2. AddsAll(slot, first, e, none, Copied(c, slot, first, e, none))
      BY <1>1, <2>1, <3>1, CopiedAll
    <3>. QED
      BY <3>1, <3>2 DEF AddsAll
  <2>3. {<<slot, Table(slot)[first + i]>> : i \in 1..(e + 1 - first)}
          = Part(AllNumbers, base + first + 1, base + e + 1)
    <3>1. slot \in Slots /\ first \in Nat /\ e \in Int /\ e < Len(Table(slot)) /\ first <= e + 1
      BY <1>2, <1>3, <1>5, <2>1 DEF len
    <3>. HIDE DEF base
    <3>. QED
      BY <1>1, <3>1, PartOfTable DEF base
  <2>4. Len(none) + (e + 1 - first) = e + 1 - first
    BY <1>0, <1>5, <1>6
  <2>. QED
    BY <1>6, <2>2, <2>3, <2>4
<1>8. /\ all \in Seq(Numbers) /\ Len(all) = last + 1 - first
      /\ Members(all) = Part(AllNumbers, base + first + 1, base + last + 1)
  <2>1. /\ next <= last + 1
        /\ Len(below) + (last + 1 - next) <= c.asked[1] + c.asked[2] + 1
        /\ Len(below) + (last + 1 - next) = last + 1 - first
    <3> DEFINE x == c.asked[1]
               y == c.asked[2]
               l == Len(below)
    <3>1. x = before /\ y = after /\ l = e + 1 - first
      BY <1>2, <1>7
    <3>. HIDE DEF x, y, l, c, e, first, last, before, after, below, next
    <3>2. next <= last + 1
      BY <1>0, <1>5
    <3>3. l + (last + 1 - next) = last + 1 - first
      BY <1>0, <1>5, <3>1
    <3>4. last + 1 - first <= before + after + 1
      BY <1>0, <1>5
    <3>. QED
      BY <3>1, <3>2, <3>3, <3>4 DEF x, y, l
  <2>. HIDE DEF c, slot, e, len, before, after, first, last, none, below, next, all, base
  <2>2. /\ all \in Seq(Numbers) /\ Len(all) = Len(below) + (last + 1 - next)
        /\ Members(all) = Members(below)
             \cup {<<slot, Table(slot)[next + i]>> : i \in 1..(last + 1 - next)}
    <3>1. /\ slot \in Slots /\ c \in Call /\ c.asked # << >> /\ next \in Nat /\ last \in Int
          /\ last < Len(Table(slot)) /\ below \in Seq(Numbers)
          /\ all = Copied(c, slot, next, last, below)
      BY <1>1, <1>2, <1>4, <1>5, <1>7 DEF len
    <3>2. AddsAll(slot, next, last, below, Copied(c, slot, next, last, below))
      BY <1>1, <2>1, <3>1, CopiedAll
    <3>. QED
      BY <3>1, <3>2 DEF AddsAll
  <2>3. {<<slot, Table(slot)[next + i]>> : i \in 1..(last + 1 - next)}
          = Part(AllNumbers, base + next + 1, base + last + 1)
    <3>1. /\ slot \in Slots /\ next \in Nat /\ last \in Int /\ last < Len(Table(slot))
          /\ next <= last + 1
      BY <1>2, <1>5, <2>1 DEF len
    <3>. QED
      BY <1>1, <3>1, PartOfTable DEF base
  <2>4. base + next + 1 = base + e + 1 + 1 /\ base + first + 1 \in Int /\ base + e + 1 \in Int
        /\ base + last + 1 \in Int /\ base + first + 1 <= base + e + 1 + 1
        /\ base + e + 1 <= base + last + 1
    BY <1>0, <1>5
  <2> DEFINE lo == base + first + 1
             m  == base + e + 1
             hi == base + last + 1
  <2>5. Part(AllNumbers, lo, m) \cup Part(AllNumbers, m + 1, hi) = Part(AllNumbers, lo, hi)
    <3>1. lo \in Int /\ m \in Int /\ hi \in Int /\ lo <= m + 1 /\ m <= hi
      BY <2>4
    <3>. HIDE DEF lo, m, hi
    <3>. QED
      BY <3>1, PartsJoin
  <2>. QED
    BY <1>7, <2>1, <2>2, <2>3, <2>4, <2>5
<1>9. n \in -1..(LastSlot + 1) /\ n = slot - 1
  <2>. HIDE DEF c, slot
  <2>. QED
    BY <1>2, SlotAssumption DEF Slots
<1>10. /\ d.pc = "before" /\ d.cur = n /\ d.data = all /\ d.start = c.start
       /\ d.asked = c.asked /\ d.before = b /\ d.after = a
  <2>. HIDE DEF c, n, a, b, all
  <2>. QED
    BY <1>1 DEF Call
<1>11. /\ Home(d, Uptos) = base + e + 1
       /\ Lo(d, Uptos) = base + first + 1 /\ Hi(d, Uptos) = base + last + 1
  <2>1. Home(d, Uptos) = base + e + 1
    <3>. HIDE DEF d
    <3>. QED
      BY <1>10 DEF Home
  <2> DEFINE x == c.asked[1]
             y == c.asked[2]
  <2>2. Lo(d, Uptos) = Home(d, Uptos) - (x - b) /\ Hi(d, Uptos) = Home(d, Uptos) + (y - a)
    <3>. HIDE DEF d, a, b
    <3>. QED
      BY <1>10 DEF Lo, Hi
  <2>3. x = before /\ y = after
    BY <1>2
  <2>4. b = before - (e - first) /\ a = after - (last - e)
    BY <1>4
  <2> DEFINE home == Home(d, Uptos)
             low  == Lo(d, Uptos)
             high == Hi(d, Uptos)
  <2>. HIDE DEF x, y, c, slot, e, len, before, after, first, last, a, b, base, d, home, low, high
  <2>5. home = base + e + 1 /\ low = home - (x - b) /\ high = home + (y - a)
    BY <2>1, <2>2 DEF home, low, high
  <2>6. low = base + first + 1 /\ high = base + last + 1
    BY <1>0, <1>5, <2>3, <2>4, <2>5
  <2>. QED
    BY <2>1, <2>6 DEF low, high
<1>12. Exact(d, ptr, AllNumbers, Tables, Uptos)
  <2>1. d.start[1] = slot /\ d.start[2] = e
    BY <1>10
  <2>. HIDE DEF c, slot, e, len, before, after, first, last, none, below, next, all, base, a, b, n, d
  <2>2. Gathered(d, AllNumbers, Uptos)
    <3>1. Len(all) = (base + last + 1) - (base + first + 1) + 1
      BY <1>2, <1>3, <1>5, <1>8
    <3>2. /\ 1 <= base + first + 1 /\ base + first + 1 <= base + e + 1
          /\ base + e + 1 <= base + last + 1 /\ base + last + 1 <= Len(AllNumbers)
      BY <1>2, <1>3, <1>5
    <3>. QED
      BY <1>8, <1>10, <1>11, <3>1, <3>2 DEF Gathered
  <2>3. b = 0 \/ base + first + 1 = base + 1
    BY <1>3, <1>5
  <2>4. a = 0 \/ base + last + 1 = Uptos[slot]
    BY <1>3, <1>5
  <2>5. Uptos[n] = base
    BY <1>9 DEF base
  <2>. QED
    BY <1>2, <1>10, <1>11, <2>1, <2>2, <2>3, <2>4, <2>5 DEF Exact, Copying
<1>13. Continue(r, d, {}, {}) \/ Fail("null table read") \/ Fail("freed table used")
  BY DEF CopyStart
<1>. HIDE DEF d
<1>. QED
  BY <1>12, <1>13, MoveExact, FailExact

\* A call that has its start and reads no more than its place and its pointer
\* anew has gathered what it had.
LEMMA SameGathered ==
  ASSUME NEW c, NEW d, NEW all, NEW upto, d.start = c.start, d.asked = c.asked,
         d.before = c.before, d.after = c.after, d.data = c.data
  PROVE  /\ Lo(d, upto) = Lo(c, upto) /\ Hi(d, upto) = Hi(c, upto)
         /\ Gathered(c, all, upto) => Gathered(d, all, upto)
<1>1. Home(d, upto) = Home(c, upto)
  BY DEF Home
<1>2. Lo(d, upto) = Lo(c, upto) /\ Hi(d, upto) = Hi(c, upto)
  BY <1>1 DEF Lo, Hi
<1>. QED
  BY <1>1, <1>2 DEF Gathered

\* A table that is skipped has nothing to add; below the first there is none.
LEMMA PeekBeforeExact ==
  ASSUME NEW Q, XInv(Q), NEW r \in Readers, r \in Q, PeekBefore(r)
  PROVE  ExactOK(Q)'
<1> DEFINE c == call[r]
<1>1. /\ HeapOK /\ CallOK(c) /\ c \in Call /\ c.pc = "before"
      /\ Exact(c, ptr, AllNumbers, Tables, Uptos)
  BY ExactTyped DEF PeekBefore
<1>2. /\ c.cur \in -1..(LastSlot + 1) /\ c.start[1] \in Slots
      /\ c.cur < c.start[1] /\ c.before \in Nat
      /\ c.start[2] < Len(Tables[c.start[1]])
      /\ Gathered(c, AllNumbers, Uptos)
      /\ c.before = 0 \/ Lo(c, Uptos) = Uptos[c.cur] + 1
      /\ c.after = 0 \/ Hi(c, Uptos) = Uptos[c.start[1]]
  <2>. HIDE DEF c
  <2>1. c.cur \in -1..(LastSlot + 1) /\ c.before \in Nat
    BY <1>1, SlotAssumption, SizeOfPostfixes DEF Call
  <2>2. c.start \in Slots \X (0..(Most - 1)) /\ c.cur < c.start[1]
    BY <1>1 DEF CallOK, Copying
  <2>3. c.start[1] \in Slots
    BY <2>2
  <2>. QED
    BY <1>1, <2>1, <2>2, <2>3 DEF Exact, Copying
<1>3. ASSUME c.cur >= 0 PROVE c.cur \in Slots
  <2>. HIDE DEF c
  <2>. QED
    BY <1>2, <1>3, SlotAssumption DEF Slots
<1>4. CASE /\ c.cur >= 0 /\ MayBeEmpty(c.cur) /\ Continue(r, [c EXCEPT !.cur = @ - 1], {}, {})
  <2> DEFINE n == c.cur - 1
             d == [c EXCEPT !.cur = n]
  <2>1. Continue(r, d, {}, {})
    BY <1>4
  <2>2. Uptos[c.cur] = Uptos[n]
    <3>1. c.cur \in Slots
      BY <1>3, <1>4
    <3>2. Table(c.cur) = << >>
      BY <1>4, <3>1 DEF MayBeEmpty, XInv, ExactOK
    <3>3. Len(Table(c.cur)) = 0
      BY <3>2
    <3>. HIDE DEF c
    <3>4. Uptos[c.cur - 1] \in Nat /\ Uptos[c.cur] = Uptos[c.cur - 1] + 0
      BY <1>1, <3>1, <3>3, SlotFacts
    <3>. QED
      BY <3>4
  <2>. HIDE DEF n
  <2>3. d.pc = "before" /\ d.cur = n /\ d.start = c.start /\ d.asked = c.asked
        /\ d.before = c.before /\ d.after = c.after /\ d.data = c.data
    <3>. HIDE DEF c
    <3>. QED
      BY <1>1 DEF Call
  <2>. HIDE DEF c, d
  <2>4. Lo(d, Uptos) = Lo(c, Uptos) /\ Hi(d, Uptos) = Hi(c, Uptos) /\ Gathered(d, AllNumbers, Uptos)
    BY <1>2, <2>3, SameGathered
  <2>5. Exact(d, ptr, AllNumbers, Tables, Uptos)
    BY <1>2, <2>2, <2>3, <2>4 DEF Exact, Copying
  <2>. QED
    BY <2>1, <2>5, MoveExact
<1>5. CASE /\ c.before > 0
           /\ Continue(r, [c EXCEPT !.pc = "lockBefore", !.t = ptr[c.cur]], {}, {})
  <2> DEFINE t == ptr[c.cur]
             d == [c EXCEPT !.pc = "lockBefore", !.t = t]
  <2>1. Continue(r, d, {}, {})
    BY <1>5
  <2>. HIDE DEF t
  <2>2. d.pc = "lockBefore" /\ d.cur = c.cur /\ d.start = c.start /\ d.asked = c.asked
        /\ d.before = c.before /\ d.after = c.after /\ d.data = c.data /\ d.t = t
    <3>. HIDE DEF c
    <3>. QED
      BY <1>1 DEF Call
  <2>. HIDE DEF c, d
  <2>3. Lo(d, Uptos) = Lo(c, Uptos) /\ Hi(d, Uptos) = Hi(c, Uptos) /\ Gathered(d, AllNumbers, Uptos)
    BY <1>2, <2>2, SameGathered
  <2>4. Exact(d, ptr, AllNumbers, Tables, Uptos)
    BY <1>2, <1>5, <2>2, <2>3 DEF Exact, Copying, t
  <2>. QED
    BY <2>1, <2>4, MoveExact
<1>6. CASE /\ ~(c.before > 0 /\ c.cur >= 0)
           /\ Continue(r, [c EXCEPT !.pc = "after", !.cur = c.start[1] + 1], {}, {})
  <2> DEFINE n == c.start[1] + 1
             d == [c EXCEPT !.pc = "after", !.cur = n]
  <2>1. Continue(r, d, {}, {})
    BY <1>6
  <2>2. n - 1 = c.start[1]
    <3>. HIDE DEF c
    <3>. QED
      BY <1>2, SlotAssumption DEF Slots
  <2>3. c.before = 0 \/ Lo(c, Uptos) = 1
    <3>1. SUFFICES ASSUME c.before # 0 PROVE Lo(c, Uptos) = 1
      OBVIOUS
    <3>2. c.cur = -1
      <4>. HIDE DEF c
      <4>. QED
        BY <1>2, <1>6, <3>1
    <3>3. Uptos[-1] = 0
      BY <1>1, BlocksOK DEF Blocks
    <3>. HIDE DEF c
    <3>. QED
      BY <1>2, <3>1, <3>2, <3>3
  <2>. HIDE DEF n
  <2>4. d.pc = "after" /\ d.cur = n /\ d.start = c.start /\ d.asked = c.asked
        /\ d.before = c.before /\ d.after = c.after /\ d.data = c.data
    <3>. HIDE DEF c
    <3>. QED
      BY <1>1 DEF Call
  <2>. HIDE DEF c, d
  <2>5. Lo(d, Uptos) = Lo(c, Uptos) /\ Hi(d, Uptos) = Hi(c, Uptos) /\ Gathered(d, AllNumbers, Uptos)
    BY <1>2, <2>4, SameGathered
  <2>6. Exact(d, ptr, AllNumbers, Tables, Uptos)
    BY <1>2, <2>2, <2>3, <2>4, <2>5 DEF Exact, Copying
  <2>. QED
    BY <2>1, <2>6, MoveExact
<1>. QED
  BY <1>4, <1>5, <1>6 DEF PeekBefore

\* The piece a table below the start adds.
LEMMA BeforeArith ==
  ASSUME NEW before \in Nat, before > 0, NEW len \in Nat, NEW base \in Nat,
         NEW lo, lo = base + len + 1,
         NEW first, first = IF len < before THEN 0 ELSE len - before,
         NEW b, b = before - (len - first),
         NEW asked1 \in Nat, NEW asked2 \in Nat, NEW after \in Nat, NEW home \in Int,
         NEW hi, lo = home - (asked1 - before), hi = home + (asked2 - after), lo <= home,
         NEW size, size = hi - lo + 1
  PROVE  /\ first \in Nat /\ first <= len /\ b \in Int
         /\ b = 0 \/ base + first + 1 = base + 1
         /\ home - (asked1 - b) = base + first + 1
         /\ base + first + 1 \in Int /\ base + first + 1 >= 1 /\ base + first + 1 <= home
         /\ base + len = lo - 1
         /\ size + (len - first) <= asked1 + asked2 + 1
         /\ size + (len - first) = hi - (base + first + 1) + 1
<1>1. first \in Nat /\ first <= len /\ len - first <= before /\ (first = 0 \/ first = len - before)
  <2>1. CASE len < before
    <3>1. first = 0
      BY <2>1
    <3>. QED
      BY <2>1, <3>1
  <2>2. CASE ~(len < before)
    <3>1. first = len - before
      BY <2>2
    <3>. QED
      BY <2>2, <3>1
  <2>. QED
    BY <2>1, <2>2
<1>2. b \in Int /\ (b = 0 \/ first = 0)
  BY <1>1
<1>3. home - (asked1 - b) = base + first + 1
  BY <1>1
<1>. QED
  BY <1>1, <1>2, <1>3

\* A table below the start adds the part right below what was gathered.
LEMMA LockBeforeExact ==
  ASSUME NEW Q, XInv(Q), NEW r \in Readers, r \in Q, LockBefore(r)
  PROVE  ExactOK(Q)'
<1> DEFINE c      == call[r]
           slot   == c.cur
           len    == Cardinality(heap[c.t])
           before == c.before
           after  == c.after
           asked1 == c.asked[1]
           asked2 == c.asked[2]
           data   == c.data
           first  == IF len < c.before THEN 0 ELSE len - c.before
           to     == len - 1
           all    == Copied(c, c.cur, first, len - 1, c.data)
           b      == c.before - (len - first)
           n      == c.cur - 1
           base   == Uptos[c.cur - 1]
           home   == Home(c, Uptos)
           lo     == Lo(c, Uptos)
           hi     == Hi(c, Uptos)
           size   == Len(c.data)
           d      == [c EXCEPT !.pc = "before", !.cur = n, !.before = b, !.data = all]
<1>1. /\ HeapOK /\ CallOK(c) /\ c \in Call /\ c.pc = "lockBefore" /\ data \in Seq(Numbers)
      /\ Exact(c, ptr, AllNumbers, Tables, Uptos)
  BY ExactTyped DEF LockBefore
<1>2. /\ slot \in Slots /\ c.t = ptr[slot] /\ c.t # NULL /\ c.asked # << >>
      /\ c.start \in Slots \X (0..(Most - 1))
  <2>. HIDE DEF c
  <2>1. c.cur \in -1..(LastSlot + 1)
    BY <1>1 DEF Call
  <2>2. c.start \in Slots \X (0..(Most - 1)) /\ c.cur < c.start[1] /\ c.cur >= 0
        /\ c.t # NULL /\ c.asked # << >>
    BY <1>1 DEF CallOK, Copying
  <2>3. c.start[1] \in 0..LastSlot
    BY <2>2 DEF Slots
  <2>4. c.t = ptr[c.cur]
    BY <1>1 DEF Exact
  <2>. QED
    BY <2>1, <2>2, <2>3, <2>4, SlotAssumption DEF Slots
<1>3. /\ c.start[2] < Len(Tables[c.start[1]])
      /\ Gathered(c, AllNumbers, Uptos)
      /\ before = 0 \/ lo = Uptos[slot] + 1
      /\ after = 0 \/ hi = Uptos[c.start[1]]
      /\ before > 0
  <2>. HIDE DEF c
  <2>. QED
    BY <1>1 DEF Exact, Copying
<1>4. /\ Members(data) = Part(AllNumbers, lo, hi) /\ size = hi - lo + 1
      /\ 1 <= lo /\ lo <= home /\ home <= hi /\ hi <= Len(AllNumbers)
  <2>. HIDE DEF c
  <2>. QED
    BY <1>3 DEF Gathered
<1>5. /\ before \in Nat /\ after \in Nat /\ asked1 \in Nat /\ asked2 \in Nat
      /\ home \in Nat /\ lo \in Int /\ hi \in Int
  <2>. HIDE DEF c
  <2>. QED
    BY <1>1, <1>2, HomeTyped
<1>6. lo = home - (asked1 - before) /\ hi = home + (asked2 - after)
  <2>. HIDE DEF c
  <2>. QED
    BY DEF Lo, Hi
<1>7. base \in Nat /\ Uptos[slot] = base + len /\ len \in Nat /\ len = Len(Table(slot))
  <2>1. Cardinality(AtSlot(slot)) = len
    BY <1>2 DEF AtSlot
  <2>. HIDE DEF c, len
  <2>2. base \in Nat /\ Uptos[slot] = base + Len(Table(slot)) /\ Len(Table(slot)) \in Nat
    BY <1>1, <1>2, SlotFacts DEF slot, base
  <2>3. Len(Table(slot)) = len
    BY <1>1, <1>2, <2>1, TableLists DEF slot
  <2>. QED
    BY <2>2, <2>3
<1>8. lo = base + len + 1
  <2>1. before # 0
    BY <1>3, <1>5
  <2>. HIDE DEF c, len, base, lo, before, slot
  <2>. QED
    BY <1>3, <1>7, <2>1
<1>9. /\ first \in Nat /\ first <= len /\ b \in Int
      /\ b = 0 \/ base + first + 1 = base + 1
      /\ home - (asked1 - b) = base + first + 1
      /\ base + first + 1 \in Int /\ base + first + 1 >= 1 /\ base + first + 1 <= home
      /\ base + len = lo - 1
      /\ size + (len - first) <= asked1 + asked2 + 1
      /\ size + (len - first) = hi - (base + first + 1) + 1
  <2>1. first = IF len < before THEN 0 ELSE len - before
    OBVIOUS
  <2>2. b = before - (len - first)
    OBVIOUS
  <2>3. size = hi - lo + 1 /\ lo <= home /\ before > 0
    BY <1>3, <1>4
  <2>. HIDE DEF c, len, before, after, asked1, asked2, first, b, base, home, lo, hi, size
  <2>4. len \in Nat /\ base \in Nat
    BY <1>7
  <2>. QED
    BY <1>5, <1>6, <1>8, <2>1, <2>2, <2>3, <2>4, BeforeArith
<1>10. /\ all \in Seq(Numbers) /\ Len(all) = hi - (base + first + 1) + 1
       /\ Members(all) = Part(AllNumbers, base + first + 1, hi)
  <2>1. all = Copied(c, slot, first, to, data) /\ size = Len(data) /\ to = len - 1
        /\ asked1 = c.asked[1] /\ asked2 = c.asked[2]
    OBVIOUS
  <2>. HIDE DEF c, slot, len, before, after, asked1, asked2, data, first, to, all, b, base, home, lo, hi, size
  <2>2. /\ to + 1 = len /\ to \in Int /\ first <= to + 1 /\ to < len
        /\ to + 1 - first = len - first
    BY <1>7, <1>9, <2>1
  <2>3. Len(data) + (to + 1 - first) <= c.asked[1] + c.asked[2] + 1
    BY <1>9, <2>1, <2>2
  <2>4. AddsAll(slot, first, to, data, all)
    BY <1>1, <1>2, <1>7, <1>9, <2>1, <2>2, <2>3, CopiedAll
  <2>5. /\ all \in Seq(Numbers) /\ Len(all) = size + (len - first)
        /\ Members(all) = Members(data)
             \cup {<<slot, Table(slot)[first + i]>> : i \in 1..(to + 1 - first)}
    BY <2>1, <2>2, <2>4 DEF AddsAll
  <2>6. {<<slot, Table(slot)[first + i]>> : i \in 1..(to + 1 - first)}
          = Part(AllNumbers, Uptos[slot - 1] + first + 1, Uptos[slot - 1] + to + 1)
    BY <1>1, <1>2, <1>7, <1>9, <2>2, PartOfTable
  <2>7. Uptos[slot - 1] = base
    BY DEF base, slot
  <2> DEFINE low == base + first + 1
             m   == lo - 1
  <2>8. base + to + 1 = m /\ low \in Int /\ m \in Int /\ low <= m + 1 /\ m <= hi /\ m + 1 = lo
    <3>1. base + to + 1 = base + len
      BY <1>7, <2>1, <2>2
    <3>2. lo = base + len + 1 /\ lo <= hi /\ lo \in Int /\ base + first + 1 <= base + len + 1
      BY <1>4, <1>5, <1>7, <1>8, <1>9
    <3>3. low \in Int
      BY <1>9
    <3>. QED
      BY <1>5, <1>7, <1>9, <3>1, <3>2, <3>3
  <2>9. Part(AllNumbers, low, m) \cup Part(AllNumbers, m + 1, hi) = Part(AllNumbers, low, hi)
    <3>. HIDE DEF low, m
    <3>. QED
      BY <1>5, <2>8, PartsJoin
  <2>10. Members(all) = Part(AllNumbers, lo, hi) \cup Part(AllNumbers, low, m)
    BY <1>4, <2>5, <2>6, <2>7, <2>8
  <2>11. Members(all) = Part(AllNumbers, low, hi)
    BY <2>8, <2>9, <2>10
  <2>. QED
    BY <1>9, <2>5, <2>11
<1>11. /\ d.pc = "before" /\ d.cur = n /\ d.data = all /\ d.start = c.start
       /\ d.asked = c.asked /\ d.before = b /\ d.after = c.after
  <2>. HIDE DEF c, n, b, all
  <2>. QED
    BY <1>1 DEF Call
<1>12. /\ Home(d, Uptos) = home /\ Lo(d, Uptos) = base + first + 1 /\ Hi(d, Uptos) = hi
  <2>. HIDE DEF d, b, all, n, first
  <2>1. Home(d, Uptos) = home
    BY <1>11 DEF Home
  <2>2. Lo(d, Uptos) = home - (asked1 - b) /\ Hi(d, Uptos) = hi
    BY <1>11, <2>1 DEF Lo, Hi
  <2>. QED
    BY <1>9, <2>1, <2>2
<1>13. Exact(d, ptr, AllNumbers, Tables, Uptos)
  <2>1. Uptos[n] = base
    OBVIOUS
  <2>. HIDE DEF c, slot, len, before, asked1, asked2, data, first, to, all, b, n, base, home, lo, hi, size, d
  <2>2. Gathered(d, AllNumbers, Uptos)
    BY <1>4, <1>9, <1>10, <1>11, <1>12 DEF Gathered
  <2>3. c.after = after
    BY DEF after
  <2>. HIDE DEF after
  <2>. QED
    BY <1>3, <1>9, <1>11, <1>12, <2>1, <2>2, <2>3 DEF Exact, Copying
<1>14. Continue(r, d, {}, {}) \/ Fail("freed table used")
  BY DEF LockBefore
<1>. HIDE DEF d
<1>. QED
  BY <1>13, <1>14, MoveExact, FailExact

\* The piece a table above the start adds.
LEMMA AfterArith ==
  ASSUME NEW after \in Nat, after > 0, NEW len \in Nat,
         NEW last, last = IF after - 1 >= len THEN len - 1 ELSE after - 1,
         NEW a, a = after - (last + 1),
         NEW asked1 \in Nat, NEW asked2 \in Nat, NEW before \in Nat, NEW home \in Int,
         NEW lo, lo = home - (asked1 - before),
         NEW hi, hi = home + (asked2 - after), lo <= home, home <= hi,
         NEW size, size = hi - lo + 1
  PROVE  /\ last \in Int /\ 0 <= last + 1 /\ last < len /\ a \in Int
         /\ a = 0 \/ last + 1 = len
         /\ home + (asked2 - a) = hi + last + 1
         /\ size + (last + 1 - 0) <= asked1 + asked2 + 1
         /\ size + (last + 1 - 0) = (hi + last + 1) - lo + 1
<1>1. /\ last \in Int /\ 0 <= last + 1 /\ last < len /\ last + 1 <= after
      /\ (last + 1 = len \/ last + 1 = after)
  <2>1. CASE after - 1 >= len
    <3>1. last = len - 1
      BY <2>1
    <3>. QED
      BY <2>1, <3>1
  <2>2. CASE ~(after - 1 >= len)
    <3>1. last = after - 1
      BY <2>2
    <3>. QED
      BY <2>2, <3>1
  <2>. QED
    BY <2>1, <2>2
<1>2. a \in Int /\ (a = 0 \/ last + 1 = len)
  BY <1>1
<1>3. home + (asked2 - a) = hi + last + 1
  BY <1>1
<1>. QED
  BY <1>1, <1>2, <1>3

\* A table above the start adds the part right above what was gathered.
LEMMA LockAfterExact ==
  ASSUME NEW Q, XInv(Q), NEW r \in Readers, r \in Q, LockAfter(r)
  PROVE  ExactOK(Q)'
<1> DEFINE c      == call[r]
           slot   == c.cur
           len    == Cardinality(heap[c.t])
           before == c.before
           after  == c.after
           asked1 == c.asked[1]
           asked2 == c.asked[2]
           data   == c.data
           zero   == 0
           last   == IF c.after - 1 >= len THEN len - 1 ELSE c.after - 1
           all    == Copied(c, c.cur, 0, last, c.data)
           a      == c.after - (last + 1)
           n      == c.cur + 1
           base   == Uptos[c.cur - 1]
           home   == Home(c, Uptos)
           lo     == Lo(c, Uptos)
           hi     == Hi(c, Uptos)
           size   == Len(c.data)
           d      == [c EXCEPT !.pc = "after", !.cur = n, !.after = a, !.data = all]
<1>1. /\ HeapOK /\ CallOK(c) /\ c \in Call /\ c.pc = "lockAfter" /\ data \in Seq(Numbers)
      /\ Exact(c, ptr, AllNumbers, Tables, Uptos)
  BY ExactTyped DEF LockAfter
<1>2. /\ slot \in Slots /\ c.t = ptr[slot] /\ c.t # NULL /\ c.asked # << >>
      /\ c.start \in Slots \X (0..(Most - 1)) /\ slot \in Int
  <2>. HIDE DEF c
  <2>1. c.cur \in -1..(LastSlot + 1)
    BY <1>1 DEF Call
  <2>2. c.start \in Slots \X (0..(Most - 1)) /\ c.cur > c.start[1] /\ c.cur <= LastSlot
        /\ c.t # NULL /\ c.asked # << >>
    BY <1>1 DEF CallOK, Copying
  <2>3. c.start[1] \in 0..LastSlot
    BY <2>2 DEF Slots
  <2>4. c.t = ptr[c.cur]
    BY <1>1 DEF Exact
  <2>. QED
    BY <2>1, <2>2, <2>3, <2>4, SlotAssumption DEF Slots
<1>3. /\ c.start[2] < Len(Tables[c.start[1]])
      /\ Gathered(c, AllNumbers, Uptos)
      /\ before = 0 \/ lo = 1
      /\ after = 0 \/ hi = Uptos[slot - 1]
      /\ after > 0
  <2>. HIDE DEF c
  <2>. QED
    BY <1>1 DEF Exact, Copying
<1>4. /\ Members(data) = Part(AllNumbers, lo, hi) /\ size = hi - lo + 1
      /\ 1 <= lo /\ lo <= home /\ home <= hi /\ hi <= Len(AllNumbers)
  <2>. HIDE DEF c
  <2>. QED
    BY <1>3 DEF Gathered
<1>5. /\ before \in Nat /\ after \in Nat /\ asked1 \in Nat /\ asked2 \in Nat
      /\ home \in Nat /\ lo \in Int /\ hi \in Int
  <2>. HIDE DEF c
  <2>. QED
    BY <1>1, <1>2, HomeTyped
<1>6. lo = home - (asked1 - before) /\ hi = home + (asked2 - after)
  <2>. HIDE DEF c
  <2>. QED
    BY DEF Lo, Hi
<1>7. /\ base \in Nat /\ Uptos[slot] = base + len /\ len \in Nat /\ len = Len(Table(slot))
      /\ base + len <= Len(AllNumbers) /\ Len(AllNumbers) \in Nat
  <2>1. Cardinality(AtSlot(slot)) = len
    BY <1>2 DEF AtSlot
  <2>. HIDE DEF c, len
  <2>2. /\ base \in Nat /\ Uptos[slot] = base + Len(Table(slot)) /\ Len(Table(slot)) \in Nat
        /\ Uptos[slot] <= Len(AllNumbers) /\ Len(AllNumbers) \in Nat
    BY <1>1, <1>2, SlotFacts DEF slot, base
  <2>3. Len(Table(slot)) = len
    BY <1>1, <1>2, <2>1, TableLists DEF slot
  <2>. QED
    BY <2>2, <2>3
<1>8. hi = base
  <2>1. after # 0
    BY <1>3, <1>5
  <2>. HIDE DEF c, len, hi, after
  <2>. QED
    BY <1>3, <2>1 DEF base, slot
<1>9. /\ last \in Int /\ 0 <= last + 1 /\ last < len /\ a \in Int
      /\ a = 0 \/ last + 1 = len
      /\ home + (asked2 - a) = hi + last + 1
      /\ size + (last + 1 - zero) <= asked1 + asked2 + 1
      /\ size + (last + 1 - zero) = (hi + last + 1) - lo + 1
  <2>1. last = IF after - 1 >= len THEN len - 1 ELSE after - 1
    OBVIOUS
  <2>2. a = after - (last + 1)
    OBVIOUS
  <2>3. size = hi - lo + 1 /\ lo <= home /\ home <= hi /\ after > 0
    BY <1>3, <1>4
  <2>. HIDE DEF c, len, before, after, asked1, asked2, last, a, base, home, lo, hi, size
  <2>4. len \in Nat
    BY <1>7
  <2>. QED
    BY <1>5, <1>6, <2>1, <2>2, <2>3, <2>4, AfterArith
<1>10. /\ all \in Seq(Numbers) /\ Len(all) = (hi + last + 1) - lo + 1
       /\ Members(all) = Part(AllNumbers, lo, hi + last + 1)
  <2>1. all = Copied(c, slot, zero, last, data) /\ size = Len(data) /\ zero = 0
        /\ asked1 = c.asked[1] /\ asked2 = c.asked[2] /\ zero \in Nat
    OBVIOUS
  <2>2. Uptos[slot - 1] = base
    OBVIOUS
  <2>. HIDE DEF c, slot, len, before, after, asked1, asked2, data, zero, last, all, a, base, home, lo, hi, size
  <2>3. zero <= last + 1 /\ last < Len(Table(slot))
    BY <1>7, <1>9, <2>1
  <2>4. Len(data) + (last + 1 - zero) <= c.asked[1] + c.asked[2] + 1
    BY <1>9, <2>1
  <2>5. AddsAll(slot, zero, last, data, all)
    BY <1>1, <1>2, <1>9, <2>1, <2>3, <2>4, CopiedAll
  <2>6. /\ all \in Seq(Numbers) /\ Len(all) = size + (last + 1 - zero)
        /\ Members(all) = Members(data)
             \cup {<<slot, Table(slot)[zero + i]>> : i \in 1..(last + 1 - zero)}
    BY <2>1, <2>5 DEF AddsAll
  <2>7. {<<slot, Table(slot)[zero + i]>> : i \in 1..(last + 1 - zero)}
          = Part(AllNumbers, Uptos[slot - 1] + zero + 1, Uptos[slot - 1] + last + 1)
    BY <1>1, <1>2, <1>9, <2>1, <2>3, PartOfTable
  <2> DEFINE high == hi + last + 1
  <2>8. base + zero + 1 = hi + 1 /\ base + last + 1 = high /\ high \in Int /\ lo <= hi + 1
        /\ hi <= high
    <3>1. base + zero + 1 = hi + 1
      BY <1>7, <1>8, <2>1
    <3>2. base + last + 1 = high
      BY <1>8
    <3>3. high \in Int /\ hi <= high
      BY <1>5, <1>9
    <3>4. lo <= hi + 1
      BY <1>4, <1>5
    <3>. QED
      BY <3>1, <3>2, <3>3, <3>4
  <2>9. Part(AllNumbers, lo, hi) \cup Part(AllNumbers, hi + 1, high) = Part(AllNumbers, lo, high)
    <3>. HIDE DEF high
    <3>. QED
      BY <1>5, <2>8, PartsJoin
  <2>10. Members(all) = Part(AllNumbers, lo, hi) \cup Part(AllNumbers, hi + 1, high)
    BY <1>4, <2>2, <2>6, <2>7, <2>8
  <2>. QED
    BY <1>9, <2>6, <2>9, <2>10
<1>11. /\ d.pc = "after" /\ d.cur = n /\ d.data = all /\ d.start = c.start
       /\ d.asked = c.asked /\ d.before = c.before /\ d.after = a
  <2>. HIDE DEF c, n, a, all
  <2>. QED
    BY <1>1 DEF Call
<1>12. /\ Home(d, Uptos) = home /\ Lo(d, Uptos) = lo /\ Hi(d, Uptos) = hi + last + 1
  <2>. HIDE DEF d, a, all, n, last
  <2>1. Home(d, Uptos) = home
    BY <1>11 DEF Home
  <2>2. Hi(d, Uptos) = home + (asked2 - a) /\ Lo(d, Uptos) = lo
    BY <1>11, <2>1 DEF Lo, Hi
  <2>. QED
    BY <1>9, <2>1, <2>2
<1>13. Exact(d, ptr, AllNumbers, Tables, Uptos)
  <2>1. n - 1 = slot
    <3>. HIDE DEF c
    <3>. QED
      BY <1>2
  <2>2. c.before = before
    OBVIOUS
  <2>. HIDE DEF c, slot, len, before, after, asked1, asked2, data, last, all, a, n, base, home, lo, hi, size, d
  <2>3. /\ home <= hi + last + 1 /\ hi + last + 1 <= Len(AllNumbers)
        /\ a = 0 \/ hi + last + 1 = base + len
    BY <1>4, <1>5, <1>7, <1>8, <1>9
  <2>4. Gathered(d, AllNumbers, Uptos)
    BY <1>4, <1>10, <1>11, <1>12, <2>3 DEF Gathered
  <2>. QED
    BY <1>3, <1>7, <1>11, <1>12, <2>1, <2>2, <2>3, <2>4 DEF Exact, Copying
<1>14. Continue(r, d, {}, {}) \/ Fail("freed table used")
  BY DEF LockAfter
<1>. HIDE DEF d
<1>. QED
  BY <1>13, <1>14, MoveExact, FailExact

\* With all tables done, what was gathered is all there is around the start, and
\* sorting it makes it the reply.
LEMMA PeekAfterExact ==
  ASSUME NEW Q, XInv(Q), NEW r \in Readers, r \in Q, PeekAfter(r)
  PROVE  ExactOK(Q)'
<1> DEFINE c == call[r]
<1>1. /\ HeapOK /\ CallOK(c) /\ c \in Call /\ c.pc = "after" /\ DataOK(c)
      /\ c.data \in Seq(Numbers)
      /\ Exact(c, ptr, AllNumbers, Tables, Uptos)
  BY ExactTyped DEF PeekAfter
<1>2. /\ c.cur \in -1..(LastSlot + 1) /\ c.start \in Slots \X (0..(Most - 1))
      /\ c.start[1] \in Slots /\ c.cur > c.start[1] /\ c.before \in Nat /\ c.after \in Nat
      /\ c.asked # << >>
      /\ c.start[2] < Len(Tables[c.start[1]])
      /\ Gathered(c, AllNumbers, Uptos)
      /\ c.before = 0 \/ Lo(c, Uptos) = 1
      /\ c.after = 0 \/ Hi(c, Uptos) = Uptos[c.cur - 1]
  <2>. HIDE DEF c
  <2>1. c.cur \in -1..(LastSlot + 1) /\ c.before \in Nat /\ c.after \in Nat
    BY <1>1, SlotAssumption, SizeOfPostfixes DEF Call
  <2>2. c.start \in Slots \X (0..(Most - 1)) /\ c.cur > c.start[1] /\ c.asked # << >>
    BY <1>1 DEF CallOK, Copying
  <2>3. c.start[1] \in Slots
    BY <2>2
  <2>. QED
    BY <1>1, <2>1, <2>2, <2>3 DEF Exact, Copying
<1>3. CASE /\ c.cur <= LastSlot /\ MayBeEmpty(c.cur) /\ Continue(r, [c EXCEPT !.cur = @ + 1], {}, {})
  <2> DEFINE n == c.cur + 1
             d == [c EXCEPT !.cur = n]
  <2>1. Continue(r, d, {}, {})
    BY <1>3
  <2>2. Uptos[c.cur - 1] = Uptos[n - 1]
    <3>1. c.cur \in Slots /\ n - 1 = c.cur
      <4> DEFINE cur == c.cur
      <4>1. /\ cur \in -1..(LastSlot + 1) /\ cur > c.start[1] /\ c.start[1] \in Slots
            /\ cur <= LastSlot /\ n = cur + 1
        BY <1>2, <1>3
      <4>. HIDE DEF cur, n, c
      <4>2. cur \in Slots /\ n - 1 = cur
        BY <4>1, SlotAssumption DEF Slots
      <4>. QED
        BY <4>2 DEF cur
    <3>2. Table(c.cur) = << >>
      BY <1>3, <3>1 DEF MayBeEmpty, XInv, ExactOK
    <3>3. Len(Table(c.cur)) = 0
      BY <3>2
    <3>. HIDE DEF c
    <3>4. Uptos[c.cur - 1] \in Nat /\ Uptos[c.cur] = Uptos[c.cur - 1] + 0
      BY <1>1, <3>1, <3>3, SlotFacts
    <3>. QED
      BY <3>1, <3>4
  <2>. HIDE DEF n
  <2>3. d.pc = "after" /\ d.cur = n /\ d.start = c.start /\ d.asked = c.asked
        /\ d.before = c.before /\ d.after = c.after /\ d.data = c.data
    <3>. HIDE DEF c
    <3>. QED
      BY <1>1 DEF Call
  <2>. HIDE DEF c, d
  <2>4. Lo(d, Uptos) = Lo(c, Uptos) /\ Hi(d, Uptos) = Hi(c, Uptos) /\ Gathered(d, AllNumbers, Uptos)
    BY <1>2, <2>3, SameGathered
  <2>5. Exact(d, ptr, AllNumbers, Tables, Uptos)
    BY <1>2, <2>2, <2>3, <2>4 DEF Exact, Copying
  <2>. QED
    BY <2>1, <2>5, MoveExact
<1>4. CASE /\ c.after > 0
           /\ Continue(r, [c EXCEPT !.pc = "lockAfter", !.t = ptr[c.cur]], {}, {})
  <2> DEFINE t == ptr[c.cur]
             d == [c EXCEPT !.pc = "lockAfter", !.t = t]
  <2>1. Continue(r, d, {}, {})
    BY <1>4
  <2>. HIDE DEF t
  <2>2. d.pc = "lockAfter" /\ d.cur = c.cur /\ d.start = c.start /\ d.asked = c.asked
        /\ d.before = c.before /\ d.after = c.after /\ d.data = c.data /\ d.t = t
    <3>. HIDE DEF c
    <3>. QED
      BY <1>1 DEF Call
  <2>. HIDE DEF c, d
  <2>3. Lo(d, Uptos) = Lo(c, Uptos) /\ Hi(d, Uptos) = Hi(c, Uptos) /\ Gathered(d, AllNumbers, Uptos)
    BY <1>2, <2>2, SameGathered
  <2>4. Exact(d, ptr, AllNumbers, Tables, Uptos)
    BY <1>2, <1>4, <2>2, <2>3 DEF Exact, Copying, t
  <2>. QED
    BY <2>1, <2>4, MoveExact
<1>5. CASE /\ ~(c.after > 0 /\ c.cur <= LastSlot)
           /\ Continue(r, [c EXCEPT !.pc = "answered", !.data = Sorted(@)], {}, {c.start[1]})
  <2> DEFINE f == Sorted(c.data)
             d == [c EXCEPT !.pc = "answered", !.data = f]
             W == Members(c.data)
  <2>1. Continue(r, d, {}, {c.start[1]})
    BY <1>5
  <2>2. f = Ranked(W, Alpha(W))
    <3>1. Distinct(c.data)
      BY <1>1 DEF DataOK
    <3>2. W \subseteq Numbers
      BY <1>1 DEF Members
    <3>. HIDE DEF c
    <3>. QED
      BY <1>1, <3>1, <3>2, SortedDistinct, AlphaOrders
  <2>3. W = Around(c, AllNumbers, Uptos)
    <3> DEFINE home   == Home(c, Uptos)
               lo     == Lo(c, Uptos)
               hi     == Hi(c, Uptos)
               asked1 == c.asked[1]
               asked2 == c.asked[2]
               before == c.before
               after  == c.after
               n      == Len(AllNumbers)
    <3>. HIDE DEF c
    <3>1. /\ before \in Nat /\ after \in Nat /\ asked1 \in Nat /\ asked2 \in Nat
          /\ home \in Nat /\ lo \in Int /\ hi \in Int
      BY <1>1, <1>2, HomeTyped
    <3>2. /\ W = Part(AllNumbers, lo, hi)
          /\ 1 <= lo /\ lo <= home /\ home <= hi /\ hi <= n
      BY <1>2 DEF Gathered
    <3>3. lo = home - (asked1 - before) /\ hi = home + (asked2 - after)
      BY DEF Lo, Hi
    <3>4. n \in Nat /\ Uptos[LastSlot] = n
      BY <1>1, <1>2, SlotFacts, BlocksOK DEF Blocks
    <3>5. before = 0 \/ lo = 1
      BY <1>2
    <3>6. after = 0 \/ hi = n
      <4>1. SUFFICES ASSUME after # 0 PROVE hi = n
        OBVIOUS
      <4>2. c.cur - 1 = LastSlot
        BY <1>2, <1>5, <4>1, SlotAssumption
      <4>. QED
        BY <1>2, <3>4, <4>1, <4>2
    <3>. HIDE DEF home, lo, hi, asked1, asked2, before, after, n, W
    <3>7. lo >= home - asked1 /\ hi <= home + asked2
      BY <3>1, <3>3
    <3>8. lo = home - asked1 \/ lo = 1
      BY <3>1, <3>3, <3>5
    <3>9. hi = home + asked2 \/ hi = n
      BY <3>1, <3>3, <3>6
    <3>10. home = Home(c, Uptos) /\ asked1 = c.asked[1] /\ asked2 = c.asked[2] /\ n = Len(AllNumbers)
      BY DEF home, asked1, asked2, n
    <3>11. home \in Int
      BY <3>1
    <3>12. asked1 \in Nat /\ asked2 \in Nat /\ lo \in Int /\ hi \in Int /\ n \in Nat
      BY <3>1, <3>4
    <3>13. 1 <= lo /\ hi <= n
      BY <3>2
    <3>14. Part(AllNumbers, lo, hi) = Around(c, AllNumbers, Uptos)
      <4>1. ASSUME NEW k \in Int
            PROVE  k \in lo..hi <=> k \in 1..n /\ k >= home - asked1 /\ k <= home + asked2
        <5> DEFINE from == home - asked1
                   to   == home + asked2
        <5>1. from \in Int /\ to \in Int
          BY <3>11, <3>12
        <5>2. lo >= from /\ hi <= to /\ (lo = from \/ lo = 1) /\ (hi = to \/ hi = n)
          BY <3>7, <3>8, <3>9
        <5>. HIDE DEF from, to
        <5>3. SUFFICES k \in lo..hi <=> k \in 1..n /\ k >= from /\ k <= to
          BY DEF from, to
        <5>4. ASSUME k \in lo..hi PROVE k \in 1..n /\ k >= from /\ k <= to
          BY <3>12, <3>13, <5>1, <5>2, <5>4
        <5>5. ASSUME k \in 1..n, k >= from, k <= to PROVE k >= lo
          <6>1. CASE lo = from
            BY <3>12, <5>1, <5>5, <6>1
          <6>2. CASE lo = 1
            BY <3>12, <5>1, <5>5, <6>2
          <6>. QED
            BY <5>2, <6>1, <6>2
        <5>6. ASSUME k \in 1..n, k >= from, k <= to PROVE k <= hi
          <6>1. CASE hi = to
            BY <5>6, <6>1
          <6>2. CASE hi = n
            BY <5>6, <6>2
          <6>. QED
            BY <5>2, <6>1, <6>2
        <5>. QED
          BY <5>4, <5>5, <5>6
      <4>2. lo..hi = {j \in 1..n : j >= home - asked1 /\ j <= home + asked2}
        <5>. HIDE DEF home, lo, hi, asked1, asked2, n
        <5>1. \A k \in Int : k \in lo..hi <=> k \in {j \in 1..n : j >= home - asked1 /\ j <= home + asked2}
          BY <4>1
        <5>2. lo..hi \subseteq Int /\ {j \in 1..n : j >= home - asked1 /\ j <= home + asked2} \subseteq Int
          BY <3>12
        <5>. QED
          BY <5>1, <5>2
      <4>. QED
        BY <3>10, <4>2 DEF Part, Around
    <3>. QED
      BY <3>2, <3>14
  <2>. HIDE DEF f, W
  <2>4. d.pc = "answered" /\ d.start = c.start /\ d.asked = c.asked /\ d.data = f
    <3>. HIDE DEF c
    <3>. QED
      BY <1>1 DEF Call
  <2>. HIDE DEF c, d
  <2>5. Around(d, AllNumbers, Uptos) = Around(c, AllNumbers, Uptos)
    BY <2>4 DEF Around, Home
  <2>6. Exact(d, ptr, AllNumbers, Tables, Uptos)
    BY <1>2, <2>2, <2>3, <2>4, <2>5 DEF Exact, Copying
  <2>. QED
    BY <2>1, <2>6, MoveExact
<1>. QED
  BY <1>3, <1>4, <1>5 DEF PeekAfter

\* A step of a call leaves those of other readers alone.
LEMMA ContinueMoves ==
  ASSUME IInv, NEW r \in Readers, NEW c, NEW take, NEW release, Continue(r, c, take, release)
  PROVE  \A q \in Readers : q # r => call'[q] = call[q]
<1>1. call \in [Readers -> Call] /\ call' = [call EXCEPT ![r] = c]
  BY DEF IInv, CallsOK, Continue
<1>. QED
  BY <1>1

\* The same for every step of a call, which are none of an idle one.
LEMMA WorkMoves ==
  ASSUME IInv, NEW r \in Readers, Work(r)
  PROVE  call[r].pc # "idle" /\ \A q \in Readers : q # r => call'[q] = call[q]
<1> DEFINE Alone == \A q \in Readers : q # r => call'[q] = call[q]
<1>1. ASSUME NEW what, Fail(what) PROVE Alone
  BY <1>1 DEF Fail
<1>2. ASSUME NEW c, NEW take, NEW release, Continue(r, c, take, release) PROVE Alone
  BY <1>2, ContinueMoves
<1> SUFFICES call[r].pc # "idle" /\ Alone
  OBVIOUS
<1>. HIDE DEF Alone
<1>3. CASE Search(r)
  BY <1>1, <1>2, <1>3 DEF Search
<1>4. CASE Nearest(r)
  BY <1>1, <1>2, <1>4 DEF Nearest
<1>5. CASE CopyStart(r)
  BY <1>1, <1>2, <1>5 DEF CopyStart
<1>6. CASE PeekBefore(r)
  BY <1>2, <1>6 DEF PeekBefore
<1>7. CASE LockBefore(r)
  BY <1>1, <1>2, <1>7 DEF LockBefore
<1>8. CASE PeekAfter(r)
  BY <1>2, <1>8 DEF PeekAfter
<1>9. CASE LockAfter(r)
  BY <1>1, <1>2, <1>9 DEF LockAfter
<1>10. CASE Return(r)
  BY <1>2, <1>10 DEF Return
<1>. QED
  BY <1>3, <1>4, <1>5, <1>6, <1>7, <1>8, <1>9, <1>10 DEF Work

\* A step of an exact call leaves the exact calls exact.
LEMMA WorkExact ==
  ASSUME NEW Q, XInv(Q), NEW r \in Readers, r \in Q, Work(r)
  PROVE  ExactOK(Q)'
<1>1. CASE Return(r)
  BY <1>1, NoCallExact, MoveExact DEF Return
<1>. QED
  BY <1>1, SearchExact, NearestExact, CopyStartExact, PeekBeforeExact, LockBeforeExact,
     PeekAfterExact, LockAfterExact DEF Work

\* Inserts, deletes and refused requests change no call.
LEMMA UpdateMoves ==
  ASSUME NEW u \in Updaters, Update(u)
  PROVE  call' = call
BY DEF Update, Enter, EnterHalf, EnterRefused, Fill, Delete, DeleteLast, UseFreed, Fail,
       ClearPointer, Wipe

\* The first state is exact.
LEMMA ExactInit == Init /\ quiet = {} => HInv
BY InitOK DEF HInv

\* Every step keeps the calls exact that saw no table change.
LEMMA ExactNext == HInv /\ [Next /\ Watch]_quietVars => HInv'
<1> SUFFICES ASSUME HInv, [Next /\ Watch]_quietVars PROVE HInv'
  OBVIOUS
<1>3. IInv'
  <2>1. UNCHANGED quietVars => UNCHANGED vars
    BY DEF quietVars
  <2>. QED
    BY <2>1, NextOK DEF HInv
<1> SUFFICES quiet' \subseteq Readers /\ (quiet' # {} => ExactOK(quiet)')
  BY <1>3 DEF HInv
<1>1. CASE UNCHANGED quietVars
  <2>1. UNCHANGED index /\ quiet' = quiet /\ call' = call
    BY <1>1 DEF quietVars, vars
  <2> SUFFICES ASSUME quiet # {} PROVE ExactOK(quiet)'
    BY <2>1 DEF HInv
  <2>2. PICK Q : Q = quiet
    OBVIOUS
  <2>3. XInv(Q)
    BY <2>2 DEF HInv, XInv
  <2>4. ExactOK(Q)'
    BY <2>1, <2>3, SameExact
  <2>5. Q = quiet'
    BY <2>1, <2>2
  <2>. QED
    BY <2>4, <2>5 DEF ExactOK
<1>2. CASE Next /\ Watch
  <2>1. quiet' \subseteq Readers
    BY <1>2 DEF Watch
  <2> SUFFICES ASSUME quiet' # {} PROVE ExactOK(quiet)'
    BY <2>1
  <2>2. PICK Q : Q = quiet'
    OBVIOUS
  <2>3. /\ UNCHANGED index /\ Q \subseteq Readers
        /\ \A q \in Q : /\ call'[q].pc # "idle"
                        /\ q \in quiet \/ (call[q].pc = "idle" /\ NothingFreed)
    BY <1>2, <2>1, <2>2 DEF Watch
  <2>4. \A s \in Slots : ~Freed(ptr[s])
    BY <2>2, <2>3 DEF HInv, ExactOK, NothingFreed
  <2>5. ASSUME NEW P, P \subseteq Q, P \subseteq quiet PROVE XInv(P)
    BY <2>3, <2>4, <2>5 DEF HInv, XInv, ExactOK
  <2>6. ASSUME NEW r \in Readers, Work(r) PROVE ExactOK(Q)'
    <3>1. Q \subseteq quiet
      BY <2>3, <2>6, WorkMoves DEF HInv
    <3>2. XInv(Q)
      BY <2>5, <3>1
    <3>3. CASE r \in Q
      BY <2>6, <3>2, <3>3, WorkExact
    <3>4. CASE r \notin Q
      <4>1. \A q \in Q : call'[q] = call[q]
        BY <2>3, <2>6, <3>4, WorkMoves DEF HInv
      <4>. QED
        BY <2>3, <3>2, <4>1, SameExact
    <3>. QED
      BY <3>3, <3>4
  <2>7. ASSUME NEW r \in Readers, NEW req \in Requests, Begin(r, req) PROVE ExactOK(Q)'
    <3>1. \A q \in Readers : q # r => call'[q] = call[q]
      BY <2>7, ContinueMoves DEF Begin, HInv
    <3>2. Q \ {r} \subseteq quiet
      BY <2>3, <3>1
    <3>3. XInv(Q \ {r})
      BY <2>5, <3>2
    <3>. QED
      BY <2>7, <3>3, BeginExact
  <2>8. ASSUME call' = call PROVE ExactOK(Q)'
    <3>1. Q \subseteq quiet
      BY <2>3, <2>8
    <3>2. XInv(Q)
      BY <2>5, <3>1
    <3>. QED
      BY <2>3, <2>8, <3>2, SameExact
  <2>9. ExactOK(Q)'
    BY <1>2, <2>6, <2>7, <2>8, UpdateMoves DEF Next, BeginRefused
  <2>. QED
    BY <2>2, <2>9 DEF ExactOK
<1>. QED
  BY <1>1, <1>2

\* The start entry is where Home says, and nowhere else.
LEMMA WindowIsAround ==
  ASSUME HeapOK, NEW c \in Call, c.asked # << >>, c.start \in Slots \X (0..(Most - 1)),
         c.start[2] < Len(Tables[c.start[1]])
  PROVE  Window(c) = Around(c, AllNumbers, Uptos)
<1> DEFINE all  == AllNumbers
           slot == c.start[1]
           e    == c.start[2]
           base == Uptos[slot - 1]
           home == Home(c, Uptos)
           n    == Len(all)
           i    == CHOOSE j \in 1..n : all[j] = StartNumber(c)
<1>1. /\ slot \in Slots /\ e \in Nat /\ base \in Nat
      /\ Tables[slot] = Table(slot) /\ Len(Table(slot)) \in Nat
      /\ Uptos[slot] = base + Len(Table(slot)) /\ Uptos[slot] <= n /\ n \in Nat
  <2>1. slot \in Slots /\ e \in Nat
    BY SizeOfPostfixes
  <2>. HIDE DEF slot, e
  <2>. QED
    BY <2>1, SlotFacts DEF base
<1>2. home = base + (e + 1) /\ e + 1 \in 1..Len(Table(slot)) /\ home \in 1..n
  <2>1. home = base + e + 1 /\ e < Len(Table(slot))
    BY <1>1 DEF Home
  <2>. HIDE DEF slot, e, base, home, n
  <2>. QED
    BY <1>1, <2>1
<1>3. /\ \A j, k \in 1..n : all[j] = all[k] => j = k
      /\ \A s \in Slots : \A k \in 1..Len(Tables[s]) : all[Uptos[s - 1] + k] = <<s, Tables[s][k]>>
  BY BlocksOK DEF Blocks
<1>4. all[home] = StartNumber(c)
  <2>1. StartNumber(c) = <<slot, Table(slot)[e + 1]>>
    BY DEF StartNumber
  <2>2. all[base + (e + 1)] = <<slot, Tables[slot][e + 1]>>
    <3>. HIDE DEF slot, e, all, n, home
    <3>. QED
      BY <1>1, <1>2, <1>3
  <2>. HIDE DEF slot, e, all, n, home, base
  <2>. QED
    BY <1>1, <1>2, <2>1, <2>2
<1>5. i = home
  <2>. HIDE DEF all, n, home
  <2>. QED
    BY <1>2, <1>3, <1>4
<1>6. Window(c) = {all[j] : j \in {k \in 1..n : k >= i - c.asked[1] /\ k <= i + c.asked[2]}}
  BY DEF Window
<1>. HIDE DEF i, all, n
<1>. QED
  BY <1>5, <1>6 DEF Around, all, n

(***************************************************************************)
(* nlkup_get_range_around: when no insert or delete came between the begin *)
(* of a call and its answer, the reply is exactly the window of the stored *)
(* numbers around the start, for every directory, every number of slots,   *)
(* readers and updaters and all counts, although it is gathered table by   *)
(* table, and first in the order of the tables.                            *)
(***************************************************************************)
THEOREM WindowsExact == QuietSpec => []WindowExact
<1>1. ASSUME HInv PROVE WindowExact
  <2> SUFFICES ASSUME NEW Q, Q = quiet, NEW r \in Q, call[r].pc = "answered"
               PROVE  call[r].data = InOrder(Window(call[r]), Alphabetical)
    BY DEF WindowExact
  <2> XInv(Q)
    BY <1>1 DEF HInv, XInv
  <2> DEFINE c == call[r]
  <2>1. HeapOK /\ CallOK(c) /\ c \in Call /\ Exact(c, ptr, AllNumbers, Tables, Uptos)
    BY ExactTyped
  <2>2. /\ c.asked # << >> /\ c.start \in Slots \X (0..(Most - 1))
        /\ c.start[2] < Len(Tables[c.start[1]])
        /\ c.data = Ranked(Around(c, AllNumbers, Uptos), Alpha(Around(c, AllNumbers, Uptos)))
    <3>1. c.pc = "answered"
      OBVIOUS
    <3>. HIDE DEF c
    <3>. QED
      BY <2>1, <3>1 DEF CallOK, Exact
  <2>. HIDE DEF c
  <2> DEFINE W == Window(c)
  <2>3. W = Around(c, AllNumbers, Uptos)
    BY <2>1, <2>2, WindowIsAround
  <2>4. W \subseteq Numbers
    <3>1. AllNumbers \in Seq(Numbers)
      BY <2>1, BlocksOK DEF Blocks
    <3>2. \A k \in 1..Len(AllNumbers) : AllNumbers[k] \in Numbers
      BY <3>1
    <3>. QED
      BY <2>3, <3>2 DEF Around
  <2>5. c.data = Ranked(W, Alpha(W))
    BY <2>2, <2>3
  <2>. HIDE DEF W
  <2>6. c.data = InOrder(W, Alphabetical)
    BY <2>4, <2>5, AlphaOrders
  <2>. QED
    BY <2>6 DEF W, c
<1>. QED
  BY ExactInit, ExactNext, <1>1, PTL DEF QuietSpec

-----------------------------------------------------------------------------
\* The writer of a reply.

Level == [type : {"object", "array"}, first_value : BOOLEAN]

Buffer == [text : Seq(STRING), cnt : Nat, sz : Nat, levels : Seq(Level),
           failed : BOOLEAN]

\* The terminating zero has room.
HasRoom(j) == j \in Buffer /\ j.cnt < j.sz

\* A piece as wide as a block at most.
Fits(s) == s \in STRING /\ Width(s) \in 0..Block

\* What is between the values fits.
DelimitersFit == \A s \in Delimiters : Fits(s)

\* grow_bufr changes the size alone.
LEMMA GrowBufrProperties ==
  ASSUME NEW j, j \in Buffer
  PROVE  /\ GrowBufr(j) \in Buffer
         /\ GrowBufr(j).sz = j.sz + Block
         /\ GrowBufr(j).cnt = j.cnt /\ GrowBufr(j).text = j.text
         /\ GrowBufr(j).levels = j.levels /\ GrowBufr(j).failed = j.failed
<1> DEFINE n == j.sz + Block
<1>1. j.sz \in Nat
  BY DEF Buffer
<1>2. n \in Nat
  BY <1>1, BlockAssumption
<1>3. GrowBufr(j) = [j EXCEPT !.sz = n]
  BY DEF GrowBufr
<1>. HIDE DEF n
<1>4. /\ GrowBufr(j) \in Buffer
      /\ GrowBufr(j).sz = n
      /\ GrowBufr(j).cnt = j.cnt /\ GrowBufr(j).text = j.text
      /\ GrowBufr(j).levels = j.levels /\ GrowBufr(j).failed = j.failed
  BY <1>2, <1>3 DEF Buffer
<1>. QED
  BY <1>4 DEF n

(***************************************************************************)
(* append_str: the piece is appended whole, or is empty, and the levels    *)
(* are left alone.                                                         *)
(***************************************************************************)
THEOREM AppendStrWhole ==
  ASSUME NEW j, HasRoom(j), NEW s, Fits(s)
  PROVE  /\ HasRoom(AppendStr(j, s))
         /\ AppendStr(j, s).text = IF Width(s) = 0 THEN j.text ELSE Append(j.text, s)
         /\ AppendStr(j, s).levels = j.levels
         /\ AppendStr(j, s).failed = j.failed
<1> DEFINE w == Width(s)
           k == IF j.cnt + w >= j.sz THEN GrowBufr(j) ELSE j
           l == [k EXCEPT !.text = Append(@, s), !.cnt = @ + w]
<1>1. j \in Buffer /\ j.cnt \in Nat /\ j.sz \in Nat /\ j.cnt < j.sz
  BY DEF HasRoom, Buffer
<1>2. s \in STRING /\ w \in Nat /\ w <= Block
  <2>1. s \in STRING /\ w \in 0..Block
    BY DEF Fits
  <2>2. Block \in Nat
    BY BlockAssumption
  <2>3. \A n \in 0..Block : n \in Nat /\ n <= Block
    BY <2>2
  <2>. HIDE DEF w, k, l
  <2>. QED
    BY <2>1, <2>3
<1>3. CASE w = 0
  BY <1>3 DEF AppendStr
<1>4. CASE w # 0
  <2>1. /\ k \in Buffer /\ k.cnt = j.cnt /\ k.text = j.text
        /\ k.levels = j.levels /\ k.failed = j.failed
    BY <1>1, GrowBufrProperties
  <2>2. k.sz \in Nat /\ k.cnt + w < k.sz
    <3>1. CASE j.cnt + w >= j.sz
      <4>1. k.sz = j.sz + Block
        BY <1>1, <3>1, GrowBufrProperties
      <4>. HIDE DEF w, k
      <4>. QED
        BY <1>1, <1>2, <2>1, <4>1, BlockAssumption
    <3>2. CASE ~(j.cnt + w >= j.sz)
      <4>1. k = j
        BY <3>2
      <4>. HIDE DEF w, k
      <4>. QED
        BY <1>1, <1>2, <3>2, <4>1
    <3>. QED
      BY <3>1, <3>2
  <2>3. AppendStr(j, s) = l
    BY <1>4, <2>2 DEF AppendStr
  <2>4. l \in Buffer /\ l.cnt = k.cnt + w /\ l.sz = k.sz /\ l.text = Append(k.text, s)
        /\ l.levels = k.levels /\ l.failed = k.failed
    <3>. HIDE DEF w, k
    <3>1. k.text \in Seq(STRING) /\ k.cnt \in Nat
      BY <2>1 DEF Buffer
    <3>2. Append(k.text, s) \in Seq(STRING)
      BY <1>2, <3>1, AppendProperties
    <3>3. k.cnt + w \in Nat
      BY <1>2, <3>1
    <3>. DEFINE t == Append(k.text, s)
                c == k.cnt + w
    <3>4. l = [k EXCEPT !.text = t, !.cnt = c]
      OBVIOUS
    <3>5. t \in Seq(STRING) /\ c \in Nat
      BY <3>2, <3>3
    <3>. HIDE DEF t, c, l
    <3>6. l \in Buffer /\ l.cnt = c /\ l.sz = k.sz /\ l.text = t
          /\ l.levels = k.levels /\ l.failed = k.failed
      BY <2>1, <3>4, <3>5 DEF Buffer
    <3>. QED
      BY <3>6 DEF t, c
  <2>5. l.cnt < l.sz
    BY <2>2, <2>4
  <2>6. HasRoom(l)
    BY <2>4, <2>5 DEF HasRoom
  <2>. QED
    BY <1>4, <2>1, <2>3, <2>4, <2>6
<1>. QED
  BY <1>3, <1>4

\* The comma before a value changes no level but the flag of the innermost one.
LEMMA SeparatedHasRoom ==
  ASSUME NEW j, HasRoom(j), DelimitersFit
  PROVE  HasRoom(Separated(j)) /\ Len(Separated(j).levels) = Len(j.levels)
<1>1. Fits(", ")
  BY DEF DelimitersFit, Delimiters
<1>2. j \in Buffer /\ j.levels \in Seq(Level) /\ j.cnt < j.sz
  BY DEF HasRoom, Buffer
<1>3. CASE Len(j.levels) = 0
  BY <1>3 DEF Separated
<1>4. CASE Len(j.levels) # 0 /\ j.levels[Len(j.levels)].first_value
  <2> DEFINE top == Len(j.levels)
             marked == [j.levels EXCEPT ![top].first_value = FALSE]
  <2>1. top \in 1..Len(j.levels) /\ j.levels[top] \in Level
    BY <1>2, <1>4
  <2>2. [j.levels[top] EXCEPT !.first_value = FALSE] \in Level
    BY <2>1 DEF Level
  <2>3. marked \in Seq(Level) /\ Len(marked) = Len(j.levels)
    BY <1>2, <2>1, <2>2
  <2>4. Separated(j) = [j EXCEPT !.levels = marked]
    BY <1>4 DEF Separated
  <2>. QED
    BY <1>2, <2>3, <2>4 DEF HasRoom, Buffer
<1>5. CASE Len(j.levels) # 0 /\ ~j.levels[Len(j.levels)].first_value
  BY <1>1, <1>5, AppendStrWhole DEF Separated
<1>. QED
  BY <1>3, <1>4, <1>5

\* The quoted name of a field, or nothing.
LEMMA NamedHasRoom ==
  ASSUME NEW j, HasRoom(j), DelimitersFit, NEW name, Fits(name)
  PROVE  HasRoom(Named(j, name)) /\ Named(j, name).levels = j.levels
<1> DEFINE a == AppendStr(j, "\"")
           b == AppendStr(a, name)
           c == AppendStr(b, "\": ")
<1>1. Fits("\"") /\ Fits("\": ")
  BY DEF DelimitersFit, Delimiters
<1>2. HasRoom(a) /\ a.levels = j.levels
  BY <1>1, AppendStrWhole
<1>3. HasRoom(b) /\ b.levels = j.levels
  BY <1>2, AppendStrWhole
<1>4. HasRoom(c) /\ c.levels = j.levels
  BY <1>1, <1>3, AppendStrWhole
<1>. QED
  BY <1>4 DEF Named

(***************************************************************************)
(* push_level, pop_level and json_append_str keep room, whatever is in the *)
(* buffer and whatever levels are open.                                    *)
(***************************************************************************)
THEOREM WriterKeepsRoom ==
  ASSUME NEW j, HasRoom(j), DelimitersFit,
         NEW name, Fits(name), NEW val, Fits(val), NEW type \in {"object", "array"}
  PROVE  /\ HasRoom(PushLevel(j, type, name))
         /\ HasRoom(PopLevel(j, type))
         /\ HasRoom(AppendField(j, name, val))
<1>1. HasRoom(PushLevel(j, type, name))
  <2> DEFINE delim  == IF type = "object" THEN "{ " ELSE "[ "
             opened == AppendStr(Named(Separated(j), name), delim)
  <2>1. Fits(delim)
    BY DEF DelimitersFit, Delimiters
  <2>2. HasRoom(Named(Separated(j), name))
    BY SeparatedHasRoom, NamedHasRoom
  <2>3. HasRoom(opened)
    BY <2>1, <2>2, AppendStrWhole
  <2>4. [type |-> type, first_value |-> TRUE] \in Level
    BY DEF Level
  <2>5. opened.levels \in Seq(Level)
    BY <2>3 DEF HasRoom, Buffer
  <2>6. Append(opened.levels, [type |-> type, first_value |-> TRUE]) \in Seq(Level)
    BY <2>4, <2>5, AppendProperties
  <2>7. HasRoom([opened EXCEPT !.levels = Append(@, [type |-> type, first_value |-> TRUE])])
    BY <2>3, <2>6 DEF HasRoom, Buffer
  <2>. QED
    BY <2>7 DEF PushLevel
<1>2. HasRoom(PopLevel(j, type))
  <2> DEFINE top    == Len(j.levels)
             closed == AppendStr(j, IF type = "object" THEN " }" ELSE " ]")
  <2>1. Fits(IF type = "object" THEN " }" ELSE " ]")
    BY DEF DelimitersFit, Delimiters
  <2>2. HasRoom(closed) /\ closed.levels = j.levels
    BY <2>1, AppendStrWhole
  <2>3. j.levels \in Seq(Level) /\ j \in Buffer
    BY DEF HasRoom, Buffer
  <2>4. CASE top = 0 \/ (top > 0 /\ j.levels[top].type # type)
    BY <2>3, <2>4 DEF PopLevel, HasRoom, Buffer
  <2>5. CASE ~(top = 0 \/ (top > 0 /\ j.levels[top].type # type))
    <3>1. SubSeq(closed.levels, 1, top - 1) \in Seq(Level)
      <4>. DEFINE q == closed.levels
      <4>1. q \in Seq(Level) /\ top = Len(q)
        BY <2>2, <2>3
      <4>2. Len(q) \in Nat /\ \A i \in 1..(Len(q) - 1) : q[i] \in Level
        <5>. HIDE DEF q
        <5>. QED
          BY <4>1
      <4>3. SubSeq(q, 1, Len(q) - 1) \in Seq(Level)
        <5>. HIDE DEF q
        <5>1. 1 \in Int /\ Len(q) - 1 \in Int
          BY <4>2
        <5>. QED
          BY <4>2, <5>1, SubSeqProperties
      <4>. QED
        BY <4>1, <4>3
    <3>2. HasRoom([closed EXCEPT !.levels = SubSeq(@, 1, top - 1)])
      BY <2>2, <3>1 DEF HasRoom, Buffer
    <3>. QED
      BY <2>5, <3>2 DEF PopLevel
  <2>. QED
    BY <2>4, <2>5
<1>3. HasRoom(AppendField(j, name, val))
  <2>1. HasRoom(Named(Separated(j), name))
    BY SeparatedHasRoom, NamedHasRoom
  <2>2. HasRoom(AppendStr(Named(Separated(j), name), val))
    BY <2>1, AppendStrWhole
  <2>3. HasRoom([j EXCEPT !.failed = TRUE])
    BY DEF HasRoom, Buffer
  <2>. QED
    BY <2>2, <2>3 DEF AppendField
<1>. QED
  BY <1>1, <1>2, <1>3

-----------------------------------------------------------------------------
\* The body of a reply.

\* k is j with the pieces ps written, and with these levels.
Wrote(j, k, ps, levels) ==
  /\ HasRoom(k) /\ ps \in Seq(STRING)
  /\ k.text = j.text \o ps
  /\ k.levels = levels /\ k.failed = j.failed

\* A piece alone.
LEMMA Single ==
  ASSUME NEW S, NEW x \in S
  PROVE  <<x>> \in Seq(S)
OBVIOUS

\* What is written one after the other.
LEMMA WroteBoth ==
  ASSUME NEW j, HasRoom(j), NEW k, NEW ps, NEW some, Wrote(j, k, ps, some),
         NEW l, NEW qs, NEW levels, Wrote(k, l, qs, levels)
  PROVE  Wrote(j, l, ps \o qs, levels)
<1>1. j.text \in Seq(STRING) /\ ps \in Seq(STRING) /\ qs \in Seq(STRING)
  BY DEF Wrote, HasRoom, Buffer
<1>2. k.text = j.text \o ps /\ l.text = k.text \o qs
  BY DEF Wrote
<1>3. l.text = j.text \o (ps \o qs)
  <2> DEFINE t == j.text
             u == l.text
  <2>1. u = (t \o ps) \o qs /\ t \in Seq(STRING)
    BY <1>1, <1>2
  <2>. HIDE DEF t, u
  <2>2. (t \o ps) \o qs = t \o (ps \o qs)
    BY <1>1, <2>1, ConcatAssociative
  <2>3. u = t \o (ps \o qs)
    BY <2>1, <2>2
  <2>. QED
    BY <2>3 DEF t, u
<1>4. ps \o qs \in Seq(STRING)
  BY <1>1, ConcatProperties
<1>. QED
  BY <1>3, <1>4 DEF Wrote

\* Nothing is written.
LEMMA WroteNothing ==
  ASSUME NEW j, HasRoom(j)
  PROVE  Wrote(j, j, << >>, j.levels)
<1>1. j.text \in Seq(STRING)
  BY DEF HasRoom, Buffer
<1>2. j.text \o << >> = j.text /\ << >> \in Seq(STRING)
  BY <1>1, ConcatEmptySeq, EmptySeq
<1>. QED
  BY <1>2 DEF Wrote

\* append_str writes its piece.
LEMMA AppendStrWrote ==
  ASSUME NEW j, HasRoom(j), NEW s, Fits(s)
  PROVE  Wrote(j, AppendStr(j, s), Piece(s), j.levels)
<1>1. j.text \in Seq(STRING) /\ s \in STRING
  BY DEF HasRoom, Buffer, Fits
<1>2. Piece(s) \in Seq(STRING)
  <2>1. <<s>> \in Seq(STRING) /\ << >> \in Seq(STRING)
    BY <1>1, Single, EmptySeq
  <2>. QED
    BY <2>1 DEF Piece
<1>3. CASE Width(s) = 0
  <2>1. Piece(s) = << >> /\ j.text \o << >> = j.text
    BY <1>1, <1>3, ConcatEmptySeq DEF Piece
  <2>. QED
    BY <1>2, <1>3, <2>1, AppendStrWhole DEF Wrote
<1>4. CASE Width(s) # 0
  <2>1. Piece(s) = <<s>>
    BY <1>4 DEF Piece
  <2>2. Append(j.text, s) = j.text \o <<s>>
    BY <1>1
  <2>. QED
    BY <1>2, <1>4, <2>1, <2>2, AppendStrWhole DEF Wrote
<1>. QED
  BY <1>3, <1>4

\* What is not empty is a piece.
LEMMA DelimiterPiece ==
  ASSUME NEW s \in Delimiters \cup Labels
  PROVE  Fits(s) /\ Piece(s) = <<s>>
<1>1. s \in STRING
  BY PieceAssumption
<1>2. Width(s) \in 1..Block /\ Block \in Nat
  BY PieceAssumption, BlockAssumption
<1>3. Width(s) \in 0..Block /\ Width(s) # 0
  BY <1>2
<1>. QED
  BY <1>1, <1>3 DEF Fits, Piece

\* append_str writes a piece that is not empty.
LEMMA DelimiterWrote ==
  ASSUME NEW j, HasRoom(j), NEW s \in Delimiters \cup Labels
  PROVE  Wrote(j, AppendStr(j, s), <<s>>, j.levels)
BY AppendStrWrote, DelimiterPiece

\* The last of a sequence is replaced.
LEMMA TopReplaced ==
  ASSUME NEW S, NEW rest \in Seq(S), NEW x \in S, NEW y \in S
  PROVE  [Append(rest, x) EXCEPT ![Len(rest) + 1] = y] = Append(rest, y)
<1> DEFINE s == Append(rest, x)
           n == Len(rest) + 1
           t == Append(rest, y)
           e == [s EXCEPT ![n] = y]
<1>1. /\ s \in Seq(S) /\ Len(rest) \in Nat /\ Len(s) = n
      /\ \A i \in 1..Len(rest) : s[i] = rest[i]
  BY AppendProperties
<1>2. /\ t \in Seq(S) /\ Len(t) = n
      /\ \A i \in 1..Len(rest) : t[i] = rest[i]
      /\ t[n] = y
  BY AppendProperties
<1>3. n \in 1..Len(s)
  BY <1>1
<1>. HIDE DEF s, t
<1>4. /\ e \in Seq(S) /\ Len(e) = Len(s)
      /\ \A i \in 1..Len(s) : e[i] = IF i = n THEN y ELSE s[i]
  <2>. HIDE DEF n
  <2>. QED
    BY <1>1, <1>3, ExceptSeq
<1>. HIDE DEF e
<1>5. \A i \in 1..Len(e) : e[i] = t[i]
  BY <1>1, <1>2, <1>4
<1>6. e = t
  BY <1>1, <1>2, <1>4, <1>5, SeqEqual
<1>. QED
  BY <1>6 DEF e, s, t

\* A level on top of others.
LEMMA OnTop ==
  ASSUME NEW rest \in Seq(Level), NEW x \in Level, NEW s, s = Append(rest, x)
  PROVE  /\ s \in Seq(Level)
         /\ Len(rest) \in Nat /\ Len(s) = Len(rest) + 1
         /\ s[Len(s)] = x
         /\ SubSeq(s, 1, Len(s) - 1) = rest
         /\ \A y \in Level : [s EXCEPT ![Len(s)] = y] = Append(rest, y)
<1>1. /\ s \in Seq(Level)
      /\ Len(rest) \in Nat /\ Len(s) = Len(rest) + 1
      /\ s[Len(rest) + 1] = x
      /\ \A i \in 1..Len(rest) : s[i] = rest[i]
  BY AppendProperties
<1>2. SubSeq(Append(rest, x), 1, Len(rest)) = rest
  OBVIOUS
<1>3. Len(s) - 1 = Len(rest)
  BY <1>1
<1>4. \A y \in Level : [s EXCEPT ![Len(s)] = y] = Append(rest, y)
  BY <1>1, TopReplaced
<1>. QED
  BY <1>1, <1>2, <1>3, <1>4

\* A level is its type and its flag.
LEMMA RecordOfFields ==
  ASSUME NEW x \in Level
  PROVE x = [type |-> x.type, first_value |-> x.first_value]
BY DEF Level

\* The flag of a level is cleared.
LEMMA Marked ==
  ASSUME NEW x \in Level
  PROVE [x EXCEPT !.first_value = FALSE] = [type |-> x.type, first_value |-> FALSE]
<1> DEFINE z == [x EXCEPT !.first_value = FALSE]
<1>1. z \in Level /\ z.type = x.type /\ z.first_value = FALSE
  BY DEF Level
<1>. HIDE DEF z
<1>2. z = [type |-> z.type, first_value |-> z.first_value]
  BY <1>1, RecordOfFields
<1>. QED
  BY <1>1, <1>2 DEF z

\* A level as push_level opens it, and after its first value.
Opened(type, first) == [type |-> type, first_value |-> first]

\* The comma before a value, and the flag.
LEMMA SeparatedWrote ==
  ASSUME NEW j, HasRoom(j), NEW rest \in Seq(Level), NEW type \in {"object", "array"},
         NEW first \in BOOLEAN, j.levels = Append(rest, Opened(type, first))
  PROVE  Wrote(j, Separated(j), Comma(first), Append(rest, Opened(type, FALSE)))
<1> DEFINE x   == Opened(type, first)
           y   == Opened(type, FALSE)
           top == Len(j.levels)
<1>1. x \in Level /\ y \in Level /\ x.first_value = first
  BY DEF Opened, Level
<1>2. j \in Buffer /\ j.text \in Seq(STRING)
  BY DEF HasRoom, Buffer
<1>3. top = Len(rest) + 1 /\ top # 0 /\ j.levels[top] = x
      /\ [j.levels EXCEPT ![top] = y] = Append(rest, y)
      /\ Append(rest, y) \in Seq(Level)
  <2> DEFINE s == j.levels
  <2>1. s = Append(rest, x)
    OBVIOUS
  <2>. HIDE DEF s, x, y
  <2>2. /\ Len(rest) \in Nat /\ Len(s) = Len(rest) + 1 /\ s[Len(s)] = x
        /\ [s EXCEPT ![Len(s)] = y] = Append(rest, y)
    BY <1>1, <2>1, OnTop
  <2>3. Append(rest, y) \in Seq(Level)
    BY <1>1, AppendProperties
  <2>. QED
    BY <2>2, <2>3 DEF s
<1>4. CASE first
  <2>1. [x EXCEPT !.first_value = FALSE] = y
    <3>1. x.type = type
      BY DEF Opened
    <3>. HIDE DEF x
    <3>2. [x EXCEPT !.first_value = FALSE] = [type |-> type, first_value |-> FALSE]
      BY <1>1, <3>1, Marked
    <3>. QED
      BY <3>2 DEF Opened
  <2> DEFINE marked == Append(rest, y)
  <2>2. Separated(j) = [j EXCEPT !.levels = marked]
    BY <1>1, <1>3, <1>4, <2>1 DEF Separated
  <2>3. marked \in Seq(Level)
    BY <1>3
  <2>. HIDE DEF marked
  <2>4. HasRoom(Separated(j)) /\ Separated(j).text = j.text /\ Separated(j).levels = marked
        /\ Separated(j).failed = j.failed
    BY <1>2, <2>2, <2>3 DEF HasRoom, Buffer
  <2>5. Comma(first) = << >> /\ j.text \o << >> = j.text /\ << >> \in Seq(STRING)
    BY <1>2, <1>4, ConcatEmptySeq, EmptySeq DEF Comma
  <2>. QED
    BY <2>4, <2>5 DEF Wrote, marked
<1>5. CASE ~first
  <2>1. first = FALSE /\ y = x
    BY <1>5
  <2>2. Separated(j) = AppendStr(j, ", ")
    BY <1>1, <1>3, <1>5 DEF Separated
  <2>3. Comma(first) = <<", ">>
    BY <1>5 DEF Comma
  <2>4. ", " \in Delimiters \cup Labels
    BY DEF Delimiters
  <2>. QED
    BY <2>1, <2>2, <2>3, <2>4, DelimiterWrote
<1>. QED
  BY <1>4, <1>5

\* The name of a field, with its quotes.
LEMMA NamedWrote ==
  ASSUME NEW j, HasRoom(j), NEW name \in Labels
  PROVE  Wrote(j, Named(j, name), Label(name), j.levels)
<1> DEFINE a == AppendStr(j, "\"")
           b == AppendStr(a, name)
           c == AppendStr(b, "\": ")
<1>1. "\"" \in Delimiters \cup Labels /\ "\": " \in Delimiters \cup Labels
      /\ name \in Delimiters \cup Labels /\ name # ""
  BY DEF Delimiters, Labels
<1>2. Wrote(j, a, <<"\"">>, j.levels)
  BY <1>1, DelimiterWrote
<1>3. HasRoom(a) /\ a.levels = j.levels
  BY <1>2 DEF Wrote
<1>4. Wrote(a, b, <<name>>, j.levels)
  BY <1>1, <1>3, DelimiterWrote
<1>5. HasRoom(b) /\ b.levels = j.levels
  BY <1>4 DEF Wrote
<1>6. Wrote(b, c, <<"\": ">>, j.levels)
  BY <1>1, <1>5, DelimiterWrote
<1>. HIDE DEF a, b, c
<1>7. Wrote(j, c, (<<"\"">> \o <<name>>) \o <<"\": ">>, j.levels)
  <2>1. Wrote(j, b, <<"\"">> \o <<name>>, j.levels)
    BY <1>2, <1>4, WroteBoth
  <2>. QED
    BY <1>6, <2>1, WroteBoth
<1>8. (<<"\"">> \o <<name>>) \o <<"\": ">> = Label(name)
  BY DEF Label
<1>9. Named(j, name) = c
  BY <1>1 DEF Named, a, b, c
<1>. QED
  BY <1>7, <1>8, <1>9

\* What opens and closes an object or an array.
Header(name)  == IF name = "" THEN << >> ELSE Label(name)
Opening(type) == IF type = "object" THEN "{ " ELSE "[ "
Closing(type) == IF type = "object" THEN " }" ELSE " ]"

\* The name of a field or of a level, or nothing.
LEMMA HeaderWrote ==
  ASSUME NEW j, HasRoom(j), NEW name \in Labels \cup {""}
  PROVE  Wrote(j, Named(j, name), Header(name), j.levels)
<1>1. CASE name = ""
  BY <1>1, WroteNothing DEF Named, Header
<1>2. CASE name # ""
  BY <1>2, NamedWrote DEF Header
<1>. QED
  BY <1>1, <1>2

\* Another level may be opened.
LEMMA LevelLeft ==
  ASSUME NEW j, HasRoom(j), Len(j.levels) < MaxLevels
  PROVE  ~(Len(j.levels) >= MaxLevels)
<1> DEFINE s == j.levels
<1>1. s \in Seq(Level) /\ Len(s) < MaxLevels
  BY DEF HasRoom, Buffer
<1>. HIDE DEF s
<1>2. Len(s) \in Nat
  BY <1>1
<1>3. ~(Len(s) >= MaxLevels)
  BY <1>1, <1>2, BlockAssumption
<1>. QED
  BY <1>3 DEF s

\* json_push_level, after the comma.
LEMMA PushWrote ==
  ASSUME NEW j, HasRoom(j), NEW ps, NEW base, Wrote(j, Separated(j), ps, base),
         Len(j.levels) < MaxLevels, NEW type \in {"object", "array"},
         NEW name \in Labels \cup {""}
  PROVE  Wrote(j, PushLevel(j, type, name), ps \o (Header(name) \o <<Opening(type)>>),
               Append(base, Opened(type, TRUE)))
<1> DEFINE a == Separated(j)
           b == Named(a, name)
           c == AppendStr(b, Opening(type))
           d == [c EXCEPT !.levels = Append(@, Opened(type, TRUE))]
           qs == Header(name) \o <<Opening(type)>>
<1>1. HasRoom(a) /\ a.levels = base
  BY DEF Wrote
<1>2. Wrote(a, b, Header(name), base)
  BY <1>1, HeaderWrote
<1>3. HasRoom(b) /\ b.levels = base
  BY <1>2 DEF Wrote
<1>4. Wrote(b, c, <<Opening(type)>>, base)
  <2>1. Opening(type) \in Delimiters \cup Labels
    BY DEF Opening, Delimiters
  <2>. HIDE DEF b
  <2>. QED
    BY <1>3, <2>1, DelimiterWrote
<1>. HIDE DEF a, b, c
<1>5. Wrote(a, c, qs, base)
  BY <1>1, <1>2, <1>4, WroteBoth
<1>6. Wrote(j, c, ps \o qs, base)
  <2>1. Wrote(j, a, ps, base)
    BY DEF a
  <2>. HIDE DEF qs
  <2>. QED
    BY <1>5, <2>1, WroteBoth
<1>7. base \in Seq(Level) /\ c \in Buffer /\ c.levels = base /\ HasRoom(c)
  BY <1>6 DEF Wrote, HasRoom, Buffer
<1>8. Opened(type, TRUE) \in Level
  BY DEF Opened, Level
<1>9. Append(base, Opened(type, TRUE)) \in Seq(Level)
  BY <1>7, <1>8, AppendProperties
<1>10. PushLevel(j, type, name) = d
  <2>1. ~(Len(j.levels) >= MaxLevels)
    BY LevelLeft
  <2>. QED
    BY <2>1, Zenon DEF PushLevel, Opening, Opened, a, b, c
<1>11. /\ HasRoom(d) /\ d.text = c.text /\ d.failed = c.failed
       /\ d.levels = Append(base, Opened(type, TRUE))
  <2> DEFINE marked == Append(base, Opened(type, TRUE))
  <2>1. d = [c EXCEPT !.levels = marked] /\ marked \in Seq(Level)
    BY <1>7, <1>9
  <2>. HIDE DEF marked, d
  <2>2. HasRoom(d) /\ d.text = c.text /\ d.failed = c.failed /\ d.levels = marked
    BY <1>7, <2>1 DEF HasRoom, Buffer
  <2>. QED
    BY <2>2 DEF marked
<1>. HIDE DEF qs, d
<1>12. Wrote(j, d, ps \o qs, Append(base, Opened(type, TRUE)))
  BY <1>6, <1>11 DEF Wrote
<1>. QED
  BY <1>10, <1>12 DEF qs

\* json_pop_level, of the type that is innermost.
LEMMA PopWrote ==
  ASSUME NEW j, HasRoom(j), NEW rest \in Seq(Level), NEW type \in {"object", "array"},
         NEW first \in BOOLEAN, j.levels = Append(rest, Opened(type, first))
  PROVE  Wrote(j, PopLevel(j, type), <<Closing(type)>>, rest)
<1> DEFINE x == Opened(type, first)
           s == j.levels
           c == AppendStr(j, Closing(type))
           d == [c EXCEPT !.levels = SubSeq(@, 1, Len(s) - 1)]
<1>1. x \in Level /\ x.type = type
  BY DEF Opened, Level
<1>2. /\ Len(rest) \in Nat /\ Len(s) = Len(rest) + 1 /\ s[Len(s)] = x
      /\ SubSeq(s, 1, Len(s) - 1) = rest
  <2>1. s = Append(rest, x)
    OBVIOUS
  <2>. HIDE DEF s, x
  <2>. QED
    BY <1>1, <2>1, OnTop
<1>3. Wrote(j, c, <<Closing(type)>>, s)
  <2>1. Closing(type) \in Delimiters \cup Labels
    BY DEF Closing, Delimiters
  <2>. QED
    BY <2>1, DelimiterWrote
<1>4. Len(s) # 0 /\ s[Len(s)].type = type
  BY <1>1, <1>2
<1>5. PopLevel(j, type) = d
  BY <1>4 DEF PopLevel, Closing
<1>6. c.levels = s /\ HasRoom(c) /\ c \in Buffer
  BY <1>3 DEF Wrote, HasRoom
<1>. HIDE DEF c
<1>7. d = [c EXCEPT !.levels = rest]
  BY <1>2, <1>6
<1>. HIDE DEF d, s
<1>8. HasRoom(d) /\ d.text = c.text /\ d.failed = c.failed /\ d.levels = rest
  BY <1>6, <1>7 DEF HasRoom, Buffer
<1>. QED
  BY <1>3, <1>5, <1>8 DEF Wrote

\* json_append_str of a level.
LEMMA FieldWrote ==
  ASSUME NEW j, HasRoom(j), NEW rest \in Seq(Level), NEW type \in {"object", "array"},
         NEW first \in BOOLEAN, j.levels = Append(rest, Opened(type, first)),
         NEW name \in Labels, NEW val, Fits(val)
  PROVE  Wrote(j, AppendField(j, name, val), Comma(first) \o Field(name, val),
               Append(rest, Opened(type, FALSE)))
<1> DEFINE a == Separated(j)
           b == Named(a, name)
           c == AppendStr(b, val)
           base == Append(rest, Opened(type, FALSE))
<1>1. Wrote(j, a, Comma(first), base)
  BY SeparatedWrote
<1>2. HasRoom(a) /\ a.levels = base
  BY <1>1 DEF Wrote
<1>. HIDE DEF base, a
<1>3. Wrote(a, b, Label(name), base)
  BY <1>2, NamedWrote
<1>4. HasRoom(b) /\ b.levels = base
  BY <1>3 DEF Wrote
<1>. HIDE DEF b
<1>5. Wrote(b, c, Piece(val), base)
  BY <1>4, AppendStrWrote
<1>. HIDE DEF c
<1>6. Wrote(a, c, Field(name, val), base)
  BY <1>2, <1>3, <1>5, WroteBoth DEF Field
<1>7. Wrote(j, c, Comma(first) \o Field(name, val), base)
  BY <1>1, <1>6, WroteBoth
<1>8. j.levels # << >>
  <2>1. Opened(type, first) \in Level
    BY DEF Opened, Level
  <2>. QED
    BY <2>1, AppendProperties
<1>9. AppendField(j, name, val) = c
  BY <1>8 DEF AppendField, a, b, c
<1>. QED
  BY <1>7, <1>9 DEF base

\* The first of five sequences can be joined last.
JoinedLast(c, o, f, g, p) ==
  (((c \o o) \o f) \o g) \o p = c \o (((o \o f) \o g) \o p)

LEMMA FiveConcatenated ==
  ASSUME NEW S, NEW c \in Seq(S), NEW o \in Seq(S), NEW f \in Seq(S), NEW g \in Seq(S),
         NEW p \in Seq(S)
  PROVE  JoinedLast(c, o, f, g, p)
<1> DEFINE of == o \o f
           ofg == of \o g
<1>1. of \in Seq(S)
  BY ConcatProperties
<1>2. (c \o o) \o f = c \o of
  <2>1. (c \o o) \o f = c \o (o \o f)
    BY SMTT(30), ConcatAssociative
  <2>. QED
    BY <2>1
<1>. HIDE DEF of
<1>3. ofg \in Seq(S)
  BY <1>1, ConcatProperties
<1>4. (c \o of) \o g = c \o ofg
  BY <1>1, ConcatAssociative
<1>. HIDE DEF ofg
<1>5. (c \o ofg) \o p = c \o (ofg \o p)
  BY <1>3, ConcatAssociative
<1>. QED
  BY <1>2, <1>4, <1>5 DEF of, ofg, JoinedLast

\* An entry of the array: its object, after a comma if it is not the first.
LEMMA EntryWrote ==
  ASSUME NEW j, HasRoom(j), NEW rest \in Seq(Level), NEW first \in BOOLEAN,
         j.levels = Append(rest, Opened("array", first)), Len(rest) = 1,
         NEW n \in Numbers
  PROVE  Wrote(j, AppendEntry(j, n), Comma(first) \o Object(n),
               Append(rest, Opened("array", FALSE)))
<1> DEFINE base == Append(rest, Opened("array", FALSE))
           a == PushLevel(j, "object", "")
           b == AppendField(a, "number", NumberText(n))
           c == AppendField(b, "alias", AliasText(n))
           d == PopLevel(c, "object")
           num == Field("number", NumberText(n))
           ali == <<", ">> \o Field("alias", AliasText(n))
<1>1. Opened("array", first) \in Level /\ Opened("array", FALSE) \in Level
  BY DEF Opened, Level
<1>2. base \in Seq(Level)
  BY <1>1, AppendProperties
<1>3. Len(j.levels) < MaxLevels
  <2>1. Len(j.levels) = 2
    <3>1. Len(Append(rest, Opened("array", first))) = Len(rest) + 1
      BY <1>1, AppendProperties
    <3>. QED
      BY <3>1
  <2>. QED
    BY <2>1, PieceAssumption, BlockAssumption
<1>4. Wrote(j, Separated(j), Comma(first), base)
  BY SeparatedWrote
<1>. HIDE DEF base
<1>5. Wrote(j, a, Comma(first) \o <<"{ ">>, Append(base, Opened("object", TRUE)))
  <2>1. Wrote(j, a, Comma(first) \o (Header("") \o <<Opening("object")>>),
              Append(base, Opened("object", TRUE)))
    BY <1>3, <1>4, PushWrote
  <2>2. Header("") = << >> /\ Opening("object") = "{ "
    BY DEF Header, Opening
  <2>3. << >> \o <<"{ ">> = <<"{ ">>
    <3>1. "{ " \in STRING
      BY PieceAssumption DEF Delimiters
    <3>. QED
      BY <3>1, Single, ConcatEmptySeq
  <2>. QED
    BY <2>1, <2>2, <2>3
<1>6. HasRoom(a) /\ a.levels = Append(base, Opened("object", TRUE))
  BY <1>5 DEF Wrote
<1>7. "number" \in Labels /\ "alias" \in Labels /\ Fits(NumberText(n)) /\ Fits(AliasText(n))
  BY PieceAssumption DEF Labels, Fits, Numbers
<1>. HIDE DEF a
<1>8. Wrote(a, b, num, Append(base, Opened("object", FALSE)))
  <2>1. Wrote(a, b, Comma(TRUE) \o num, Append(base, Opened("object", FALSE)))
    BY <1>2, <1>6, <1>7, FieldWrote
  <2>2. Comma(TRUE) \o num = num
    <3>1. Comma(TRUE) = << >>
      BY DEF Comma
    <3>2. num \in Seq(STRING)
      <4>. HIDE DEF b
      <4>1. Label("number") \in Seq(STRING)
        BY <1>6, <1>7, NamedWrote DEF Wrote
      <4>2. Piece(NumberText(n)) \in Seq(STRING)
        BY <1>6, <1>7, AppendStrWrote DEF Wrote
      <4>. QED
        BY <4>1, <4>2, ConcatProperties DEF Field
    <3>. HIDE DEF num
    <3>. QED
      BY <3>1, <3>2, ConcatEmptySeq
  <2>. QED
    BY <2>1, <2>2
<1>9. HasRoom(b) /\ b.levels = Append(base, Opened("object", FALSE))
  BY <1>8 DEF Wrote
<1>. HIDE DEF b
<1>10. Wrote(b, c, ali, Append(base, Opened("object", FALSE)))
  <2>1. Wrote(b, c, Comma(FALSE) \o Field("alias", AliasText(n)),
              Append(base, Opened("object", FALSE)))
    BY <1>2, <1>7, <1>9, FieldWrote
  <2>. QED
    BY <2>1 DEF Comma
<1>11. HasRoom(c) /\ c.levels = Append(base, Opened("object", FALSE))
  BY <1>10 DEF Wrote
<1>. HIDE DEF c
<1>12. Wrote(c, d, <<" }">>, base)
  <2>1. Wrote(c, d, <<Closing("object")>>, base)
    BY <1>2, <1>11, PopWrote
  <2>. QED
    BY <2>1 DEF Closing
<1>. HIDE DEF d, num, ali
<1>13. Wrote(j, b, (Comma(first) \o <<"{ ">>) \o num, Append(base, Opened("object", FALSE)))
  BY <1>5, <1>8, WroteBoth
<1>14. Wrote(j, c, ((Comma(first) \o <<"{ ">>) \o num) \o ali,
             Append(base, Opened("object", FALSE)))
  BY <1>10, <1>13, WroteBoth
<1>15. Wrote(j, d, (((Comma(first) \o <<"{ ">>) \o num) \o ali) \o <<" }">>, base)
  BY <1>12, <1>14, WroteBoth
<1>16. (((Comma(first) \o <<"{ ">>) \o num) \o ali) \o <<" }">> = Comma(first) \o Object(n)
  <2>1. Comma(first) \in Seq(STRING) /\ num \in Seq(STRING) /\ ali \in Seq(STRING)
    BY <1>4, <1>8, <1>10 DEF Wrote
  <2>2. <<"{ ">> \in Seq(STRING) /\ <<" }">> \in Seq(STRING)
    <3>1. "{ " \in STRING /\ " }" \in STRING
      BY PieceAssumption DEF Delimiters
    <3>. QED
      BY <3>1, Single
  <2>3. (((Comma(first) \o <<"{ ">>) \o num) \o ali) \o <<" }">>
          = Comma(first) \o (((<<"{ ">> \o num) \o ali) \o <<" }">>)
    <3> DEFINE com == Comma(first)
               open == <<"{ ">>
               close == <<" }">>
    <3>1. com \in Seq(STRING) /\ open \in Seq(STRING) /\ close \in Seq(STRING)
      BY <2>1, <2>2
    <3>. HIDE DEF com, open, close
    <3>2. JoinedLast(com, open, num, ali, close)
      BY <2>1, <3>1, FiveConcatenated
    <3>. QED
      BY <3>2 DEF com, open, close, JoinedLast
  <2>4. Object(n) = ((<<"{ ">> \o num) \o ali) \o <<" }">>
    BY DEF Object, num, ali
  <2>. QED
    BY <2>3, <2>4
<1>17. AppendEntry(j, n) = d
  BY DEF AppendEntry, a, b, c, d
<1>. QED
  BY <1>15, <1>16, <1>17 DEF base

\* A set of natural numbers that is not empty has a least one.
LEMMA LeastNatural ==
  ASSUME NEW T, T \subseteq Nat, T # {}
  PROVE  \E x \in T : \A y \in T : x <= y
<1>1. IsWellFoundedOn(OpToRel(<, Nat), Nat)
  BY NatLessThanWellFounded
<1>2. PICK x \in T : \A y \in T : ~(<<y, x>> \in OpToRel(<, Nat))
  BY <1>1, WFMin
<1>3. \A y \in T : ~ (y < x)
  BY <1>2 DEF OpToRel
<1>4. \A y \in T : y \in Int /\ x \in Int
  OBVIOUS
<1>5. \A y \in T : x <= y
  BY <1>3, <1>4
<1>. QED
  BY <1>5

\* f is x at 0, and follows step from there.
Follows(f, n, S, x, step) ==
  /\ f \in [0..n -> S] /\ f[0] = x
  /\ \A i \in 1..n : f[i] = step[<<i, f[i - 1]>>]

\* There is a function that follows a step, of any length.
LEMMA SomeFollows ==
  ASSUME NEW S, NEW n \in Nat, NEW x \in S, NEW step \in [(1..n) \X S -> S]
  PROVE  \E f : Follows(f, n, S, x, step)
<1> DEFINE T == {k \in 0..n : ~ \E f : Follows(f, k, S, x, step)}
<1>1. CASE T = {}
  <2>1. n \in 0..n /\ n \notin T
    BY <1>1
  <2>. QED
    BY <2>1
<1>2. CASE T # {}
  <2>1. T \subseteq Nat
    OBVIOUS
  <2>2. PICK k \in T : \A l \in T : k <= l
    <3>. HIDE DEF T
    <3>. QED
      BY <1>2, <2>1, LeastNatural
  <2>3. k \in 0..n /\ ~ \E f : Follows(f, k, S, x, step)
    OBVIOUS
  <2>4. CASE k = 0
    <3> DEFINE f == [i \in 0..0 |-> x]
    <3>1. Follows(f, 0, S, x, step)
      BY DEF Follows
    <3>. QED
      BY <2>3, <2>4, <3>1
  <2>5. CASE k # 0
    <3>1. k - 1 \in 0..n /\ ~(k <= k - 1) /\ k \in 1..n
      BY <2>3, <2>5
    <3>2. k - 1 \notin T
      BY <2>2, <3>1
    <3>3. \E f : Follows(f, k - 1, S, x, step)
      BY <3>1, <3>2
    <3>4. PICK f : Follows(f, k - 1, S, x, step)
      BY <3>3
    <3>5. f \in [0..(k - 1) -> S] /\ f[0] = x
          /\ \A i \in 1..(k - 1) : f[i] = step[<<i, f[i - 1]>>]
      BY <3>4 DEF Follows
    <3> DEFINE y == step[<<k, f[k - 1]>>]
               g == [i \in 0..k |-> IF i = k THEN y ELSE f[i]]
    <3>6. f[k - 1] \in S
      BY <3>1, <3>5
    <3>7. y \in S
      BY <3>1, <3>6
    <3>8. g \in [0..k -> S] /\ g[0] = x
      <4>. HIDE DEF y
      <4>1. \A i \in 0..k : i # k => i \in 0..(k - 1)
        BY <3>1
      <4>. QED
        BY <3>1, <3>5, <3>7, <4>1
    <3>9. ASSUME NEW i \in 1..k PROVE g[i] = step[<<i, g[i - 1]>>]
      <4>1. i - 1 \in 0..k /\ i - 1 # k /\ i \in 0..k
        BY <3>1
      <4>2. g[i - 1] = f[i - 1]
        BY <4>1
      <4>3. CASE i = k
        BY <4>1, <4>2, <4>3
      <4>4. CASE i # k
        <5>1. i \in 1..(k - 1)
          BY <3>1, <4>4
        <5>2. g[i] = f[i]
          BY <4>1, <4>4
        <5>. QED
          BY <3>5, <4>2, <5>1, <5>2
      <4>. QED
        BY <4>3, <4>4
    <3>10. Follows(g, k, S, x, step)
      <4>. HIDE DEF g
      <4>. QED
        BY <3>8, <3>9 DEF Follows
    <3>. QED
      BY <2>3, <3>10
  <2>. QED
    BY <2>4, <2>5
<1>. QED
  BY <1>1, <1>2

\* The elements of the array, one after the other.
LEMMA ObjectsByStep ==
  ASSUME NEW data, NEW n \in Nat, n = Len(data),
         \A i \in 1..n : Comma(i = 1) \o Object(data[i]) \in Seq(STRING)
  PROVE  /\ \A i \in 0..n : Objects(data)[i] \in Seq(STRING)
         /\ Objects(data)[0] = << >>
         /\ \A i \in 1..n : Objects(data)[i] =
              Objects(data)[i - 1] \o (Comma(i = 1) \o Object(data[i]))
<1> DEFINE S == Seq(STRING)
           e(i) == Comma(i = 1) \o Object(data[i])
           step == [p \in (1..n) \X S |-> p[2] \o e(p[1])]
           IsUpto(f) == f = [i \in 0..n |-> IF i = 0 THEN << >> ELSE f[i - 1] \o e(i)]
<1>1. << >> \in S
  BY EmptySeq
<1>2. step \in [(1..n) \X S -> S]
  <2>1. SUFFICES ASSUME NEW i \in 1..n, NEW s \in S PROVE s \o e(i) \in S
    OBVIOUS
  <2>. HIDE DEF e
  <2>2. e(i) \in S
    BY DEF e
  <2>. QED
    BY <2>2, ConcatProperties
<1>3. PICK f : Follows(f, n, S, << >>, step)
  <2>. HIDE DEF S, step
  <2>. QED
    BY <1>1, <1>2, SomeFollows
<1>4. f \in [0..n -> S] /\ f[0] = << >> /\ \A i \in 1..n : f[i] = step[<<i, f[i - 1]>>]
  BY <1>3 DEF Follows
<1>. HIDE DEF S, e
<1>5. \A i \in 1..n : i - 1 \in 0..n /\ i \in 0..n /\ i # 0
  OBVIOUS
<1>6. \A i \in 1..n : f[i] = f[i - 1] \o e(i)
  <2>1. SUFFICES ASSUME NEW i \in 1..n PROVE f[i] = f[i - 1] \o e(i)
    OBVIOUS
  <2>2. f[i - 1] \in S
    BY <1>4, <1>5
  <2>. QED
    BY <1>4, <2>2
<1>7. IsUpto(f)
  BY <1>4, <1>6
<1>8. Objects(data) = CHOOSE g : IsUpto(g)
  BY DEF Objects, e
<1>9. IsUpto(Objects(data))
  <2>. HIDE DEF IsUpto
  <2>. QED
    BY <1>7, <1>8
<1> DEFINE o == Objects(data)
<1>10. o = [i \in 0..n |-> IF i = 0 THEN << >> ELSE o[i - 1] \o e(i)]
  BY <1>9
<1>. HIDE DEF o
<1>11. o[0] = << >> /\ \A i \in 1..n : o[i] = o[i - 1] \o e(i)
  <2>1. 0 \in 0..n
    OBVIOUS
  <2>2. \A i \in 0..n : o[i] = IF i = 0 THEN << >> ELSE o[i - 1] \o e(i)
    BY <1>10
  <2>. QED
    BY <1>5, <2>1, <2>2
<1>12. \A i \in 1..n : e(i) \in S
  BY DEF e, S
<1>13. \A i \in 0..n : o[i] \in S
  <2> DEFINE T == {i \in 0..n : o[i] \notin S}
  <2>1. SUFFICES ASSUME T # {} PROVE FALSE
    OBVIOUS
  <2>2. T \subseteq Nat
    OBVIOUS
  <2>3. PICK k \in T : \A l \in T : k <= l
    <3>. HIDE DEF T
    <3>. QED
      BY <2>1, <2>2, LeastNatural
  <2>4. k \in 0..n /\ o[k] \notin S
    OBVIOUS
  <2>5. k # 0
    BY <1>1, <1>11, <2>4
  <2>6. k \in 1..n /\ k - 1 \in 0..n /\ ~(k <= k - 1)
    BY <2>4, <2>5
  <2>7. o[k - 1] \in S
    BY <2>3, <2>6
  <2>8. o[k - 1] \o e(k) \in S
    <3>1. e(k) \in S
      BY <1>12, <2>6
    <3>. QED
      BY <2>7, <3>1, ConcatProperties DEF S
  <2>. QED
    BY <1>11, <2>4, <2>6, <2>8
<1>. QED
  BY <1>11, <1>13 DEF o, e, S

\* The buffers with this array open.
Listing(rest) ==
  {k \in Buffer : HasRoom(k) /\ \E first \in BOOLEAN :
                                  k.levels = Append(rest, Opened("array", first))}

\* An entry leaves the array open.
LEMMA EntryKeepsListing ==
  ASSUME NEW rest \in Seq(Level), Len(rest) = 1, NEW k \in Listing(rest), NEW n \in Numbers
  PROVE  AppendEntry(k, n) \in Listing(rest)
<1>1. PICK first \in BOOLEAN : k.levels = Append(rest, Opened("array", first))
  BY DEF Listing
<1>2. HasRoom(k)
  BY DEF Listing
<1>3. Wrote(k, AppendEntry(k, n), Comma(first) \o Object(n),
            Append(rest, Opened("array", FALSE)))
  BY <1>1, <1>2, EntryWrote
<1>. QED
  BY <1>3 DEF Wrote, Listing, HasRoom

\* The buffer after each entry.
LEMMA EntriesByStep ==
  ASSUME NEW rest \in Seq(Level), Len(rest) = 1, NEW j \in Listing(rest),
         NEW data \in Seq(Numbers), NEW n \in Nat, n = Len(data)
  PROVE  /\ EntriesAppended(j, data)[0] = j
         /\ \A i \in 1..n : EntriesAppended(j, data)[i] =
              AppendEntry(EntriesAppended(j, data)[i - 1], data[i])
<1> DEFINE S == Listing(rest)
           step == [p \in (1..n) \X S |-> AppendEntry(p[2], data[p[1]])]
           IsAfter(f) ==
             f = [i \in 0..n |-> IF i = 0 THEN j ELSE AppendEntry(f[i - 1], data[i])]
<1>1. \A i \in 1..n : data[i] \in Numbers
  OBVIOUS
<1>2. step \in [(1..n) \X S -> S]
  <2>1. SUFFICES ASSUME NEW i \in 1..n, NEW k \in S PROVE AppendEntry(k, data[i]) \in S
    OBVIOUS
  <2>. QED
    BY <1>1, EntryKeepsListing
<1>3. PICK f : Follows(f, n, S, j, step)
  <2>. HIDE DEF S, step
  <2>1. j \in S
    BY DEF S
  <2>. QED
    BY <1>2, <2>1, SomeFollows
<1>4. f \in [0..n -> S] /\ f[0] = j /\ \A i \in 1..n : f[i] = step[<<i, f[i - 1]>>]
  BY <1>3 DEF Follows
<1>. HIDE DEF S
<1>5. \A i \in 1..n : i - 1 \in 0..n /\ i \in 0..n /\ i # 0
  OBVIOUS
<1>6. \A i \in 1..n : f[i] = AppendEntry(f[i - 1], data[i])
  <2>1. SUFFICES ASSUME NEW i \in 1..n PROVE f[i] = AppendEntry(f[i - 1], data[i])
    OBVIOUS
  <2>2. f[i - 1] \in S
    BY <1>4, <1>5
  <2>. QED
    BY <1>4, <2>2
<1>7. IsAfter(f)
  BY <1>4, <1>6
<1>8. EntriesAppended(j, data) = CHOOSE g : IsAfter(g)
  BY DEF EntriesAppended
<1>9. IsAfter(EntriesAppended(j, data))
  <2>. HIDE DEF IsAfter
  <2>. QED
    BY <1>7, <1>8
<1> DEFINE a == EntriesAppended(j, data)
<1>10. a = [i \in 0..n |-> IF i = 0 THEN j ELSE AppendEntry(a[i - 1], data[i])]
  BY <1>9
<1>. HIDE DEF a
<1>11. a[0] = j /\ \A i \in 1..n : a[i] = AppendEntry(a[i - 1], data[i])
  <2>1. 0 \in 0..n
    OBVIOUS
  <2>2. \A i \in 0..n : a[i] = IF i = 0 THEN j ELSE AppendEntry(a[i - 1], data[i])
    BY <1>10
  <2>. QED
    BY <1>5, <2>1, <2>2
<1>. QED
  BY <1>11 DEF a

\* All entries are written, in their order.
LEMMA EntriesWrote ==
  ASSUME NEW rest \in Seq(Level), Len(rest) = 1, NEW j, HasRoom(j),
         j.levels = Append(rest, Opened("array", TRUE)), NEW data \in Seq(Numbers)
  PROVE  Wrote(j, EntriesAppended(j, data)[Len(data)], Objects(data)[Len(data)],
               Append(rest, Opened("array", Len(data) = 0)))
<1> DEFINE n == Len(data)
           a == EntriesAppended(j, data)
           o == Objects(data)
           levels(i) == Append(rest, Opened("array", i = 0))
           W(i) == Wrote(j, a[i], o[i], levels(i))
<1>1. n \in Nat /\ \A i \in 1..n : data[i] \in Numbers
  OBVIOUS
<1>2. j \in Listing(rest)
  BY DEF Listing, HasRoom
<1>3. a[0] = j /\ \A i \in 1..n : a[i] = AppendEntry(a[i - 1], data[i])
  BY <1>1, <1>2, EntriesByStep
<1>4. \A i \in 1..n : Comma(i = 1) \o Object(data[i]) \in Seq(STRING)
  <2>1. SUFFICES ASSUME NEW i \in 1..n
                 PROVE  Comma(i = 1) \o Object(data[i]) \in Seq(STRING)
    OBVIOUS
  <2> DEFINE b == i = 1
             k == [j EXCEPT !.levels = Append(rest, Opened("array", b))]
  <2>2. Opened("array", b) \in Level
    BY DEF Opened, Level
  <2>3. Append(rest, Opened("array", b)) \in Seq(Level)
    BY <2>2, AppendProperties
  <2>4. HasRoom(k) /\ k.levels = Append(rest, Opened("array", b))
    <3> DEFINE l == Append(rest, Opened("array", b))
    <3>1. k = [j EXCEPT !.levels = l] /\ l \in Seq(Level)
      BY <2>3
    <3>. HIDE DEF l, k
    <3>2. HasRoom(k) /\ k.levels = l
      BY <3>1 DEF HasRoom, Buffer
    <3>. QED
      BY <3>2 DEF l
  <2>5. b \in BOOLEAN
    OBVIOUS
  <2>6. data[i] \in Numbers
    BY <1>1
  <2>. HIDE DEF b, k
  <2>7. Wrote(k, AppendEntry(k, data[i]), Comma(b) \o Object(data[i]),
              Append(rest, Opened("array", FALSE)))
    BY <2>4, <2>5, <2>6, EntryWrote
  <2>. QED
    BY <2>7 DEF Wrote, b
<1>5. /\ o[0] = << >>
      /\ \A i \in 1..n : o[i] = o[i - 1] \o (Comma(i = 1) \o Object(data[i]))
  BY <1>1, <1>4, ObjectsByStep
<1>. HIDE DEF n, a, o
<1>6. W(0)
  <2>1. levels(0) = j.levels
    OBVIOUS
  <2>. QED
    BY <1>3, <1>5, <2>1, WroteNothing
<1>7. ASSUME NEW i \in 1..n, W(i - 1)
      PROVE  W(i)
  <2> DEFINE b == i = 1
  <2>1. (i - 1 = 0) = b /\ (i = 0) = FALSE /\ b \in BOOLEAN
    BY <1>1
  <2>2. levels(i - 1) = Append(rest, Opened("array", b))
        /\ levels(i) = Append(rest, Opened("array", FALSE))
    BY <2>1
  <2>3. HasRoom(a[i - 1]) /\ a[i - 1].levels = Append(rest, Opened("array", b))
    BY <1>7, <2>2 DEF Wrote
  <2>4. data[i] \in Numbers
    BY <1>1
  <2>5. a[i] = AppendEntry(a[i - 1], data[i])
    BY <1>3
  <2>6. o[i] = o[i - 1] \o (Comma(b) \o Object(data[i]))
    BY <1>5
  <2>7. Wrote(j, a[i - 1], o[i - 1], levels(i - 1))
    BY <1>7
  <2>. HIDE DEF b, levels
  <2>8. Wrote(a[i - 1], AppendEntry(a[i - 1], data[i]), Comma(b) \o Object(data[i]),
              Append(rest, Opened("array", FALSE)))
    BY <2>1, <2>3, <2>4, EntryWrote
  <2>9. Wrote(a[i - 1], a[i], Comma(b) \o Object(data[i]), levels(i))
    BY <2>2, <2>5, <2>8
  <2>10. Wrote(j, a[i], o[i - 1] \o (Comma(b) \o Object(data[i])), levels(i))
    BY <2>3, <2>7, <2>9, WroteBoth
  <2>. QED
    BY <2>6, <2>10
<1>8. \A i \in 0..n : W(i)
  <2>. HIDE DEF W
  <2> DEFINE T == {i \in 0..n : ~W(i)}
  <2>1. SUFFICES ASSUME T # {} PROVE FALSE
    OBVIOUS
  <2>2. T \subseteq Nat
    OBVIOUS
  <2>3. PICK k \in T : \A l \in T : k <= l
    <3>. HIDE DEF T
    <3>. QED
      BY <2>1, <2>2, LeastNatural
  <2>4. k \in 0..n /\ ~W(k)
    OBVIOUS
  <2>5. k # 0
    BY <1>6, <2>4
  <2>6. k \in 1..n /\ k - 1 \in 0..n /\ ~(k <= k - 1)
    BY <1>1, <2>4, <2>5
  <2>7. W(k - 1)
    BY <2>3, <2>6
  <2>. QED
    BY <1>7, <2>4, <2>6, <2>7
<1>9. W(n)
  <2>1. n \in 0..n
    BY <1>1
  <2>. HIDE DEF W
  <2>. QED
    BY <1>8, <2>1
<1>. QED
  BY <1>9 DEF n, a, o

(***************************************************************************)
(* number_aliases_to_json writes the whole document of any list of numbers *)
(* and leaves room for the terminating zero and no level open.             *)
(***************************************************************************)
LEMMA DocumentWrote ==
  ASSUME NEW data \in Seq(Numbers)
  PROVE  LET j == NumberAliasesToJson(data)
         IN  j.text = Document(data) /\ j.cnt < j.sz /\ j.levels = << >> /\ ~j.failed
<1> DEFINE a == PushLevel(JsonNew, "object", "")
           b == PushLevel(a, "array", "data")
           c == EntriesAppended(b, data)[Len(data)]
           d == PopLevel(c, "array")
           e == PopLevel(d, "object")
           first == Len(data) = 0
           rest == Append(<< >>, Opened("object", FALSE))
           lab == Label("data") \o <<"[ ">>
           obs == Objects(data)[Len(data)]
<1>1. JsonNew \in Buffer /\ HasRoom(JsonNew) /\ JsonNew.text = << >>
      /\ JsonNew.levels = << >> /\ ~JsonNew.failed
  <2>1. << >> \in Seq(STRING) /\ << >> \in Seq(Level)
    BY EmptySeq
  <2>. QED
    BY <2>1, BlockAssumption DEF JsonNew, Buffer, HasRoom
<1>2. << >> \in Seq(Level) /\ rest \in Seq(Level) /\ Len(rest) = 1
  <2>1. Opened("object", FALSE) \in Level
    BY DEF Opened, Level
  <2>2. << >> \in Seq(Level) /\ Len(<< >>) = 0
    BY EmptySeq
  <2> DEFINE x == Opened("object", FALSE)
             s == << >>
  <2>3. x \in Level /\ s \in Seq(Level) /\ Len(s) = 0
    BY <2>1, <2>2
  <2>. HIDE DEF x, s
  <2>4. Append(s, x) \in Seq(Level) /\ Len(Append(s, x)) = 1
    BY <2>3, AppendProperties
  <2>. QED
    BY <2>2, <2>4 DEF x, s
<1>3. Wrote(JsonNew, a, <<"{ ">>, Append(<< >>, Opened("object", TRUE)))
  <2>1. Wrote(JsonNew, Separated(JsonNew), << >>, << >>)
    <3>1. Separated(JsonNew) = JsonNew
      BY <1>1, EmptySeq DEF Separated
    <3>. QED
      BY <1>1, <3>1, WroteNothing
  <2>2. Len(JsonNew.levels) < MaxLevels
    BY <1>1, EmptySeq, PieceAssumption, BlockAssumption
  <2>3. Wrote(JsonNew, a, << >> \o (Header("") \o <<Opening("object")>>),
              Append(<< >>, Opened("object", TRUE)))
    BY <1>1, <2>1, <2>2, PushWrote
  <2>4. Header("") = << >> /\ Opening("object") = "{ "
    BY DEF Header, Opening
  <2>5. << >> \o (<< >> \o <<"{ ">>) = <<"{ ">>
    <3>1. "{ " \in STRING
      BY PieceAssumption DEF Delimiters
    <3>2. << >> \o <<"{ ">> = <<"{ ">>
      BY <3>1, Single, ConcatEmptySeq
    <3>. QED
      BY <3>2
  <2>. QED
    BY <2>3, <2>4, <2>5
<1>4. HasRoom(a) /\ a.levels = Append(<< >>, Opened("object", TRUE))
  BY <1>3 DEF Wrote
<1>. HIDE DEF a
<1>5. Wrote(a, b, lab, Append(rest, Opened("array", TRUE)))
  <2>1. Wrote(a, Separated(a), << >>, rest)
    <3>1. Wrote(a, Separated(a), Comma(TRUE), rest)
      BY <1>2, <1>4, SeparatedWrote
    <3>. QED
      BY <3>1 DEF Comma
  <2>2. Len(a.levels) < MaxLevels
    <3>1. Opened("object", TRUE) \in Level
      BY DEF Opened, Level
    <3>2. Len(a.levels) = 1
      BY <1>2, <1>4, <3>1, AppendProperties
    <3>. QED
      BY <3>2, PieceAssumption, BlockAssumption
  <2>3. "data" \in Labels
    BY DEF Labels
  <2>4. Wrote(a, b, << >> \o (Header("data") \o <<Opening("array")>>),
              Append(rest, Opened("array", TRUE)))
    <3>. HIDE DEF rest
    <3>. QED
      BY <1>4, <2>1, <2>2, <2>3, PushWrote
  <2>5. Header("data") = Label("data") /\ Opening("array") = "[ "
    BY DEF Header, Opening
  <2>6. << >> \o lab = lab
    <3>1. Label("data") \in Seq(STRING)
      BY <1>4, <2>3, NamedWrote DEF Wrote
    <3>2. "[ " \in STRING
      BY PieceAssumption DEF Delimiters
    <3>3. <<"[ ">> \in Seq(STRING)
      BY <3>2, Single
    <3>4. lab \in Seq(STRING)
      BY <3>1, <3>3, ConcatProperties
    <3>. HIDE DEF lab
    <3>. QED
      BY <3>4, ConcatEmptySeq
  <2>. QED
    BY <2>4, <2>5, <2>6
<1>. HIDE DEF rest
<1>6. HasRoom(b) /\ b.levels = Append(rest, Opened("array", TRUE))
  BY <1>5 DEF Wrote
<1>. HIDE DEF b
<1>7. Wrote(b, c, obs, Append(rest, Opened("array", first)))
  BY <1>2, <1>6, EntriesWrote
<1>8. HasRoom(c) /\ c.levels = Append(rest, Opened("array", first)) /\ first \in BOOLEAN
  BY <1>7 DEF Wrote
<1>. HIDE DEF c, first, obs, lab
<1>9. Wrote(c, d, <<" ]">>, rest)
  <2>1. Wrote(c, d, <<Closing("array")>>, rest)
    BY <1>2, <1>8, PopWrote
  <2>. QED
    BY <2>1 DEF Closing
<1>10. HasRoom(d) /\ d.levels = Append(<< >>, Opened("object", FALSE))
  BY <1>9 DEF Wrote, rest
<1>. HIDE DEF d
<1>11. Wrote(d, e, <<" }">>, << >>)
  <2>1. Wrote(d, e, <<Closing("object")>>, << >>)
    BY <1>2, <1>10, PopWrote
  <2>. QED
    BY <2>1 DEF Closing
<1>. HIDE DEF e
<1>12. Wrote(JsonNew, b, <<"{ ">> \o lab, Append(rest, Opened("array", TRUE)))
  BY <1>1, <1>3, <1>5, WroteBoth
<1>13. Wrote(JsonNew, c, (<<"{ ">> \o lab) \o obs, Append(rest, Opened("array", first)))
  BY <1>1, <1>7, <1>12, WroteBoth
<1>14. Wrote(JsonNew, d, ((<<"{ ">> \o lab) \o obs) \o <<" ]">>, rest)
  BY <1>1, <1>9, <1>13, WroteBoth
<1>15. Wrote(JsonNew, e, (((<<"{ ">> \o lab) \o obs) \o <<" ]">>) \o <<" }">>, << >>)
  BY <1>1, <1>11, <1>14, WroteBoth
<1>16. Document(data) = (((<<"{ ">> \o lab) \o obs) \o <<" ]">>) \o <<" }">>
  BY DEF Document, lab, obs
<1>17. NumberAliasesToJson(data) = e
  BY DEF NumberAliasesToJson, a, b, c, d, e
<1>18. Wrote(JsonNew, e, Document(data), << >>)
  BY <1>15, <1>16
<1>19. e.text = << >> \o Document(data) /\ Document(data) \in Seq(STRING)
       /\ e.cnt < e.sz /\ e.levels = << >> /\ ~e.failed
  BY <1>1, <1>18 DEF Wrote, HasRoom
<1>20. << >> \o Document(data) = Document(data)
  BY <1>19, ConcatEmptySeq
<1>. QED
  BY <1>17, <1>19, <1>20

(***************************************************************************)
(* number_aliases_to_json, json_to_cstr, json_free: the body of every      *)
(* reply is the whole document of its numbers, each comma in its place,    *)
(* whatever is inserted and deleted meanwhile, for any number of entries   *)
(* and wherever the ends of the blocks fall; its last level is closed.     *)
(***************************************************************************)
THEOREM RepliesAreDocuments == Spec => []ReplyIsDocument
<1>1. IInv => ReplyIsDocument
  <2>1. ASSUME IInv, NEW r \in Readers
        PROVE  LET j == NumberAliasesToJson(call[r].data)
               IN  /\ j.text = Document(call[r].data) /\ j.cnt < j.sz
                   /\ j.levels = << >> /\ ~j.failed
    <3>1. call[r].data \in Seq(Numbers)
      BY <2>1, CallTyped
    <3>. QED
      BY <3>1, DocumentWrote
  <2>. QED
    BY <2>1 DEF ReplyIsDocument
<1>. QED
  BY InitOK, NextOK, <1>1, PTL DEF Spec
=============================================================================
