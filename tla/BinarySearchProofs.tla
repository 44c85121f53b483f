------------------------- MODULE BinarySearchProofs -------------------------
(***************************************************************************)
(* The binary search of nlkup.c delivers what NumberIndex takes it to      *)
(* deliver, on tables of every length; and the fields that it compares     *)
(* have the order of the strings packed into them.                         *)
(***************************************************************************)
EXTENDS BinarySearch, Codec, SequenceTheorems, WellFoundedInduction, TLAPS

IInv == TypeOK /\ Bracket /\ ResultCorrect

\* The loop starts with nothing excluded; an empty table is answered at once.
LEMMA SearchInit == Init => IInv
<1> SUFFICES ASSUME Init PROVE IInv
  OBVIOUS
<1>1. /\ ents \in Seq(Entry) /\ Ascending(ents) /\ key \in Int
  BY SearchesAssumption DEF Init
<1>2. Len(ents) \in Nat
  BY <1>1
<1>3. TypeOK
  BY <1>1, <1>2 DEF Init, TypeOK
<1>4. Bracket
  BY <1>1, <1>2 DEF Init, Bracket
<1>5. ResultCorrect
  <2>1. CASE Len(ents) = 0
    <3>1. result = -1
      BY <2>1 DEF Init
    <3>2. InsertionPoint(ents, key, 0)
      BY <2>1 DEF InsertionPoint
    <3>3. /\ -1 \in (-Len(ents) - 1)..(Len(ents) - 1)
          /\ ~(-1 >= 0) /\ 0 - (-1) - 1 = 0
      BY <2>1
    <3> QED BY <3>1, <3>2, <3>3 DEF ResultCorrect, SearchResults
  <2>2. CASE Len(ents) # 0
    BY <2>2 DEF Init, ResultCorrect
  <2> QED BY <2>1, <2>2
<1> QED BY <1>3, <1>4, <1>5 DEF IInv

\* A probe keeps the bracket on the side it moves, because the table ascends.
LEMMA ProbeStep == IInv /\ Probe => IInv'
<1> SUFFICES ASSUME IInv, Probe PROVE IInv'
  OBVIOUS
<1> USE DEF IInv, TypeOK
<1>0. Len(ents) \in Nat
  OBVIOUS
<1>1. PICK m \in Int : /\ mid' = m /\ left <= m /\ m <= right
                       /\ m + 1 \in 1..Len(ents)
  <2> DEFINE h == (left + right) \div 2
  <2>1. h \in Int /\ left <= h /\ h <= right /\ h + 1 \in 1..Len(ents)
    BY <1>0 DEF Probe, Bracket
  <2>2. mid' = h
    BY DEF Probe
  <2> QED BY <2>1, <2>2
<1>2. /\ ents[m + 1].postfix \in Int
      /\ \A i \in 1..Len(ents) : ents[i].postfix \in Int
  <2>1. \A i \in 1..Len(ents) : ents[i] \in Entry
    BY ElementOfSeq
  <2> QED BY <2>1, <1>1, PostfixAssumption DEF Entry
<1>3. /\ cmp' \in {-1, 0, 1}
      /\ cmp' < 0 => ents[m + 1].postfix < key
      /\ cmp' > 0 => ents[m + 1].postfix > key
      /\ cmp' = 0 => ents[m + 1].postfix = key
  <2>1. cmp' = Compare(ents[m + 1].postfix, key)
    BY <1>1 DEF Probe
  <2> QED BY <1>2, <2>1 DEF Compare
<1>4. TypeOK'
  BY <1>1, <1>3 DEF Probe
<1>5. Bracket'
  <2>1. Ascending(ents)'
    BY DEF Bracket, Probe
  <2>2. /\ (left <= right + 1 /\ right < Len(ents))'
        /\ (pc = "loop" /\ left > right => cmp # 0)'
        /\ (cmp < 0 => left = mid + 1)'
        /\ (cmp > 0 => right = mid - 1)'
    BY <1>0, <1>1, <1>3 DEF Bracket, Probe
  <2>3. \A i \in 1..left' : ents[i].postfix < key
    <3>1. CASE cmp' < 0
      <4> SUFFICES ASSUME NEW i \in 1..(m + 1) PROVE ents[i].postfix < key
        BY <1>1, <3>1 DEF Probe
      <4>1. i \in 1..Len(ents) /\ (i < m + 1 \/ i = m + 1)
        BY <1>0, <1>1
      <4>2. ents[i].postfix <= ents[m + 1].postfix
        BY <4>1, <1>1, <1>2 DEF Bracket, Ascending
      <4> QED BY <4>1, <4>2, <1>2, <1>3, <3>1
    <3>2. CASE ~(cmp' < 0)
      BY <3>2 DEF Bracket, Probe
    <3> QED BY <3>1, <3>2
  <2>4. \A i \in (right' + 2)..Len(ents) : ents[i].postfix > key
    <3>1. CASE cmp' > 0
      <4> SUFFICES ASSUME NEW i \in (m + 1)..Len(ents)
                   PROVE ents[i].postfix > key
        BY <1>1, <3>1 DEF Probe
      <4>1. i \in 1..Len(ents) /\ (i > m + 1 \/ i = m + 1)
        BY <1>0, <1>1
      <4>2. ents[i].postfix >= ents[m + 1].postfix
        BY <4>1, <1>1, <1>2 DEF Bracket, Ascending
      <4> QED BY <4>1, <4>2, <1>2, <1>3, <3>1
    <3>2. CASE ~(cmp' > 0)
      BY <3>2 DEF Bracket, Probe
    <3> QED BY <3>1, <3>2
  <2> QED BY <2>1, <2>2, <2>3, <2>4 DEF Bracket, Probe
<1>6. ResultCorrect'
  <2> SUFFICES ASSUME pc' = "done" PROVE result' \in SearchResults(ents, key)
    BY DEF ResultCorrect, Probe
  <2>1. cmp' = 0 /\ result' = m
    BY <1>1 DEF Probe
  <2>2. Found(ents, key, m)
    BY <1>0, <1>1, <1>2, <1>3, <2>1 DEF Found
  <2>3. m \in (-Len(ents) - 1)..(Len(ents) - 1) /\ m >= 0
    BY <1>0, <1>1
  <2> QED BY <2>1, <2>2, <2>3 DEF SearchResults
<1> QED BY <1>4, <1>5, <1>6

\* When the loop ends, left is the insertion point, and mid and cmp give it.
LEMMA NotFoundStep == IInv /\ NotFound => IInv'
<1> SUFFICES ASSUME IInv, NotFound PROVE IInv'
  OBVIOUS
<1> USE DEF IInv, TypeOK
<1>0. Len(ents) \in Nat
  OBVIOUS
<1>1. left = right + 1 /\ cmp # 0 /\ result' = -left - 1
  BY <1>0 DEF NotFound, Bracket
<1>2. InsertionPoint(ents, key, left)
  BY <1>0, <1>1 DEF InsertionPoint, Bracket
<1>3. result' \in SearchResults(ents, key)
  <2>1. /\ result' \in (-Len(ents) - 1)..(Len(ents) - 1)
        /\ ~(result' >= 0) /\ -result' - 1 = left
    BY <1>0, <1>1 DEF Bracket
  <2>2. InsertionPoint(ents, key, -result' - 1)
    BY <1>2, <2>1
  <2> QED BY <2>1, <2>2 DEF SearchResults
<1>4. TypeOK'
  BY <1>1 DEF NotFound
<1>5. Bracket'
  BY DEF NotFound, Bracket
<1>6. ResultCorrect'
  BY <1>3 DEF NotFound, ResultCorrect
<1> QED BY <1>4, <1>5, <1>6

(***************************************************************************)
(* search_entry_in_table, whenever it returns on an ascending table,       *)
(* returns the index of the key or its insertion point.                    *)
(***************************************************************************)
THEOREM SearchCorrect == Spec => []ResultCorrect
<1>1. Init => IInv
  BY SearchInit
<1>2. IInv /\ [Next]_vars => IInv'
  <2> SUFFICES ASSUME IInv, [Next]_vars PROVE IInv'
    OBVIOUS
  <2>1. CASE Probe
    BY <2>1, ProbeStep
  <2>2. CASE NotFound
    BY <2>2, NotFoundStep
  <2>3. CASE UNCHANGED vars
    BY <2>3 DEF vars, IInv, TypeOK, Bracket, ResultCorrect
  <2> QED BY <2>1, <2>2, <2>3 DEF Next
<1>3. IInv => ResultCorrect
  BY DEF IInv
<1> QED BY <1>1, <1>2, <1>3, PTL DEF Spec

-----------------------------------------------------------------------------
\* The fields of an entry.

Digits == 0..9
Bytes  == 0..255

\* A set of naturals has a least element.
LEMMA LeastNatural ==
  ASSUME NEW T, T \subseteq Nat, T # {}
  PROVE  \E x \in T : \A y \in T : x <= y
<1>1. IsWellFoundedOn(OpToRel(<, Nat), Nat)
  BY NatLessThanWellFounded
<1>2. PICK x \in T : \A y \in T : ~(<<y, x>> \in OpToRel(<, Nat))
  BY <1>1, WFMin
<1>3. \A y \in T : ~ (y < x)
  BY <1>2 DEF OpToRel
<1>4. \A y \in T : y \in Int /\ x \in Int
  OBVIOUS
<1>5. \A y \in T : x <= y
  BY <1>3, <1>4
<1>. QED
  BY <1>5

\* All of a string of digits is good.
LEMMA AllGood ==
  ASSUME NEW str \in Seq(Digits)
  PROVE  GoodDigits(str) = str
<1> DEFINE good == {k \in 0..Len(str) : \A i \in 1..k : str[i] # NonDigit}
           last == CHOOSE k \in good : \A l \in good : l <= k
<1>1. Len(str) \in Nat
  OBVIOUS
<1>2. \A i \in 1..Len(str) : str[i] \in Digits
  OBVIOUS
<1>3. good = 0..Len(str)
  BY <1>2, NonDigitAssumption DEF Digits
<1>4. last = Len(str)
  <2>1. Len(str) \in good /\ \A l \in good : l <= Len(str)
    BY <1>1, <1>3
  <2>2. last \in good /\ \A l \in good : l <= last
    <3>. HIDE DEF good
    <3>. QED
      BY <2>1
  <2>3. last \in 0..Len(str) /\ Len(str) <= last
    BY <1>3, <2>1, <2>2
  <2>. HIDE DEF last
  <2>. QED
    BY <1>1, <2>3
<1>5. GoodDigits(str) = SubSeq(str, 1, last)
  BY DEF GoodDigits
<1>. HIDE DEF last
<1>6. SubSeq(str, 1, Len(str)) = str
  OBVIOUS
<1>. QED
  BY <1>4, <1>5, <1>6

\* A string with another char is not all good.
LEMMA NotAllGood ==
  ASSUME NEW str \in Seq(Digits \cup {NonDigit}), NEW j \in 1..Len(str), str[j] = NonDigit
  PROVE  /\ GoodDigits(str) # str
         /\ GoodDigits(str) \in Seq(Digits) /\ Len(GoodDigits(str)) <= Len(str)
<1> DEFINE n     == Len(str)
           good  == {k \in 0..n : \A i \in 1..k : str[i] # NonDigit}
           last  == CHOOSE k \in good : \A l \in good : l <= k
           rest  == {n - k : k \in good}
<1>1. n \in Nat
  OBVIOUS
<1>2. \E k \in good : \A l \in good : l <= k
  <2>1. 0 \in good
    BY <1>1
  <2>2. rest \subseteq Nat /\ rest # {}
    BY <1>1, <2>1
  <2>3. PICK x \in rest : \A y \in rest : x <= y
    <3>. HIDE DEF rest
    <3>. QED
      BY <2>2, LeastNatural
  <2>4. PICK k \in good : x = n - k
    OBVIOUS
  <2>5. ASSUME NEW l \in good PROVE l <= k
    <3>1. n - k <= n - l
      BY <2>3, <2>4
    <3>2. k \in Int /\ l \in Int /\ n \in Int
      BY <1>1
    <3>. QED
      BY <3>1, <3>2
  <2>. QED
    BY <2>5
<1>3. last \in good
  <2>. HIDE DEF good
  <2>. QED
    BY <1>2
<1>4. last \in Nat /\ last < n
  <2>1. last \in 0..n /\ \A i \in 1..last : str[i] # NonDigit
    BY <1>3
  <2>. HIDE DEF last, n
  <2>2. last # n
    BY <2>1 DEF n
  <2>. QED
    BY <1>1, <2>1, <2>2
<1>5. GoodDigits(str) = SubSeq(str, 1, last)
  BY DEF GoodDigits
<1>6. \A i \in 1..last : str[i] \in Digits
  <2>1. \A i \in 1..last : str[i] # NonDigit
    BY <1>3
  <2>2. \A i \in 1..n : str[i] \in Digits \cup {NonDigit}
    OBVIOUS
  <2>. HIDE DEF last
  <2>. QED
    BY <1>1, <1>4, <2>1, <2>2
<1>. HIDE DEF last
<1>7. /\ SubSeq(str, 1, last) = [i \in 1..last |-> str[i]]
      /\ Len(SubSeq(str, 1, last)) = last
  BY <1>4
<1>8. SubSeq(str, 1, last) \in Seq(Digits)
  BY <1>4, <1>6, <1>7
<1>. QED
  BY <1>4, <1>5, <1>7, <1>8

\* What is in the field of a string of digits that fits.
Field(str, n) ==
  [j \in 1..n |-> IF j = 1 THEN Len(str)
                  ELSE IF j <= PackedLen(str) THEN PackedByte(str, j - 1) ELSE 0]

LEMMA PackedField ==
  ASSUME NEW str \in Seq(Digits), NEW field, PackedLen(str) <= Len(field), Len(field) \in Nat
  PROVE  Compress(str, field) = [ok |-> TRUE, field |-> Field(str, Len(field))]
<1>1. GoodDigits(str) = str
  BY AllGood
<1>2. PackedLen(str) \in Nat
  <2>1. Len(str) \in Nat
    OBVIOUS
  <2>. QED
    BY <2>1 DEF PackedLen
<1>3. ~(PackedLen(str) > Len(field))
  BY <1>2
<1>. QED
  BY <1>1, <1>3 DEF Compress, Field

\* A byte has its first digit on the left, its second one on the right.
LEMMA PackedDigits ==
  ASSUME NEW str \in Seq(Digits), NEW m \in Nat \ {0}, 2 * m - 1 <= Len(str)
  PROVE  /\ PackedByte(str, m) \in Bytes
         /\ PackedByte(str, m) \div 16 = str[2 * m - 1]
         /\ 2 * m <= Len(str) => PackedByte(str, m) % 16 = str[2 * m]
<1> DEFINE n == Len(str)
           x == str[2 * m - 1]
           y == str[2 * m]
<1>1. n \in Nat
  OBVIOUS
<1>2. \A i \in 1..n : str[i] \in Digits
  OBVIOUS
<1>3. x \in Digits
  <2>. HIDE DEF n
  <2>. QED
    BY <1>1, <1>2 DEF n
<1>4. 2 * m <= n => y \in Digits
  <2>. HIDE DEF n
  <2>. QED
    BY <1>1, <1>2 DEF n
<1>5. PackedByte(str, m) = IF 2 * m > n THEN 16 * x ELSE 16 * x + y
  BY DEF PackedByte
<1>. HIDE DEF n, x, y
<1>6. CASE 2 * m > n
  <2>1. PackedByte(str, m) = 16 * x
    BY <1>5, <1>6
  <2>2. 16 * x \in Bytes /\ (16 * x) \div 16 = x
    BY <1>3 DEF Digits, Bytes
  <2>3. ~(2 * m <= n)
    BY <1>1, <1>6
  <2>. QED
    BY <2>1, <2>2, <2>3 DEF n, x, y
<1>7. CASE 2 * m <= n
  <2>1. PackedByte(str, m) = 16 * x + y
    BY <1>1, <1>5, <1>7
  <2>2. x \in 0..9 /\ y \in 0..9
    BY <1>3, <1>4, <1>7 DEF Digits
  <2>3. 16 * x + y \in Bytes /\ (16 * x + y) \div 16 = x /\ (16 * x + y) % 16 = y
    BY <2>2 DEF Bytes
  <2>. QED
    BY <2>1, <2>3 DEF n, x, y
<1>. QED
  BY <1>1, <1>6, <1>7

\* The char at place i, in numbers.
LEMMA Halves ==
  ASSUME NEW i \in Nat \ {0}, NEW n \in Nat, i <= n, NEW m, m = (i + 1) \div 2
  PROVE  /\ m \in Nat \ {0} /\ m + 1 <= (n + 1) \div 2 + 1
         /\ i % 2 = 0 => i = 2 * m
         /\ i % 2 # 0 => i = 2 * m - 1
OBVIOUS

\* What a field of a string has at its places.
LEMMA FieldAt ==
  ASSUME NEW str, NEW n \in Nat, NEW m \in Nat \ {0}, PackedLen(str) \in Nat,
         PackedLen(str) <= n
  PROVE  /\ n >= 1 => Field(str, n)[1] = Len(str)
         /\ m + 1 <= PackedLen(str) => Field(str, n)[m + 1] = PackedByte(str, m)
         /\ m + 1 > PackedLen(str) /\ m + 1 <= n => Field(str, n)[m + 1] = 0
<1>1. m + 1 # 1 /\ (m + 1) - 1 = m
  OBVIOUS
<1>2. n >= 1 => Field(str, n)[1] = Len(str)
  BY DEF Field
<1>3. m + 1 <= PackedLen(str) => m + 1 \in 1..n
  OBVIOUS
<1>4. m + 1 <= n => m + 1 \in 1..n
  OBVIOUS
<1>5. ASSUME m + 1 \in 1..n
      PROVE  Field(str, n)[m + 1] =
               IF m + 1 <= PackedLen(str) THEN PackedByte(str, m) ELSE 0
  BY <1>1, <1>5 DEF Field
<1>6. m + 1 > PackedLen(str) => ~(m + 1 <= PackedLen(str))
  OBVIOUS
<1>. QED
  BY <1>2, <1>3, <1>4, <1>5, <1>6

(***************************************************************************)
(* compress_to_buf, decompress_to_buf: a string of digits that fits into a *)
(* field is read back as it was, whatever the field held before. If its    *)
(* length can be told in one byte, the field has bytes.                    *)
(***************************************************************************)
THEOREM PackedAreRead ==
  ASSUME NEW str \in Seq(Digits), NEW field \in Seq(Bytes), PackedLen(str) <= Len(field),
         NEW sz \in Nat, Len(str) < sz
  PROVE  /\ Compress(str, field).ok
         /\ Decompress(Compress(str, field).field, sz) = [ok |-> TRUE, str |-> str]
        /\ Len(field) <= 128 => Compress(str, field).field \in Seq(Bytes)
<1> DEFINE n == Len(str)
           w == Len(field)
           f == Field(str, w)
           r == [i \in 1..n |-> LET byte == f[(i + 1) \div 2 + 1]
                                IN  IF i % 2 = 0 THEN byte % 16 ELSE byte \div 16]
<1>1. n \in Nat /\ w \in Nat /\ PackedLen(str) \in Nat /\ w >= 1
      /\ PackedLen(str) = (n + 1) \div 2 + 1
  <2>1. n \in Nat /\ w \in Nat
    OBVIOUS
  <2>2. PackedLen(str) = (n + 1) \div 2 + 1 /\ PackedLen(str) <= w
    BY DEF PackedLen
  <2>. HIDE DEF n, w
  <2>3. (n + 1) \div 2 + 1 \in Nat \ {0}
    BY <2>1
  <2>. QED
    BY <2>1, <2>2, <2>3
<1>2. Compress(str, field) = [ok |-> TRUE, field |-> f]
  BY <1>1, PackedField
<1>3. f[1] = n
  <2>1. PackedLen(str) <= w
    OBVIOUS
  <2>. HIDE DEF w
  <2>. QED
    BY <1>1, <2>1, FieldAt, 1 \in Nat \ {0}
<1>4. PackedLen(str) <= w
  OBVIOUS
<1>5. Decompress(f, sz) = [ok |-> TRUE, str |-> r]
  <2>1. ~(sz < n + 1)
    BY <1>1
  <2>. HIDE DEF f, n
  <2>. QED
    BY <1>3, <2>1 DEF Decompress
<1>6. ASSUME NEW i \in 1..n PROVE r[i] = str[i]
  <2> DEFINE m == (i + 1) \div 2
  <2>1. i \in Nat \ {0} /\ i <= n
    BY <1>1
  <2>2. /\ m \in Nat \ {0} /\ m + 1 <= PackedLen(str)
        /\ i % 2 = 0 => i = 2 * m
        /\ i % 2 # 0 => i = 2 * m - 1
    <3>. HIDE DEF n, m
    <3>1. m = (i + 1) \div 2
      BY DEF m
    <3>2. n \in Nat
      BY <1>1
    <3>3. /\ m \in Nat \ {0} /\ m + 1 <= (n + 1) \div 2 + 1
          /\ i % 2 = 0 => i = 2 * m
          /\ i % 2 # 0 => i = 2 * m - 1
      BY <2>1, <3>1, <3>2, Halves
    <3>. QED
      BY <1>1, <3>3
  <2>3. f[m + 1] = PackedByte(str, m)
    <3>1. PackedLen(str) <= w
      OBVIOUS
    <3>. HIDE DEF m, w
    <3>. QED
      BY <1>1, <2>2, <3>1, FieldAt
  <2>4. r[i] = IF i % 2 = 0 THEN PackedByte(str, m) % 16 ELSE PackedByte(str, m) \div 16
    <3>. HIDE DEF f
    <3>. QED
      BY <2>3
  <2>5. 2 * m - 1 <= n /\ (i % 2 = 0 => 2 * m <= n)
    <3>. HIDE DEF m, n
    <3>1. i % 2 = 0 \/ i % 2 # 0
      OBVIOUS
    <3>. QED
      BY <1>1, <2>1, <2>2, <3>1
  <2>. HIDE DEF m, r, f
  <2>6. /\ PackedByte(str, m) \div 16 = str[2 * m - 1]
        /\ 2 * m <= Len(str) => PackedByte(str, m) % 16 = str[2 * m]
    BY <2>2, <2>5, PackedDigits
  <2>7. CASE i % 2 = 0
    <3>1. i = 2 * m /\ 2 * m <= Len(str)
      BY <2>2, <2>5, <2>7
    <3>. QED
      BY <2>4, <2>6, <2>7, <3>1
  <2>8. CASE i % 2 # 0
    <3>1. i = 2 * m - 1
      BY <2>2, <2>8
    <3>. QED
      BY <2>4, <2>6, <2>8, <3>1
  <2>. QED
    BY <2>7, <2>8
<1>7. r = str
  <2>1. str = [i \in 1..n |-> str[i]]
    OBVIOUS
  <2>2. r = [i \in 1..n |-> r[i]]
    OBVIOUS
  <2>. HIDE DEF r, n
  <2>3. [i \in 1..n |-> r[i]] = [i \in 1..n |-> str[i]]
    BY <1>6
  <2>. QED
    BY <2>1, <2>2, <2>3
<1>8. ASSUME w <= 128 PROVE f \in Seq(Bytes)
  <2>1. ASSUME NEW j \in 1..w PROVE f[j] \in Bytes
    <3>1. CASE j = 1
      <4>1. n <= 255
        <5>. HIDE DEF n, w
        <5>1. (n + 1) \div 2 + 1 <= 128
          BY <1>1, <1>4, <1>8
        <5>. QED
          BY <1>1, <5>1
      <4>2. n \in Bytes
        <5>. HIDE DEF n
        <5>. QED
          BY <1>1, <4>1 DEF Bytes
      <4>. HIDE DEF f, n, w
      <4>. QED
        BY <1>3, <3>1, <4>2
    <3>2. CASE j # 1
      <4> DEFINE m == j - 1
      <4>1. m \in Nat \ {0} /\ m + 1 = j /\ m + 1 <= w
        <5>. HIDE DEF w
        <5>. QED
          BY <1>1, <3>2
      <4>2. CASE m + 1 <= PackedLen(str)
        <5>1. f[j] = PackedByte(str, m)
          <6>. HIDE DEF m, w
          <6>. QED
            BY <1>1, <1>4, <4>1, <4>2, FieldAt
        <5>2. 2 * m - 1 <= n
          <6>. HIDE DEF m, n
          <6>1. m <= (n + 1) \div 2
            BY <1>1, <4>1, <4>2
          <6>. QED
            BY <1>1, <4>1, <6>1
        <5>. HIDE DEF m, f
        <5>. QED
          BY <4>1, <5>1, <5>2, PackedDigits
      <4>3. CASE m + 1 > PackedLen(str)
        <5>1. f[j] = 0
          <6>. HIDE DEF m, w
          <6>. QED
            BY <1>1, <1>4, <4>1, <4>3, FieldAt
        <5>. QED
          BY <5>1 DEF Bytes
      <4>. QED
        BY <1>1, <4>1, <4>2, <4>3
    <3>. QED
      BY <3>1, <3>2
  <2>2. f = [j \in 1..w |-> f[j]]
    BY DEF Field
  <2>. HIDE DEF f, w
  <2>3. [j \in 1..w |-> f[j]] \in Seq(Bytes)
    BY <1>1, <2>1
  <2>. QED
    BY <2>2, <2>3
<1>. HIDE DEF f, r, n
<1>. QED
  BY <1>2, <1>5, <1>7, <1>8

(***************************************************************************)
(* compress_to_buf refuses a string for its length and leaves the field,   *)
(* or for a char that is no digit, and then the field reads as the empty   *)
(* string and what it held is lost.                                        *)
(***************************************************************************)
THEOREM RefusedAreEmpty ==
  ASSUME NEW str \in Seq(Digits \cup {NonDigit}), NEW field \in Seq(Bytes),
         NEW sz \in Nat \ {0}, ~Compress(str, field).ok
  PROVE  \/ Compress(str, field).field = field
         \/ /\ \E j \in 1..Len(str) : str[j] = NonDigit
            /\ Decompress(Compress(str, field).field, sz) = [ok |-> TRUE, str |-> << >>]
<1> DEFINE f == Compress(str, field).field
<1>1. CASE PackedLen(str) > Len(field)
  BY <1>1 DEF Compress
<1>2. CASE ~(PackedLen(str) > Len(field))
  <2>1. GoodDigits(str) # str
    BY <1>2 DEF Compress
  <2>2. \E j \in 1..Len(str) : str[j] = NonDigit
    <3>1. SUFFICES ASSUME \A j \in 1..Len(str) : str[j] # NonDigit PROVE FALSE
      OBVIOUS
    <3>2. \A j \in 1..Len(str) : str[j] \in Digits
      BY <3>1
    <3>3. str \in Seq(Digits)
      BY <3>2
    <3>. QED
      BY <2>1, <3>3, AllGood
  <2>3. Len(field) \in Nat /\ Len(field) >= 1
    <3>1. Len(str) \in Nat /\ Len(field) \in Nat
      OBVIOUS
    <3>2. PackedLen(str) \in Nat /\ PackedLen(str) >= 1
      BY <3>1 DEF PackedLen
    <3>. QED
      BY <1>2, <3>1, <3>2
  <2>4. f[1] = 0
    <3>1. f = [j \in 1..Len(field) |->
                IF j = 1 THEN IF GoodDigits(str) = str THEN Len(str) ELSE 0
                ELSE IF j <= PackedLen(GoodDigits(str))
                THEN PackedByte(GoodDigits(str), j - 1) ELSE 0]
      BY <1>2 DEF Compress
    <3>2. 1 \in 1..Len(field)
      BY <2>3
    <3>. HIDE DEF f
    <3>. QED
      BY <2>1, <3>1, <3>2
  <2>5. Decompress(f, sz) = [ok |-> TRUE, str |-> << >>]
    <3>. HIDE DEF f
    <3>1. ~(sz < 0 + 1)
      OBVIOUS
    <3>2. \A g : [i \in 1..0 |-> g[i]] = << >>
      OBVIOUS
    <3>. QED
      BY <2>4, <3>1 DEF Decompress
  <2>. QED
    BY <2>2, <2>5
<1>. QED
  BY <1>1, <1>2

\* Shorter strings come first, then those with the smaller first digit that
\* differs.
Before(s, t) ==
  \/ Len(s) < Len(t)
  \/ /\ Len(s) = Len(t)
     /\ \E k \in 1..Len(s) : s[k] < t[k] /\ \A i \in 1..(k - 1) : s[i] = t[i]

\* The first byte that differs decides.
LEMMA FirstDecides ==
  ASSUME NEW n \in Nat, NEW f, NEW g, Len(f) = n, NEW j \in 1..n, f[j] # g[j],
         \A i \in 1..(j - 1) : f[i] = g[i]
  PROVE  CompareBytes(f, g) = IF f[j] < g[j] THEN -1 ELSE 1
<1> DEFINE differ == {i \in 1..n : f[i] # g[i]}
           first  == CHOOSE i \in differ : \A k \in differ : i <= k
<1>1. j \in differ
  OBVIOUS
<1>2. \A k \in differ : j <= k
  <2>1. SUFFICES ASSUME NEW k \in differ, ~(j <= k) PROVE FALSE
    OBVIOUS
  <2>2. k \in 1..n /\ f[k] # g[k]
    BY <2>1
  <2>3. k \in 1..(j - 1)
    BY <2>1, <2>2
  <2>. QED
    BY <2>2, <2>3
<1>3. first \in differ /\ \A k \in differ : first <= k
  <2>. HIDE DEF differ
  <2>. QED
    BY <1>1, <1>2
<1>4. first = j
  <2>1. first \in 1..n /\ first <= j /\ j <= first
    BY <1>1, <1>2, <1>3
  <2>. HIDE DEF first
  <2>. QED
    BY <2>1
<1>5. f # g
  OBVIOUS
<1>6. CompareBytes(f, g) = IF f[first] < g[first] THEN -1 ELSE 1
  BY <1>5 DEF CompareBytes
<1>. HIDE DEF first
<1>. QED
  BY <1>4, <1>6

\* The bytes of two strings of one length are the same up to the one of the
\* first digit that differs, and there the digit decides.
LEMMA FirstByte ==
  ASSUME NEW s \in Seq(Digits), NEW t \in Seq(Digits), Len(s) = Len(t),
         NEW n \in Nat, PackedLen(s) <= n,
         NEW k \in 1..Len(s), s[k] # t[k], \A i \in 1..(k - 1) : s[i] = t[i]
  PROVE  \E j \in 1..n :
           /\ Field(s, n)[j] # Field(t, n)[j]
           /\ Field(s, n)[j] < Field(t, n)[j] <=> s[k] < t[k]
           /\ \A i \in 1..(j - 1) : Field(s, n)[i] = Field(t, n)[i]
<1> DEFINE m   == (k + 1) \div 2
           len == Len(s)
           p   == PackedLen(s)
           F   == Field(s, n)
           G   == Field(t, n)
<1>1. len \in Nat /\ k \in Nat \ {0} /\ k <= len /\ len = Len(t)
  OBVIOUS
<1>2. p \in Nat /\ p = (len + 1) \div 2 + 1 /\ PackedLen(t) = p /\ p <= n
  <2>1. p = (len + 1) \div 2 + 1 /\ PackedLen(t) = (len + 1) \div 2 + 1 /\ p <= n
    BY DEF PackedLen
  <2>. HIDE DEF p, len
  <2>. QED
    BY <1>1, <2>1
<1>3. /\ m \in Nat \ {0} /\ m + 1 <= p
      /\ k % 2 = 0 => k = 2 * m
      /\ k % 2 # 0 => k = 2 * m - 1
  <2>1. m = (k + 1) \div 2
    OBVIOUS
  <2>. HIDE DEF m, len, p
  <2>2. /\ m \in Nat \ {0} /\ m + 1 <= (len + 1) \div 2 + 1
        /\ k % 2 = 0 => k = 2 * m
        /\ k % 2 # 0 => k = 2 * m - 1
    BY <1>1, <2>1, Halves
  <2>. QED
    BY <1>2, <2>2
<1>4. \A i \in 1..len : s[i] \in Digits /\ t[i] \in Digits
  OBVIOUS
<1>5. \A l \in Nat \ {0} : l + 1 <= p => F[l + 1] = PackedByte(s, l) /\ G[l + 1] = PackedByte(t, l)
  <2>. HIDE DEF p
  <2>. QED
    BY <1>2, FieldAt DEF p
<1>6. F[1] = G[1]
  <2>1. n >= 1
    BY <1>2, <1>3
  <2>. HIDE DEF len
  <2>2. PackedLen(s) \in Nat /\ PackedLen(t) \in Nat /\ PackedLen(s) <= n /\ PackedLen(t) <= n
    BY <1>2
  <2>3. 1 \in Nat \ {0}
    OBVIOUS
  <2>4. F[1] = Len(s) /\ G[1] = Len(t)
    BY <2>1, <2>2, <2>3, FieldAt
  <2>. QED
    BY <2>4
<1>7. ASSUME NEW i \in 1..m PROVE F[i] = G[i]
  <2>1. CASE i = 1
    BY <1>6, <2>1
  <2>2. CASE i # 1
    <3> DEFINE l == i - 1
    <3>1. l \in Nat \ {0} /\ i = l + 1 /\ l + 1 <= p /\ 2 * l < 2 * m - 1
      <4>. HIDE DEF m, p
      <4>. QED
        BY <1>2, <1>3, <2>2
    <3>2. 2 * l <= k - 1 /\ 2 * l <= len /\ 2 * l - 1 \in 1..(k - 1) /\ 2 * l \in 1..(k - 1)
      <4>. HIDE DEF m, p, l, len
      <4>1. k = 2 * m \/ k = 2 * m - 1
        BY <1>3
      <4>2. l \in Nat \ {0} /\ m \in Nat /\ 2 * l < 2 * m - 1 /\ k \in Nat /\ k <= len /\ len \in Nat
        BY <1>1, <1>3, <3>1
      <4>. QED
        BY <4>1, <4>2
    <3>3. s[2 * l - 1] = t[2 * l - 1] /\ s[2 * l] = t[2 * l]
      <4>. HIDE DEF l
      <4>. QED
        BY <3>2
    <3>4. PackedByte(s, l) = PackedByte(t, l)
      <4>. HIDE DEF l
      <4>. QED
        BY <1>1, <3>3 DEF PackedByte
    <3>. HIDE DEF l, F, G, p
    <3>. QED
      BY <1>5, <3>1, <3>4
  <2>. QED
    BY <2>1, <2>2
<1>8. /\ PackedByte(s, m) # PackedByte(t, m)
      /\ PackedByte(s, m) < PackedByte(t, m) <=> s[k] < t[k]
  <2>. HIDE DEF m
  <2>1. PackedByte(s, m) = IF 2 * m > len THEN 16 * s[2 * m - 1] ELSE 16 * s[2 * m - 1] + s[2 * m]
    BY DEF PackedByte
  <2>2. PackedByte(t, m) = IF 2 * m > len THEN 16 * t[2 * m - 1] ELSE 16 * t[2 * m - 1] + t[2 * m]
    BY <1>1 DEF PackedByte
  <2> DEFINE a == s[k]
             b == t[k]
             y == s[2 * m]
             z == t[2 * m]
             x == s[2 * m - 1]
             u == t[2 * m - 1]
  <2>3. a \in 0..9 /\ b \in 0..9 /\ a # b
    BY <1>4 DEF Digits
  <2>4. 2 * m <= len => y \in 0..9 /\ z \in 0..9
    <3>1. 2 * m <= len => 2 * m \in 1..len
      BY <1>1, <1>3
    <3>. HIDE DEF len
    <3>. QED
      BY <1>4, <3>1 DEF Digits
  <2>5. CASE k = 2 * m
    <3>1. 2 * m - 1 \in 1..(k - 1)
      BY <1>3, <2>5
    <3>2. x = u
      <4> DEFINE i == 2 * m - 1
      <4>1. i \in 1..(k - 1)
        BY <3>1
      <4>2. s[i] = t[i]
        <5>. HIDE DEF i
        <5>. QED
          BY <4>1
      <4>. QED
        BY <4>2
    <3>3. y = a /\ z = b
      BY <2>5
    <3>4. ~(2 * m > len)
      BY <1>1, <2>5
    <3>5. x \in 0..9
      <4> DEFINE i == 2 * m - 1
      <4>1. i \in 1..len
        BY <1>1, <1>3, <2>5
      <4>2. s[i] \in 0..9
        <5>. HIDE DEF i, len
        <5>. QED
          BY <1>4, <4>1 DEF Digits
      <4>. QED
        BY <4>2
    <3>6. PackedByte(s, m) = 16 * x + a /\ PackedByte(t, m) = 16 * x + b
      BY <2>1, <2>2, <3>2, <3>3, <3>4
    <3>. HIDE DEF x, a, b
    <3>7. 16 * x + a # 16 * x + b /\ (16 * x + a < 16 * x + b <=> a < b)
      BY <2>3, <3>5
    <3>. QED
      BY <3>6, <3>7 DEF a, b
  <2>6. CASE k = 2 * m - 1
    <3>1. x = a /\ u = b
      BY <2>6
    <3>. HIDE DEF x, u, y, z, a, b, len
    <3>2. CASE 2 * m > len
      <4>1. PackedByte(s, m) = 16 * a /\ PackedByte(t, m) = 16 * b
        BY <2>1, <2>2, <3>1, <3>2 DEF x, u
      <4>2. 16 * a # 16 * b /\ (16 * a < 16 * b <=> a < b)
        BY <2>3
      <4>. QED
        BY <4>1, <4>2 DEF a, b
    <3>3. CASE 2 * m <= len
      <4>1. ~(2 * m > len)
        BY <1>1, <1>3, <3>3
      <4>2. PackedByte(s, m) = 16 * a + y /\ PackedByte(t, m) = 16 * b + z
        BY <2>1, <2>2, <3>1, <4>1 DEF x, u, y, z
      <4>3. y \in 0..9 /\ z \in 0..9
        BY <2>4, <3>3
      <4>4. 16 * a + y # 16 * b + z /\ (16 * a + y < 16 * b + z <=> a < b)
        BY <2>3, <4>3
      <4>. QED
        BY <4>2, <4>4 DEF a, b
    <3>. QED
      BY <1>1, <1>3, <3>2, <3>3
  <2>. QED
    <3>1. k % 2 = 0 \/ k % 2 # 0
      OBVIOUS
    <3>. QED
      BY <1>3, <2>5, <2>6, <3>1
<1>9. F[m + 1] = PackedByte(s, m) /\ G[m + 1] = PackedByte(t, m)
  BY <1>3, <1>5
<1>10. m + 1 \in 1..n /\ (m + 1) - 1 = m
  <2>. HIDE DEF m, p
  <2>. QED
    BY <1>2, <1>3
<1>. HIDE DEF F, G, m, p, len
<1>11. \A i \in 1..((m + 1) - 1) : F[i] = G[i]
  BY <1>7, <1>10
<1>12. \E j \in 1..n : F[j] # G[j] /\ (F[j] < G[j] <=> s[k] < t[k])
                       /\ \A i \in 1..(j - 1) : F[i] = G[i]
  <2>1. F[m + 1] # G[m + 1] /\ (F[m + 1] < G[m + 1] <=> s[k] < t[k])
    BY <1>8, <1>9
  <2>. QED
    BY <1>10, <1>11, <2>1
<1>. QED
  BY <1>12 DEF F, G

(***************************************************************************)
(* compare_entry: the order of the bytes of two fields is that of their    *)
(* strings by length and then by digits, for odd and even lengths, with    *)
(* zeros at the end and fields of any size. The ranks of LookupTbl are in  *)
(* this order.                                                             *)
(***************************************************************************)
THEOREM PackedAreOrdered ==
  ASSUME NEW s \in Seq(Digits), NEW t \in Seq(Digits), NEW field \in Seq(Bytes),
         PackedLen(s) <= Len(field), PackedLen(t) <= Len(field)
  PROVE  CompareBytes(Compress(s, field).field, Compress(t, field).field) =
           IF s = t THEN 0 ELSE IF Before(s, t) THEN -1 ELSE 1
<1> DEFINE n == Len(field)
           F == Field(s, n)
           G == Field(t, n)
<1>1. n \in Nat /\ Len(s) \in Nat /\ Len(t) \in Nat
  OBVIOUS
<1>2. Compress(s, field).field = F /\ Compress(t, field).field = G
  BY <1>1, PackedField
<1>3. Len(F) = n
  BY <1>1 DEF Field
<1>4. CASE s = t
  BY <1>2, <1>4 DEF CompareBytes
<1>5. CASE Len(s) # Len(t)
  <2>1. n >= 1 /\ PackedLen(s) \in Nat /\ PackedLen(t) \in Nat
    <3>1. PackedLen(s) \in Nat /\ PackedLen(s) >= 1 /\ PackedLen(t) \in Nat
      BY <1>1 DEF PackedLen
    <3>2. PackedLen(s) <= n
      OBVIOUS
    <3>. HIDE DEF n
    <3>. QED
      BY <1>1, <3>1, <3>2
  <2>2. F[1] = Len(s) /\ G[1] = Len(t)
    <3>1. PackedLen(s) <= n /\ PackedLen(t) <= n /\ 1 \in Nat \ {0}
      OBVIOUS
    <3>. HIDE DEF n
    <3>. QED
      BY <1>1, <2>1, <3>1, FieldAt
  <2>3. CompareBytes(F, G) = IF F[1] < G[1] THEN -1 ELSE 1
    <3>1. 1 \in 1..n /\ F[1] # G[1] /\ \A i \in 1..(1 - 1) : F[i] = G[i]
      <4>. HIDE DEF n, F, G
      <4>. QED
        BY <1>1, <1>5, <2>1, <2>2
    <3>. HIDE DEF n, F, G
    <3>. QED
      BY <1>1, <1>3, <3>1, FirstDecides
  <2>4. Before(s, t) <=> Len(s) < Len(t)
    BY <1>5 DEF Before
  <2>5. s # t
    BY <1>5
  <2>. HIDE DEF F, G, n
  <2>. QED
    BY <1>2, <2>2, <2>3, <2>4, <2>5
<1>6. CASE Len(s) = Len(t) /\ s # t
  <2> DEFINE T == {i \in 1..Len(s) : s[i] # t[i]}
  <2>1. T # {} /\ T \subseteq Nat
    <3>1. SUFFICES ASSUME \A i \in 1..Len(s) : s[i] = t[i] PROVE FALSE
      BY <1>1
    <3>2. s = [i \in 1..Len(s) |-> s[i]] /\ t = [i \in 1..Len(s) |-> t[i]]
      BY <1>6
    <3>3. s = t
      BY <3>1, <3>2
    <3>. QED
      BY <1>6, <3>3
  <2>2. PICK k \in T : \A i \in T : k <= i
    <3>. HIDE DEF T
    <3>. QED
      BY <2>1, LeastNatural
  <2>3. k \in 1..Len(s) /\ s[k] # t[k]
    OBVIOUS
  <2>4. \A i \in 1..(k - 1) : s[i] = t[i]
    <3>1. SUFFICES ASSUME NEW i \in 1..(k - 1), s[i] # t[i] PROVE FALSE
      OBVIOUS
    <3>2. i \in 1..Len(s) /\ ~(k <= i)
      BY <1>1, <2>3
    <3>3. i \in T
      BY <3>1, <3>2
    <3>. QED
      BY <2>2, <3>2, <3>3
  <2>. HIDE DEF T
  <2>5. PICK j \in 1..n : /\ F[j] # G[j]
                          /\ F[j] < G[j] <=> s[k] < t[k]
                          /\ \A i \in 1..(j - 1) : F[i] = G[i]
    <3>1. PackedLen(s) <= n /\ Len(s) = Len(t) /\ n \in Nat
      BY <1>1, <1>6
    <3>2. k \in 1..Len(s) /\ s[k] # t[k] /\ \A i \in 1..(k - 1) : s[i] = t[i]
      BY <2>3, <2>4
    <3>. HIDE DEF n
    <3>3. \E j \in 1..n :
            /\ Field(s, n)[j] # Field(t, n)[j]
            /\ Field(s, n)[j] < Field(t, n)[j] <=> s[k] < t[k]
            /\ \A i \in 1..(j - 1) : Field(s, n)[i] = Field(t, n)[i]
      BY <3>1, <3>2, FirstByte
    <3>. QED
      BY <3>3
  <2>6. CompareBytes(F, G) = IF F[j] < G[j] THEN -1 ELSE 1
    <3>. HIDE DEF n, F, G
    <3>. QED
      BY <1>1, <1>3, <2>5, FirstDecides
  <2>7. Before(s, t) <=> s[k] < t[k]
    <3>1. ASSUME s[k] < t[k] PROVE Before(s, t)
      BY <1>6, <2>3, <2>4, <3>1 DEF Before
    <3>2. ASSUME Before(s, t) PROVE s[k] < t[k]
      <4>1. ~(Len(s) < Len(t))
        BY <1>1, <1>6
      <4>2. PICK i \in 1..Len(s) : s[i] < t[i] /\ \A h \in 1..(i - 1) : s[h] = t[h]
        BY <3>2, <4>1 DEF Before
      <4>3. s[i] \in Int /\ t[i] \in Int
        <5>1. \A h \in 1..Len(s) : s[h] \in Digits
          OBVIOUS
        <5>2. \A h \in 1..Len(t) : t[h] \in Digits
          OBVIOUS
        <5>3. i \in 1..Len(t)
          BY <1>6
        <5>4. s[i] \in Digits /\ t[i] \in Digits
          BY <5>1, <5>2, <5>3
        <5>. QED
          BY <5>4 DEF Digits
      <4>4. s[i] # t[i]
        BY <4>2, <4>3
      <4>5. ~(i \in 1..(k - 1)) /\ ~(k \in 1..(i - 1))
        BY <2>3, <2>4, <4>2, <4>4
      <4>6. i = k
        BY <1>1, <2>3, <4>5
      <4>. QED
        BY <4>2, <4>6
    <3>. QED
      BY <3>1, <3>2
  <2>. HIDE DEF F, G, n
  <2>. QED
    BY <1>2, <1>6, <2>5, <2>6, <2>7
<1>. QED
  BY <1>4, <1>5, <1>6
=============================================================================
