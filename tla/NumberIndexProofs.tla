-------------------------- MODULE NumberIndexProofs --------------------------
(***************************************************************************)
(* The number index after every sequence of requests, for every set of     *)
(* prefixes, postfixes and aliases and every block size: its tables are    *)
(* ascending and within their arrays, ranges are exact, accepted updates   *)
(* do what they say, refused ones damage little, and the index implements  *)
(* the directory.                                                          *)
(*                                                                         *)
(* TablesAscending is not inductive by itself: the results of a search are *)
(* what keeps it, and they speak of integers and of sequences, so the      *)
(* inductive invariant adds the types and the capacity.                    *)
(***************************************************************************)
EXTENDS NumberIndexRefinement, SequenceTheorems, FiniteSetTheorems, TLAPS

-----------------------------------------------------------------------------
(***************************************************************************)
(* First what the helpers of one lookup table keep: types, order, capacity *)
(* and bindings, for tables of every length and every block size.          *)
(***************************************************************************)

\* A concatenation is its left part, then its right part.
LEMMA ConcatParts ==
  ASSUME NEW S, NEW s1 \in Seq(S), NEW s2 \in Seq(S)
  PROVE  /\ s1 \o s2 \in Seq(S)
         /\ Len(s1 \o s2) = Len(s1) + Len(s2)
         /\ \A i \in 1..Len(s1) : (s1 \o s2)[i] = s1[i]
         /\ \A i \in 1..Len(s2) : (s1 \o s2)[Len(s1) + i] = s2[i]
<1>0. Len(s1) \in Nat /\ Len(s2) \in Nat
  BY LenProperties
<1>1. /\ s1 \o s2 \in Seq(S)
      /\ Len(s1 \o s2) = Len(s1) + Len(s2)
      /\ \A i \in 1..(Len(s1) + Len(s2)) : (s1 \o s2)[i] =
           IF i <= Len(s1) THEN s1[i] ELSE s2[i - Len(s1)]
  BY ConcatProperties
<1>2. ASSUME NEW i \in 1..Len(s1) PROVE (s1 \o s2)[i] = s1[i]
  BY <1>0, <1>1
<1>3. ASSUME NEW i \in 1..Len(s2) PROVE (s1 \o s2)[Len(s1) + i] = s2[i]
  <2>1. /\ Len(s1) + i \in 1..(Len(s1) + Len(s2))
        /\ ~(Len(s1) + i <= Len(s1)) /\ (Len(s1) + i) - Len(s1) = i
    BY <1>0
  <2> QED BY <1>1, <2>1
<1> QED BY <1>1, <1>2, <1>3

\* A subsequence of a sequence, from any place to any place in it.
LEMMA SubSeqParts ==
  ASSUME NEW S, NEW s \in Seq(S), NEW a \in 0..Len(s), NEW b \in a..Len(s)
  PROVE  /\ SubSeq(s, a + 1, b) \in Seq(S)
         /\ Len(SubSeq(s, a + 1, b)) = b - a
         /\ \A i \in 1..(b - a) : SubSeq(s, a + 1, b)[i] = s[a + i]
<1> DEFINE sub == SubSeq(s, a + 1, b)
<1>0. Len(s) \in Nat /\ a \in Nat /\ b \in Nat
  BY LenProperties
<1>1. \A i \in (a + 1)..b : s[i] \in S
  BY <1>0, ElementOfSeq
<1>2. a + 1 \in Int /\ b \in Int
  BY <1>0
<1> HIDE DEF sub
<1>3. /\ sub \in Seq(S)
      /\ Len(sub) = IF a + 1 <= b THEN b - (a + 1) + 1 ELSE 0
      /\ \A i \in 1..(b - (a + 1) + 1) : sub[i] = s[a + 1 + i - 1]
  BY <1>1, <1>2, SubSeqProperties DEF sub
<1>4. ASSUME NEW i \in 1..(b - a) PROVE sub[i] = s[a + i]
  <2>1. i \in 1..(b - (a + 1) + 1) /\ a + 1 + i - 1 = a + i
    BY <1>0
  <2> QED BY <1>3, <2>1
<1> QED BY <1>0, <1>3, <1>4 DEF sub

\* What an insertion into a sequence returns (shift_table_up and the write).
LEMMA InsertAtProperties ==
  ASSUME NEW S, NEW s \in Seq(S), NEW k \in 0..Len(s), NEW e \in S
  PROVE  /\ InsertAt(s, k + 1, e) \in Seq(S)
         /\ Len(InsertAt(s, k + 1, e)) = Len(s) + 1
         /\ \A i \in 1..k : InsertAt(s, k + 1, e)[i] = s[i]
         /\ InsertAt(s, k + 1, e)[k + 1] = e
         /\ \A i \in (k + 1)..Len(s) : InsertAt(s, k + 1, e)[i + 1] = s[i]
<1> DEFINE low  == SubSeq(s, 1, k)
           high == SubSeq(s, k + 1, Len(s))
           one  == << e >>
           ins  == (low \o one) \o high
<1>0. Len(s) \in Nat /\ k \in Nat
  BY LenProperties
<1>1. low \in Seq(S) /\ Len(low) = k /\ \A i \in 1..k : low[i] = s[i]
  <2>1. 0 \in 0..Len(s) /\ k \in 0..Len(s) /\ 0 + 1 = 1 /\ k - 0 = k
    BY <1>0
  <2>2. /\ SubSeq(s, 0 + 1, k) \in Seq(S) /\ Len(SubSeq(s, 0 + 1, k)) = k - 0
        /\ \A i \in 1..(k - 0) : SubSeq(s, 0 + 1, k)[i] = s[0 + i]
    BY <2>1, SubSeqParts
  <2> QED BY <2>1, <2>2
<1>2. /\ high \in Seq(S) /\ Len(high) = Len(s) - k
      /\ \A i \in 1..(Len(s) - k) : high[i] = s[k + i]
  <2>1. Len(s) \in k..Len(s)
    BY <1>0
  <2> QED BY <2>1, SubSeqParts
<1>3. one \in Seq(S) /\ Len(one) = 1 /\ one[1] = e
  OBVIOUS
<1> HIDE DEF low, high, one
<1>4. /\ low \o one \in Seq(S) /\ Len(low \o one) = k + 1
      /\ \A i \in 1..k : (low \o one)[i] = low[i]
      /\ (low \o one)[k + 1] = e
  <2>1. /\ low \o one \in Seq(S) /\ Len(low \o one) = Len(low) + Len(one)
        /\ \A i \in 1..Len(low) : (low \o one)[i] = low[i]
        /\ \A i \in 1..Len(one) : (low \o one)[Len(low) + i] = one[i]
    <3>1. low \in Seq(S) /\ one \in Seq(S)
      BY <1>1, <1>3
    <3> QED BY ONLY <3>1, ConcatParts
  <2>2. (low \o one)[Len(low) + 1] = one[1]
    BY <2>1, <1>3
  <2> QED BY <2>1, <2>2, <1>1, <1>3
<1>5. /\ ins \in Seq(S) /\ Len(ins) = (k + 1) + (Len(s) - k)
      /\ \A i \in 1..(k + 1) : ins[i] = (low \o one)[i]
      /\ \A i \in 1..(Len(s) - k) : ins[(k + 1) + i] = high[i]
  <2> DEFINE lo1 == low \o one
  <2> HIDE DEF lo1
  <2>1. /\ lo1 \o high \in Seq(S) /\ Len(lo1 \o high) = Len(lo1) + Len(high)
        /\ \A i \in 1..Len(lo1) : (lo1 \o high)[i] = lo1[i]
        /\ \A i \in 1..Len(high) : (lo1 \o high)[Len(lo1) + i] = high[i]
    <3>1. lo1 \in Seq(S) /\ high \in Seq(S)
      BY <1>2, <1>4 DEF lo1
    <3> QED BY ONLY <3>1, ConcatParts
  <2>2. ins = lo1 \o high /\ Len(lo1) = k + 1
    BY <1>4 DEF lo1
  <2> QED BY <2>1, <2>2, <1>2 DEF lo1
<1>6. InsertAt(s, k + 1, e) = ins
  <2>1. (k + 1) - 1 = k
    BY <1>0
  <2> QED BY <2>1 DEF InsertAt, low, one, high
<1> HIDE DEF ins
<1>7. ASSUME NEW i \in (k + 1)..Len(s) PROVE ins[i + 1] = s[i]
  <2>1. /\ i - k \in 1..(Len(s) - k)
        /\ (k + 1) + (i - k) = i + 1 /\ k + (i - k) = i
    BY <1>0
  <2>2. ins[(k + 1) + (i - k)] = high[i - k] /\ high[i - k] = s[k + (i - k)]
    BY <2>1, <1>2, <1>5
  <2> QED BY <2>1, <2>2
<1>8. \A i \in 1..k : ins[i] = s[i]
  BY <1>0, <1>1, <1>4, <1>5
<1>9. ins[k + 1] = e /\ (k + 1) + (Len(s) - k) = Len(s) + 1
  BY <1>0, <1>4, <1>5
<1> QED BY <1>5, <1>6, <1>7, <1>8, <1>9

\* What a removal from a sequence returns (shift_table_down).
LEMMA RemoveAtProperties ==
  ASSUME NEW S, NEW s \in Seq(S), NEW k \in 0..(Len(s) - 1)
  PROVE  /\ RemoveAt(s, k + 1) \in Seq(S)
         /\ Len(RemoveAt(s, k + 1)) = Len(s) - 1
         /\ \A i \in 1..k : RemoveAt(s, k + 1)[i] = s[i]
         /\ \A i \in (k + 1)..(Len(s) - 1) : RemoveAt(s, k + 1)[i] = s[i + 1]
<1> DEFINE low  == SubSeq(s, 1, k)
           high == SubSeq(s, (k + 1) + 1, Len(s))
           rem  == low \o high
<1>0. Len(s) \in Nat /\ k \in Nat
  BY LenProperties
<1>1. low \in Seq(S) /\ Len(low) = k /\ \A i \in 1..k : low[i] = s[i]
  <2>1. 0 \in 0..Len(s) /\ k \in 0..Len(s) /\ 0 + 1 = 1 /\ k - 0 = k
    BY <1>0
  <2>2. /\ SubSeq(s, 0 + 1, k) \in Seq(S) /\ Len(SubSeq(s, 0 + 1, k)) = k - 0
        /\ \A i \in 1..(k - 0) : SubSeq(s, 0 + 1, k)[i] = s[0 + i]
    BY <2>1, SubSeqParts
  <2> QED BY <2>1, <2>2
<1>2. /\ high \in Seq(S) /\ Len(high) = Len(s) - (k + 1)
      /\ \A i \in 1..(Len(s) - (k + 1)) : high[i] = s[(k + 1) + i]
  <2>1. k + 1 \in 0..Len(s) /\ Len(s) \in (k + 1)..Len(s)
    BY <1>0
  <2> QED BY <2>1, SubSeqParts
<1> HIDE DEF low, high
<1>3. /\ rem \in Seq(S) /\ Len(rem) = k + (Len(s) - (k + 1))
      /\ \A i \in 1..k : rem[i] = low[i]
      /\ \A i \in 1..(Len(s) - (k + 1)) : rem[k + i] = high[i]
  <2>1. /\ low \o high \in Seq(S) /\ Len(low \o high) = Len(low) + Len(high)
        /\ \A i \in 1..Len(low) : (low \o high)[i] = low[i]
        /\ \A i \in 1..Len(high) : (low \o high)[Len(low) + i] = high[i]
    <3>1. low \in Seq(S) /\ high \in Seq(S)
      BY <1>1, <1>2
    <3> QED BY ONLY <3>1, ConcatParts
  <2> QED BY <2>1, <1>1, <1>2
<1>4. RemoveAt(s, k + 1) = rem
  <2>1. (k + 1) - 1 = k
    BY <1>0
  <2> QED BY <2>1 DEF RemoveAt, low, high
<1> HIDE DEF rem
<1>5. ASSUME NEW i \in (k + 1)..(Len(s) - 1) PROVE rem[i] = s[i + 1]
  <2>1. /\ i - k \in 1..(Len(s) - (k + 1))
        /\ (k + 1) + (i - k) = i + 1 /\ k + (i - k) = i
    BY <1>0
  <2>2. rem[k + (i - k)] = high[i - k] /\ high[i - k] = s[(k + 1) + (i - k)]
    BY <2>1, <1>2, <1>3
  <2> QED BY <2>1, <2>2
<1>6. \A i \in 1..k : rem[i] = s[i]
  BY <1>1, <1>3
<1>7. k + (Len(s) - (k + 1)) = Len(s) - 1
  BY <1>0
<1> QED BY <1>3, <1>4, <1>5, <1>6, <1>7

-----------------------------------------------------------------------------
\* What every operation on a table is to keep.
GoodTable(t) == t \in Table /\ Ascending(t.ents) /\ SpareBlock(t)

\* Packing an alias, refused or not, leaves something the field can hold.
LEMMA CompressAliasType ==
  ASSUME NEW al \in AliasInputs, NEW old \in Stored
  PROVE  CompressAlias(al, old) \in Stored
BY AliasAssumption DEF AliasInputs, CompressAlias, Stored

LEMMA PackedWhole ==
  ASSUME NEW al \in Packable, NEW old
  PROVE  CompressAlias(al, old) = al
BY AliasAssumption DEF CompressAlias, Stored

\* A fresh table, and the absence of one.
LEMMA EmptyTableGood ==
  GoodTable(EmptyTable) /\ GoodTable(NullTable) /\ IsNull(NullTable) /\ ~IsNull(EmptyTable)
BY BlkSizeAssumption
   DEF GoodTable, Table, Ascending, SpareBlock, IsNull, EmptyTable, NullTable

(***************************************************************************)
(* The new-key path: the entries below the insertion point stay, those     *)
(* from it on move up by one, and when the alias is refused the last of    *)
(* them stays out of the used part.                                        *)
(***************************************************************************)
OldAlias(t, k) == IF k < Len(t.ents) THEN t.ents[k + 1].alias ELSE EmptyAlias

NewEntry(t, k, p, al) ==
  [postfix |-> p, alias |-> CompressAlias(al, OldAlias(t, k))]

NewLen(t, al) == IF al \in Packable THEN Len(t.ents) + 1 ELSE Len(t.ents)

LEMMA EntryTypes ==
  ASSUME NEW t, GoodTable(t)
  PROVE  /\ t.ents \in Seq(Entry) /\ Len(t.ents) \in Nat /\ t.sz \in Nat
         /\ \A i \in 1..Len(t.ents) : /\ t.ents[i] \in Entry
                                      /\ t.ents[i].postfix \in Postfixes
                                      /\ t.ents[i].postfix \in Int
                                      /\ t.ents[i].alias \in Stored
<1>1. t.ents \in Seq(Entry) /\ Len(t.ents) \in Nat /\ t.sz \in Nat
  BY DEF GoodTable, Table
<1>2. \A i \in 1..Len(t.ents) : t.ents[i] \in Entry
  BY <1>1, ElementOfSeq
<1> QED BY <1>1, <1>2, PostfixAssumption DEF Entry

LEMMA NewEntryType ==
  ASSUME NEW t, GoodTable(t), NEW k \in 0..Len(t.ents), NEW p \in Postfixes,
         NEW al \in AliasInputs
  PROVE  /\ NewEntry(t, k, p, al) \in Entry /\ NewEntry(t, k, p, al).postfix = p
         /\ NewEntry(t, k, p, al).alias = CompressAlias(al, OldAlias(t, k))
         /\ OldAlias(t, k) \in Stored
<1>1. OldAlias(t, k) \in Stored
  <2>1. CASE k < Len(t.ents)
    <3>1. k + 1 \in 1..Len(t.ents)
      BY <2>1, EntryTypes
    <3> QED BY <2>1, <3>1, EntryTypes DEF OldAlias
  <2>2. CASE ~(k < Len(t.ents))
    BY <2>2 DEF OldAlias, Stored
  <2> QED BY <2>1, <2>2
<1>2. CompressAlias(al, OldAlias(t, k)) \in Stored
  BY <1>1, CompressAliasType
<1> QED BY <1>1, <1>2 DEF NewEntry, Entry

LEMMA InsertNewShape ==
  ASSUME NEW t, GoodTable(t), NEW p \in Postfixes, NEW al \in AliasInputs,
         NEW k \in 0..Len(t.ents)
  PROVE  LET ents == InsertNew(t, k, p, al).ents IN
         /\ ents \in Seq(Entry) /\ Len(ents) = NewLen(t, al)
         /\ \A i \in 1..k : ents[i] = t.ents[i]
         /\ k + 1 <= NewLen(t, al) => ents[k + 1] = NewEntry(t, k, p, al)
         /\ \A i \in (k + 2)..NewLen(t, al) : ents[i] = t.ents[i - 1]
<1> DEFINE n   == Len(t.ents)
           e   == NewEntry(t, k, p, al)
           ins == InsertAt(t.ents, k + 1, e)
           cut == SubSeq(ins, 1, n)
<1>1. t.ents \in Seq(Entry) /\ n \in Nat /\ k \in 0..n
  BY EntryTypes
<1>2. e \in Entry
  BY NewEntryType
<1> HIDE DEF e
<1>3. /\ ins \in Seq(Entry) /\ Len(ins) = n + 1
      /\ \A i \in 1..k : ins[i] = t.ents[i]
      /\ ins[k + 1] = e
      /\ \A i \in (k + 1)..n : ins[i + 1] = t.ents[i]
  <2> DEFINE s == t.ents
  <2>1. s \in Seq(Entry) /\ k \in 0..Len(s) /\ e \in Entry
    BY <1>1, <1>2
  <2> HIDE DEF s
  <2>2. /\ InsertAt(s, k + 1, e) \in Seq(Entry)
        /\ Len(InsertAt(s, k + 1, e)) = Len(s) + 1
    BY ONLY <2>1, InsertAtProperties
  <2>3. \A i \in 1..k : InsertAt(s, k + 1, e)[i] = s[i]
    BY ONLY <2>1, InsertAtProperties
  <2>4. /\ InsertAt(s, k + 1, e)[k + 1] = e
        /\ \A i \in (k + 1)..Len(s) : InsertAt(s, k + 1, e)[i + 1] = s[i]
    BY ONLY <2>1, InsertAtProperties
  <2> QED BY <2>2, <2>3, <2>4 DEF s
<1> HIDE DEF ins
<1>4. \A i \in (k + 2)..(n + 1) : ins[i] = t.ents[i - 1]
  <2> SUFFICES ASSUME NEW i \in (k + 2)..(n + 1) PROVE ins[i] = t.ents[i - 1]
    OBVIOUS
  <2>1. i - 1 \in (k + 1)..n /\ (i - 1) + 1 = i
    BY <1>1
  <2> QED BY <1>3, <2>1
<1>5. cut \in Seq(Entry) /\ Len(cut) = n /\ \A i \in 1..n : cut[i] = ins[i]
  <2>1. 0 \in 0..Len(ins) /\ n \in 0..Len(ins) /\ 0 + 1 = 1 /\ n - 0 = n
    BY <1>1, <1>3
  <2>2. /\ SubSeq(ins, 0 + 1, n) \in Seq(Entry) /\ Len(SubSeq(ins, 0 + 1, n)) = n - 0
        /\ \A i \in 1..(n - 0) : SubSeq(ins, 0 + 1, n)[i] = ins[0 + i]
    BY <1>3, <2>1, SubSeqParts
  <2> HIDE DEF cut
  <2> QED BY <2>1, <2>2, <1>1, <1>3 DEF cut
<1>6. InsertNew(t, k, p, al).ents = IF al \in Packable THEN ins ELSE cut
  BY DEF InsertNew, ins, cut, e, NewEntry, OldAlias
<1> HIDE DEF cut
<1> DEFINE out == InsertNew(t, k, p, al).ents
<1> HIDE DEF out
<1>7. /\ out \in Seq(Entry) /\ Len(out) = NewLen(t, al)
      /\ \A i \in 1..k : out[i] = t.ents[i]
      /\ k + 1 <= NewLen(t, al) => out[k + 1] = e
      /\ \A i \in (k + 2)..NewLen(t, al) : out[i] = t.ents[i - 1]
  <2>1. CASE al \in Packable
    <3>1. out = ins /\ NewLen(t, al) = n + 1
      BY <1>6, <2>1 DEF NewLen, out
    <3> QED BY <1>1, <1>3, <1>4, <3>1
  <2>2. CASE al \notin Packable
    <3>1. out = cut /\ NewLen(t, al) = n
      BY <1>6, <2>2 DEF NewLen, out
    <3>2. /\ \A i \in 1..k : i \in 1..n
          /\ k + 1 <= n => k + 1 \in 1..n
          /\ \A i \in (k + 2)..n : i \in 1..n /\ i \in (k + 2)..(n + 1)
      BY <1>1
    <3> QED BY <1>1, <1>3, <1>4, <1>5, <3>1, <3>2
  <2> QED BY <2>1, <2>2
<1> QED BY <1>7 DEF out, e

(***************************************************************************)
(* The new-key path keeps order and capacity whether the alias is packed   *)
(* or refused.                                                             *)
(***************************************************************************)
LEMMA InsertNewKeeps ==
  ASSUME NEW t, GoodTable(t), ~IsNull(t), NEW p \in Postfixes,
         NEW al \in AliasInputs, NEW k, InsertionPoint(t.ents, p, k)
  PROVE  GoodTable(InsertNew(t, k, p, al)) /\ ~IsNull(InsertNew(t, k, p, al))
<1> DEFINE n    == Len(t.ents)
           m    == NewLen(t, al)
           ents == InsertNew(t, k, p, al).ents
<1>1. /\ t.ents \in Seq(Entry) /\ n \in Nat /\ t.sz \in Nat /\ k \in 0..n
      /\ m \in {n, n + 1} /\ p \in Int
      /\ \A i \in 1..n : t.ents[i].postfix \in Int
  BY EntryTypes, PostfixAssumption DEF InsertionPoint, NewLen
<1>2. /\ ents \in Seq(Entry) /\ Len(ents) = m
      /\ \A i \in 1..k : ents[i] = t.ents[i]
      /\ k + 1 <= m => ents[k + 1].postfix = p
      /\ \A i \in (k + 2)..m : ents[i] = t.ents[i - 1]
  BY <1>1, InsertNewShape, NewEntryType
<1>3. /\ \A i \in 1..k : t.ents[i].postfix < p
      /\ \A i \in (k + 2)..m : t.ents[i - 1].postfix > p
  <2>1. ASSUME NEW i \in (k + 2)..m PROVE i - 1 \in (k + 1)..n
    BY <1>1
  <2> QED BY <2>1 DEF InsertionPoint
<1>4. \A a, b \in 1..n : a < b => t.ents[a].postfix < t.ents[b].postfix
  BY DEF GoodTable, Ascending
<1>5. Ascending(ents)
  <2> HIDE DEF n, m, ents
  <2> SUFFICES ASSUME NEW i \in 1..m, NEW j \in 1..m, i < j
               PROVE  ents[i].postfix < ents[j].postfix
    BY <1>2 DEF Ascending
  <2>1. CASE j <= k
    <3>1. i \in 1..k /\ j \in 1..k /\ i \in 1..n /\ j \in 1..n
      BY <1>1, <2>1
    <3> QED BY <1>2, <1>4, <3>1
  <2>2. CASE j = k + 1
    <3>1. i \in 1..k /\ k + 1 <= m
      BY <1>1, <2>2
    <3> QED BY <1>2, <1>3, <2>2, <3>1
  <2>3. CASE j > k + 1 /\ i <= k
    <3>1. i \in 1..k /\ j \in (k + 2)..m /\ i \in 1..n /\ j - 1 \in 1..n
          /\ i < j - 1
      BY <1>1, <2>3
    <3> QED BY <1>2, <1>4, <3>1
  <2>4. CASE j > k + 1 /\ i = k + 1
    <3>1. j \in (k + 2)..m /\ k + 1 <= m /\ j - 1 \in 1..n
      BY <1>1, <2>4
    <3> QED BY <1>1, <1>2, <1>3, <2>4, <3>1
  <2>5. CASE j > k + 1 /\ i > k + 1
    <3>1. /\ i \in (k + 2)..m /\ j \in (k + 2)..m
          /\ i - 1 \in 1..n /\ j - 1 \in 1..n /\ i - 1 < j - 1
      BY <1>1, <2>5
    <3> QED BY <1>2, <1>4, <3>1
  <2> QED BY <1>1, <2>1, <2>2, <2>3, <2>4, <2>5
<1>6. /\ GrownSize(t) \in Nat /\ GrownSize(t) # 0
      /\ n + 1 <= GrownSize(t) /\ GrownSize(t) <= n + BlkSize
  BY <1>1, BlkSizeAssumption DEF GrownSize, GoodTable, SpareBlock, IsNull
<1>7. InsertNew(t, k, p, al) = [ents |-> ents, sz |-> GrownSize(t)]
  BY DEF InsertNew
<1> HIDE DEF ents, m
<1> QED BY <1>1, <1>2, <1>5, <1>6, <1>7, BlkSizeAssumption
        DEF GoodTable, Table, SpareBlock, IsNull

\* Packing over a duplicate: one alias changes.
LEMMA OverwriteShape ==
  ASSUME NEW t, GoodTable(t), NEW al \in AliasInputs,
         NEW r \in 0..(Len(t.ents) - 1)
  PROVE  LET ents == Overwrite(t, r, al).ents IN
         /\ r + 1 \in 1..Len(t.ents)
         /\ ents \in Seq(Entry) /\ Len(ents) = Len(t.ents)
         /\ ents[r + 1] = [postfix |-> t.ents[r + 1].postfix,
                           alias |-> CompressAlias(al, t.ents[r + 1].alias)]
         /\ \A i \in 1..Len(t.ents) : i # r + 1 => ents[i] = t.ents[i]
<1> DEFINE e == [t.ents[r + 1] EXCEPT !.alias =
                   CompressAlias(al, t.ents[r + 1].alias)]
           new == [t.ents EXCEPT ![r + 1] = e]
<1>1. /\ t.ents \in Seq(Entry) /\ Len(t.ents) \in Nat
      /\ r + 1 \in 1..Len(t.ents)
  BY EntryTypes
<1>2. t.ents[r + 1] \in Entry
  BY <1>1, ElementOfSeq
<1>3. /\ e \in Entry
      /\ e = [postfix |-> t.ents[r + 1].postfix,
              alias |-> CompressAlias(al, t.ents[r + 1].alias)]
  <2>1. CompressAlias(al, t.ents[r + 1].alias) \in Stored
    BY <1>2, CompressAliasType DEF Entry
  <2> QED BY <1>2, <2>1 DEF Entry
<1>4. Overwrite(t, r, al).ents = new
  BY DEF Overwrite
<1> HIDE DEF e
<1>5. /\ new \in Seq(Entry) /\ Len(new) = Len(t.ents)
      /\ \A j \in 1..Len(t.ents) : new[j] = IF j = r + 1 THEN e ELSE t.ents[j]
  BY <1>1, <1>3, ExceptSeq
<1> HIDE DEF new
<1> QED BY <1>1, <1>3, <1>4, <1>5

\* Packing a duplicate's alias over leaves the postfixes as they are.
LEMMA OverwriteKeeps ==
  ASSUME NEW t, GoodTable(t), ~IsNull(t), NEW al \in AliasInputs,
         NEW r \in 0..(Len(t.ents) - 1)
  PROVE  GoodTable(Overwrite(t, r, al)) /\ ~IsNull(Overwrite(t, r, al))
<1> DEFINE new == Overwrite(t, r, al).ents
<1>1. Overwrite(t, r, al) = [ents |-> new, sz |-> t.sz]
  BY DEF Overwrite
<1>2. /\ new \in Seq(Entry) /\ Len(new) = Len(t.ents)
      /\ \A j \in 1..Len(t.ents) : new[j].postfix = t.ents[j].postfix
  <2>1. /\ new \in Seq(Entry) /\ Len(new) = Len(t.ents)
        /\ new[r + 1] = [postfix |-> t.ents[r + 1].postfix,
                         alias |-> CompressAlias(al, t.ents[r + 1].alias)]
        /\ \A i \in 1..Len(t.ents) : i # r + 1 => new[i] = t.ents[i]
    BY OverwriteShape
  <2> HIDE DEF new
  <2> QED BY <2>1
<1> HIDE DEF new
<1>3. Ascending(new)
  BY <1>2 DEF GoodTable, Ascending
<1> QED BY <1>1, <1>2, <1>3, EntryTypes DEF GoodTable, Table, SpareBlock, IsNull

\* enter_entry keeps a table good, for every result of the search.
LEMMA EnterAtKeeps ==
  ASSUME NEW t, GoodTable(t), ~IsNull(t), NEW p \in Postfixes,
         NEW al \in AliasInputs, NEW r \in SearchResults(t.ents, p)
  PROVE  GoodTable(EnterAt(t, r, p, al)) /\ ~IsNull(EnterAt(t, r, p, al))
<1>0. Len(t.ents) \in Nat
  BY DEF GoodTable, Table
<1>1. CASE r < 0
  <2>1. InsertionPoint(t.ents, p, -r - 1)
    BY <1>0, <1>1 DEF SearchResults
  <2> QED BY <1>1, <2>1, InsertNewKeeps DEF EnterAt
<1>2. CASE ~(r < 0)
  <2>1. r \in 0..(Len(t.ents) - 1)
    BY <1>0, <1>2 DEF SearchResults, Found
  <2> QED BY <1>2, <2>1, OverwriteKeeps DEF EnterAt
<1> QED BY <1>1, <1>2

\* delete_entry: the entries above the deleted one move down by one.
LEMMA DeleteAtShape ==
  ASSUME NEW t, GoodTable(t), NEW r \in 0..(Len(t.ents) - 1)
  PROVE  LET ents == DeleteAt(t, r).ents IN
         /\ ents \in Seq(Entry) /\ Len(ents) = Len(t.ents) - 1
         /\ \A i \in 1..r : ents[i] = t.ents[i]
         /\ \A i \in (r + 1)..(Len(t.ents) - 1) : ents[i] = t.ents[i + 1]
<1>1. t.ents \in Seq(Entry) /\ Len(t.ents) \in Nat
  BY EntryTypes
<1>2. CASE Len(t.ents) = 1
  <2>1. DeleteAt(t, r).ents = << >> /\ r = 0
    BY <1>2 DEF DeleteAt, NullTable
  <2>2. << >> \in Seq(Entry) /\ Len(<< >>) = 0
    OBVIOUS
  <2> DEFINE ents == DeleteAt(t, r).ents
  <2> HIDE DEF ents
  <2>3. ents = << >>
    BY <2>1 DEF ents
  <2>4. /\ ents \in Seq(Entry) /\ Len(ents) = Len(t.ents) - 1
        /\ \A i \in 1..r : ents[i] = t.ents[i]
        /\ \A i \in (r + 1)..(Len(t.ents) - 1) : ents[i] = t.ents[i + 1]
    BY <1>2, <2>1, <2>2, <2>3
  <2> QED BY <2>4 DEF ents
<1>3. CASE Len(t.ents) # 1
  <2> DEFINE new == RemoveAt(t.ents, r + 1)
  <2>1. /\ new \in Seq(Entry) /\ Len(new) = Len(t.ents) - 1
        /\ \A i \in 1..r : new[i] = t.ents[i]
        /\ \A i \in (r + 1)..(Len(t.ents) - 1) : new[i] = t.ents[i + 1]
    <3>1. t.ents \in Seq(Entry) /\ r \in 0..(Len(t.ents) - 1)
      BY <1>1
    <3> QED BY ONLY <3>1, RemoveAtProperties
  <2>2. DeleteAt(t, r).ents = new
    BY <1>3 DEF DeleteAt
  <2> HIDE DEF new
  <2> QED BY <2>1, <2>2
<1> QED BY <1>2, <1>3

(***************************************************************************)
(* delete_entry keeps a table good: the entries stay in order, and a whole *)
(* spare block is given back, or the table itself with its last entry.     *)
(***************************************************************************)
LEMMA DeleteAtKeeps ==
  ASSUME NEW t, GoodTable(t), ~IsNull(t), NEW r \in 0..(Len(t.ents) - 1)
  PROVE  GoodTable(DeleteAt(t, r))
<1> DEFINE n   == Len(t.ents)
           new == DeleteAt(t, r).ents
<1>1. /\ t.ents \in Seq(Entry) /\ n \in Nat /\ t.sz \in Nat /\ t.sz # 0
      /\ 1 <= n /\ n <= t.sz /\ t.sz <= n + BlkSize
  BY DEF GoodTable, Table, SpareBlock, IsNull
<1>2. CASE n = 1
  BY <1>2, EmptyTableGood DEF DeleteAt
<1>3. CASE n # 1
  <2>1. /\ new \in Seq(Entry) /\ Len(new) = n - 1
        /\ \A i \in 1..r : new[i] = t.ents[i]
        /\ \A i \in (r + 1)..(n - 1) : new[i] = t.ents[i + 1]
    BY DeleteAtShape
  <2> HIDE DEF new
  <2>2. Ascending(new)
    <3> SUFFICES ASSUME NEW i \in 1..(n - 1), NEW j \in 1..(n - 1), i < j
                 PROVE  new[i].postfix < new[j].postfix
      BY <2>1 DEF Ascending
    <3>0. \A a, b \in 1..n : a < b => t.ents[a].postfix < t.ents[b].postfix
      BY DEF GoodTable, Ascending
    <3>1. CASE j <= r
      <4>1. i \in 1..r /\ j \in 1..r /\ i \in 1..n /\ j \in 1..n
        BY <1>1, <3>1
      <4> QED BY <2>1, <3>0, <4>1
    <3>2. CASE i <= r /\ j > r
      <4>1. /\ i \in 1..r /\ j \in (r + 1)..(n - 1)
            /\ i \in 1..n /\ j + 1 \in 1..n /\ i < j + 1
        BY <1>1, <3>2
      <4> QED BY <2>1, <3>0, <4>1
    <3>3. CASE i > r
      <4>1. /\ i \in (r + 1)..(n - 1) /\ j \in (r + 1)..(n - 1)
            /\ i + 1 \in 1..n /\ j + 1 \in 1..n /\ i + 1 < j + 1
        BY <1>1, <3>3
      <4> QED BY <2>1, <3>0, <4>1
    <3> QED BY <1>1, <3>1, <3>2, <3>3
  <2>3. /\ ShrunkSize(t.sz, n - 1) \in Nat /\ ShrunkSize(t.sz, n - 1) # 0
        /\ n - 1 <= ShrunkSize(t.sz, n - 1)
        /\ ShrunkSize(t.sz, n - 1) <= (n - 1) + BlkSize
    <3> HIDE DEF n
    <3>1. /\ t.sz \in Nat /\ n >= 2 /\ n <= t.sz
          /\ t.sz <= n + BlkSize /\ n \in Nat
      BY <1>1, <1>3, BlkSizeAssumption
    <3>2. CASE t.sz - (n - 1) >= BlkSize
      BY <3>1, <3>2, BlkSizeAssumption DEF ShrunkSize
    <3>3. CASE ~(t.sz - (n - 1) >= BlkSize)
      BY <3>1, <3>3, BlkSizeAssumption DEF ShrunkSize
    <3> QED BY <3>2, <3>3
  <2>4. DeleteAt(t, r) = [ents |-> new, sz |-> ShrunkSize(t.sz, n - 1)]
    BY <1>3 DEF DeleteAt, new
  <2> QED BY <2>1, <2>2, <2>3, <2>4 DEF GoodTable, Table, SpareBlock, IsNull
<1> QED BY <1>2, <1>3
-----------------------------------------------------------------------------
(* What the operations do to what a table says. *)

LEMMA BindingsAre ==
  ASSUME NEW t, t.ents \in Seq(Entry)
  PROVE  /\ \A b \in Bindings(t) : \E i \in 1..Len(t.ents) :
              b = <<t.ents[i].postfix, t.ents[i].alias>>
         /\ \A i \in 1..Len(t.ents) :
              <<t.ents[i].postfix, t.ents[i].alias>> \in Bindings(t)
BY DEF Bindings

\* Two entries at different places have different postfixes.
LEMMA PostfixOnce ==
  ASSUME NEW t, GoodTable(t), NEW i \in 1..Len(t.ents), NEW j \in 1..Len(t.ents),
         t.ents[i].postfix = t.ents[j].postfix
  PROVE  i = j
<1>1. /\ Len(t.ents) \in Nat
      /\ t.ents[i].postfix \in Int /\ t.ents[j].postfix \in Int
  BY EntryTypes
<1>2. CASE i < j
  <2>1. t.ents[i].postfix < t.ents[j].postfix
    BY <1>2 DEF GoodTable, Ascending
  <2> QED BY <1>1, <2>1
<1>3. CASE j < i
  <2>1. t.ents[j].postfix < t.ents[i].postfix
    BY <1>3 DEF GoodTable, Ascending
  <2> QED BY <1>1, <2>1
<1> QED BY <1>1, <1>2, <1>3

\* A postfix with an insertion point has no entry, a found one has exactly one.
LEMMA SearchBindings ==
  ASSUME NEW t, GoodTable(t), NEW p \in Int
  PROVE  /\ \A k : InsertionPoint(t.ents, p, k) =>
              \A b \in Bindings(t) : b[1] # p
         /\ \A r : Found(t.ents, p, r) =>
              /\ r + 1 \in 1..Len(t.ents)
              /\ <<p, t.ents[r + 1].alias>> \in Bindings(t)
              /\ \A b \in Bindings(t) : b[1] = p => b = <<p, t.ents[r + 1].alias>>
<1>1. /\ t.ents \in Seq(Entry) /\ Len(t.ents) \in Nat
      /\ \A i \in 1..Len(t.ents) : t.ents[i].postfix \in Int
  BY EntryTypes
<1>2. ASSUME NEW k, InsertionPoint(t.ents, p, k), NEW b \in Bindings(t)
      PROVE  b[1] # p
  <2>1. PICK i \in 1..Len(t.ents) : b = <<t.ents[i].postfix, t.ents[i].alias>>
    BY <1>1, BindingsAre
  <2>2. i \in 1..k \/ i \in (k + 1)..Len(t.ents)
    BY <1>1, <1>2 DEF InsertionPoint
  <2>3. t.ents[i].postfix < p \/ t.ents[i].postfix > p
    BY <1>2, <2>2 DEF InsertionPoint
  <2> QED BY <1>1, <2>1, <2>3
<1>3. ASSUME NEW r, Found(t.ents, p, r)
      PROVE  /\ r + 1 \in 1..Len(t.ents)
             /\ <<p, t.ents[r + 1].alias>> \in Bindings(t)
             /\ \A b \in Bindings(t) : b[1] = p => b = <<p, t.ents[r + 1].alias>>
  <2>1. r + 1 \in 1..Len(t.ents) /\ t.ents[r + 1].postfix = p
    BY <1>1, <1>3 DEF Found
  <2>2. ASSUME NEW b \in Bindings(t), b[1] = p
        PROVE  b = <<p, t.ents[r + 1].alias>>
    <3>1. PICK i \in 1..Len(t.ents) : b = <<t.ents[i].postfix, t.ents[i].alias>>
      BY <1>1, BindingsAre
    <3>2. i = r + 1
      BY <2>1, <2>2, <3>1, PostfixOnce
    <3> QED BY <2>1, <3>1, <3>2
  <2>3. <<t.ents[r + 1].postfix, t.ents[r + 1].alias>> \in Bindings(t)
    BY <1>1, <2>1, BindingsAre
  <2> QED BY <2>1, <2>2, <2>3
<1> QED BY <1>2, <1>3

\* A new number with an alias that is packed: one more binding.
LEMMA InsertNewBinds ==
  ASSUME NEW t, GoodTable(t), NEW p \in Postfixes, NEW al \in Packable,
         NEW k \in 0..Len(t.ents)
  PROVE  Bindings(InsertNew(t, k, p, al)) = Bindings(t) \cup {<<p, al>>}
<1> DEFINE n   == Len(t.ents)
           u   == InsertNew(t, k, p, al)
<1>1. /\ t.ents \in Seq(Entry) /\ n \in Nat /\ al \in AliasInputs
      /\ NewLen(t, al) = n + 1
  BY EntryTypes DEF AliasInputs, NewLen
<1>2. /\ NewEntry(t, k, p, al).postfix = p /\ NewEntry(t, k, p, al).alias = al
  BY <1>1, NewEntryType, PackedWhole
<1>3. /\ u.ents \in Seq(Entry) /\ Len(u.ents) = n + 1
      /\ \A i \in 1..k : u.ents[i] = t.ents[i]
      /\ u.ents[k + 1] = NewEntry(t, k, p, al)
      /\ \A i \in (k + 2)..(n + 1) : u.ents[i] = t.ents[i - 1]
  <2>1. k + 1 <= n + 1
    BY <1>1
  <2>2. /\ u.ents \in Seq(Entry) /\ Len(u.ents) = NewLen(t, al)
        /\ \A i \in 1..k : u.ents[i] = t.ents[i]
        /\ k + 1 <= NewLen(t, al) => u.ents[k + 1] = NewEntry(t, k, p, al)
        /\ \A i \in (k + 2)..NewLen(t, al) : u.ents[i] = t.ents[i - 1]
    BY <1>1, InsertNewShape
  <2> HIDE DEF u, n
  <2> QED BY <1>1, <2>1, <2>2
<1> HIDE DEF u
<1>4. ASSUME NEW b \in Bindings(u) PROVE b \in Bindings(t) \cup {<<p, al>>}
  <2>1. PICK i \in 1..(n + 1) : b = <<u.ents[i].postfix, u.ents[i].alias>>
    BY <1>3, BindingsAre
  <2>2. CASE i \in 1..k
    <3>1. i \in 1..n
      BY <1>1, <2>2
    <3> QED BY <1>1, <1>3, <2>1, <2>2, <3>1, BindingsAre
  <2>3. CASE i = k + 1
    BY <1>2, <1>3, <2>1, <2>3
  <2>4. CASE i \in (k + 2)..(n + 1)
    <3>1. i - 1 \in 1..n
      BY <1>1, <2>4
    <3> QED BY <1>1, <1>3, <2>1, <2>4, <3>1, BindingsAre
  <2> QED BY <1>1, <2>2, <2>3, <2>4
<1>5. ASSUME NEW b \in Bindings(t) \cup {<<p, al>>} PROVE b \in Bindings(u)
  <2>1. CASE b = <<p, al>>
    <3>1. k + 1 \in 1..(n + 1)
      BY <1>1
    <3> QED BY <1>2, <1>3, <2>1, <3>1, BindingsAre
  <2>2. CASE b \in Bindings(t)
    <3>1. PICK i \in 1..n : b = <<t.ents[i].postfix, t.ents[i].alias>>
      BY <1>1, <2>2, BindingsAre
    <3>2. CASE i <= k
      <4>1. i \in 1..k /\ i \in 1..(n + 1)
        BY <1>1, <3>2
      <4> QED BY <1>3, <3>1, <4>1, BindingsAre
    <3>3. CASE i > k
      <4>1. i + 1 \in (k + 2)..(n + 1) /\ i + 1 \in 1..(n + 1) /\ (i + 1) - 1 = i
        BY <1>1, <3>3
      <4> QED BY <1>3, <3>1, <4>1, BindingsAre
    <3> QED BY <1>1, <3>2, <3>3
  <2> QED BY <2>1, <2>2
<1>6. Bindings(u) = Bindings(t) \cup {<<p, al>>}
  BY <1>4, <1>5
<1> QED BY <1>6 DEF u

\* A new number with a refused alias: nothing if it belongs at the end,
\* otherwise its wreck takes the place of the last entry.
LEMMA InsertNewRefusedBinds ==
  ASSUME NEW t, GoodTable(t), NEW p \in Postfixes,
         NEW al \in AliasInputs \ Packable, NEW k \in 0..Len(t.ents)
  PROVE  LET n    == Len(t.ents)
             last == <<t.ents[n].postfix, t.ents[n].alias>>
             new  == <<p, CompressAlias(al, t.ents[k + 1].alias)>>
         IN  /\ k = n => Bindings(InsertNew(t, k, p, al)) = Bindings(t)
             /\ k < n => Bindings(InsertNew(t, k, p, al)) =
                           (Bindings(t) \ {last}) \cup {new}
<1> DEFINE n    == Len(t.ents)
           u    == InsertNew(t, k, p, al)
           last == <<t.ents[n].postfix, t.ents[n].alias>>
           e    == NewEntry(t, k, p, al)
           new  == <<e.postfix, e.alias>>
<1>1. t.ents \in Seq(Entry) /\ n \in Nat /\ NewLen(t, al) = n
  BY EntryTypes DEF NewLen
<1>2. /\ u.ents \in Seq(Entry) /\ Len(u.ents) = n
      /\ \A i \in 1..k : u.ents[i] = t.ents[i]
      /\ k + 1 <= n => u.ents[k + 1] = e
      /\ \A i \in (k + 2)..n : u.ents[i] = t.ents[i - 1]
  BY <1>1, InsertNewShape
<1> HIDE DEF u, e
<1>3. CASE k = n
  <2>1. \A i \in 1..n : u.ents[i] = t.ents[i]
    BY <1>2, <1>3
  <2>2. Bindings(u) = Bindings(t)
    BY <1>1, <1>2, <2>1 DEF Bindings
  <2> QED BY <1>1, <1>3, <2>2 DEF u
<1>4. CASE k < n
  <2>0. /\ n \in 1..n /\ k + 1 \in 1..n
        /\ u.ents[k + 1] = e
    BY <1>1, <1>2, <1>4
  <2>1. new = <<p, CompressAlias(al, t.ents[k + 1].alias)>>
    BY <1>4, NewEntryType DEF e, OldAlias
  <2>2. ASSUME NEW b \in Bindings(u) PROVE b \in (Bindings(t) \ {last}) \cup {new}
    <3>1. PICK i \in 1..n : b = <<u.ents[i].postfix, u.ents[i].alias>>
      BY <1>2, BindingsAre
    <3>2. CASE i = k + 1
      BY <2>0, <3>1, <3>2
    <3>3. ASSUME NEW j \in 1..(n - 1), u.ents[i] = t.ents[j]
          PROVE  b \in Bindings(t) \ {last}
      <4>1. j \in 1..n /\ j # n
        BY <1>1, <3>3
      <4>2. b = <<t.ents[j].postfix, t.ents[j].alias>> /\ b \in Bindings(t)
        BY <1>1, <3>1, <3>3, <4>1, BindingsAre
      <4>3. t.ents[j].postfix # t.ents[n].postfix
        BY <2>0, <4>1, PostfixOnce
      <4> QED BY <4>2, <4>3
    <3>4. CASE i \in 1..k
      <4>1. i \in 1..(n - 1)
        BY <1>1, <1>4, <3>4
      <4> QED BY <1>2, <3>3, <3>4, <4>1
    <3>5. CASE i \in (k + 2)..n
      <4>1. i - 1 \in 1..(n - 1)
        BY <1>1, <3>5
      <4> QED BY <1>2, <3>3, <3>5, <4>1
    <3> QED BY <1>1, <3>2, <3>4, <3>5
  <2>3. ASSUME NEW b \in (Bindings(t) \ {last}) \cup {new} PROVE b \in Bindings(u)
    <3>1. CASE b = new
      BY <1>2, <2>0, <3>1, BindingsAre
    <3>2. CASE b \in Bindings(t) \ {last}
      <4>1. PICK i \in 1..n : b = <<t.ents[i].postfix, t.ents[i].alias>>
        BY <1>1, <3>2, BindingsAre
      <4>2. i # n
        BY <3>2, <4>1
      <4>3. CASE i <= k
        <5>1. i \in 1..k
          BY <1>1, <4>3
        <5> QED BY <1>2, <4>1, <5>1, BindingsAre
      <4>4. CASE i > k
        <5>1. i + 1 \in (k + 2)..n /\ i + 1 \in 1..n /\ (i + 1) - 1 = i
          BY <1>1, <4>2, <4>4
        <5> QED BY <1>2, <4>1, <5>1, BindingsAre
      <4> QED BY <1>1, <4>3, <4>4
    <3> QED BY <2>3, <3>1, <3>2
  <2>4. Bindings(u) = (Bindings(t) \ {last}) \cup {new}
    BY <2>2, <2>3
  <2> QED BY <1>1, <1>4, <2>1, <2>4 DEF u
<1> QED BY <1>1, <1>3, <1>4

\* Packing over: the binding of the postfix is replaced.
LEMMA OverwriteBinds ==
  ASSUME NEW t, GoodTable(t), NEW p \in Postfixes, NEW al \in AliasInputs,
         NEW r, Found(t.ents, p, r)
  PROVE  Bindings(Overwrite(t, r, al)) =
           (Bindings(t) \ BindingsOf(t, p))
             \cup {<<p, CompressAlias(al, t.ents[r + 1].alias)>>}
<1> DEFINE n   == Len(t.ents)
           u   == Overwrite(t, r, al)
           new == <<p, CompressAlias(al, t.ents[r + 1].alias)>>
<1>1. /\ t.ents \in Seq(Entry) /\ n \in Nat /\ r \in 0..(n - 1)
      /\ t.ents[r + 1].postfix = p /\ r + 1 \in 1..n
  BY EntryTypes DEF Found
<1>2. /\ u.ents \in Seq(Entry) /\ Len(u.ents) = n
      /\ u.ents[r + 1] = [postfix |-> t.ents[r + 1].postfix,
                          alias |-> CompressAlias(al, t.ents[r + 1].alias)]
      /\ \A i \in 1..n : i # r + 1 => u.ents[i] = t.ents[i]
  BY <1>1, OverwriteShape
<1> HIDE DEF u
<1>3. new = <<u.ents[r + 1].postfix, u.ents[r + 1].alias>>
  BY <1>1, <1>2
<1> HIDE DEF new
<1>4. ASSUME NEW b \in Bindings(u)
      PROVE  b \in (Bindings(t) \ BindingsOf(t, p)) \cup {new}
  <2>1. PICK i \in 1..n : b = <<u.ents[i].postfix, u.ents[i].alias>>
    BY <1>2, BindingsAre
  <2>2. CASE i = r + 1
    BY <1>3, <2>1, <2>2
  <2>3. CASE i # r + 1
    <3>1. b = <<t.ents[i].postfix, t.ents[i].alias>> /\ b \in Bindings(t)
      BY <1>1, <1>2, <2>1, <2>3, BindingsAre
    <3>2. t.ents[i].postfix # p
      BY <1>1, <2>3, PostfixOnce
    <3> QED BY <3>1, <3>2 DEF BindingsOf
  <2> QED BY <2>2, <2>3
<1>5. ASSUME NEW b \in (Bindings(t) \ BindingsOf(t, p)) \cup {new}
      PROVE  b \in Bindings(u)
  <2>1. CASE b = new
    BY <1>1, <1>2, <1>3, <2>1, BindingsAre
  <2>2. CASE b \in Bindings(t) \ BindingsOf(t, p)
    <3>1. PICK i \in 1..n : b = <<t.ents[i].postfix, t.ents[i].alias>>
      BY <1>1, <2>2, BindingsAre
    <3>2. i # r + 1
      BY <1>1, <2>2, <3>1 DEF BindingsOf
    <3> QED BY <1>2, <3>1, <3>2, BindingsAre
  <2> QED BY <1>5, <2>1, <2>2
<1>6. Bindings(u) = (Bindings(t) \ BindingsOf(t, p)) \cup {new}
  BY <1>4, <1>5
<1> QED BY <1>6 DEF u, new

\* enter_entry with an alias that is packed, for every result of the search.
LEMMA EnterAtBinds ==
  ASSUME NEW t, GoodTable(t), NEW p \in Postfixes, NEW al \in Packable,
         NEW r \in SearchResults(t.ents, p)
  PROVE  Bindings(EnterAt(t, r, p, al)) =
           (Bindings(t) \ BindingsOf(t, p)) \cup {<<p, al>>}
<1>1. Len(t.ents) \in Nat /\ p \in Int /\ al \in AliasInputs
  BY EntryTypes, PostfixAssumption DEF AliasInputs
<1>2. CASE r < 0
  <2>1. InsertionPoint(t.ents, p, -r - 1) /\ -r - 1 \in 0..Len(t.ents)
    BY <1>1, <1>2 DEF SearchResults, InsertionPoint
  <2>2. BindingsOf(t, p) = {}
    BY <1>1, <2>1, SearchBindings DEF BindingsOf
  <2>3. Bindings(InsertNew(t, -r - 1, p, al)) = Bindings(t) \cup {<<p, al>>}
    BY <2>1, InsertNewBinds
  <2> QED BY <1>2, <2>2, <2>3 DEF EnterAt
<1>3. CASE ~(r < 0)
  <2>1. Found(t.ents, p, r)
    BY <1>1, <1>3 DEF SearchResults
  <2>2. CompressAlias(al, t.ents[r + 1].alias) = al
    BY PackedWhole
  <2> QED BY <1>1, <1>3, <2>1, <2>2, OverwriteBinds DEF EnterAt
<1> QED BY <1>2, <1>3

\* delete_entry removes the binding of its postfix.
LEMMA DeleteAtUnbinds ==
  ASSUME NEW t, GoodTable(t), NEW p \in Postfixes, NEW r, Found(t.ents, p, r)
  PROVE  Bindings(DeleteAt(t, r)) = Bindings(t) \ BindingsOf(t, p)
<1> DEFINE n == Len(t.ents)
           u == DeleteAt(t, r)
<1>1. /\ t.ents \in Seq(Entry) /\ n \in Nat /\ r \in 0..(n - 1)
      /\ t.ents[r + 1].postfix = p /\ r + 1 \in 1..n
  BY EntryTypes DEF Found
<1>2. /\ u.ents \in Seq(Entry) /\ Len(u.ents) = n - 1
      /\ \A i \in 1..r : u.ents[i] = t.ents[i]
      /\ \A i \in (r + 1)..(n - 1) : u.ents[i] = t.ents[i + 1]
  BY <1>1, DeleteAtShape
<1> HIDE DEF u
<1>3. ASSUME NEW b \in Bindings(u) PROVE b \in Bindings(t) \ BindingsOf(t, p)
  <2>1. PICK i \in 1..(n - 1) : b = <<u.ents[i].postfix, u.ents[i].alias>>
    BY <1>2, BindingsAre
  <2>2. ASSUME NEW j \in 1..n, j # r + 1, u.ents[i] = t.ents[j]
        PROVE  b \in Bindings(t) \ BindingsOf(t, p)
    <3>1. b = <<t.ents[j].postfix, t.ents[j].alias>> /\ b \in Bindings(t)
      BY <1>1, <2>1, <2>2, BindingsAre
    <3>2. t.ents[j].postfix # p
      BY <1>1, <2>2, PostfixOnce
    <3> QED BY <3>1, <3>2 DEF BindingsOf
  <2>3. CASE i \in 1..r
    <3>1. i \in 1..n /\ i # r + 1
      BY <1>1, <2>3
    <3> QED BY <1>2, <2>2, <2>3, <3>1
  <2>4. CASE i \in (r + 1)..(n - 1)
    <3>1. i + 1 \in 1..n /\ i + 1 # r + 1
      BY <1>1, <2>4
    <3> QED BY <1>2, <2>2, <2>4, <3>1
  <2> QED BY <1>1, <2>3, <2>4
<1>4. ASSUME NEW b \in Bindings(t) \ BindingsOf(t, p) PROVE b \in Bindings(u)
  <2>1. PICK i \in 1..n : b = <<t.ents[i].postfix, t.ents[i].alias>>
    BY <1>1, BindingsAre
  <2>2. i # r + 1
    BY <1>1, <1>4, <2>1 DEF BindingsOf
  <2>3. CASE i <= r
    <3>1. i \in 1..r /\ i \in 1..(n - 1)
      BY <1>1, <2>3
    <3> QED BY <1>2, <2>1, <3>1, BindingsAre
  <2>4. CASE i > r
    <3>1. i - 1 \in (r + 1)..(n - 1) /\ i - 1 \in 1..(n - 1) /\ (i - 1) + 1 = i
      BY <1>1, <2>2, <2>4
    <3> QED BY <1>2, <2>1, <3>1, BindingsAre
  <2> QED BY <1>1, <2>3, <2>4
<1>5. Bindings(u) = Bindings(t) \ BindingsOf(t, p)
  BY <1>3, <1>4
<1> QED BY <1>5 DEF u

(***************************************************************************)
(* A refused alias leaves the table its length, and of the entries but the *)
(* last every one with another postfix.                                    *)
(***************************************************************************)
LEMMA EnterAtRefused ==
  ASSUME NEW t, GoodTable(t), NEW p \in Postfixes,
         NEW al \in AliasInputs \ Packable, NEW r \in SearchResults(t.ents, p)
  PROVE  LET ents == EnterAt(t, r, p, al).ents IN
         /\ Len(ents) = Len(t.ents)
         /\ \A i \in 1..(Len(t.ents) - 1) :
              t.ents[i].postfix = p \/ t.ents[i] \in ToSet(ents)
<1> DEFINE n    == Len(t.ents)
           ents == EnterAt(t, r, p, al).ents
<1>1. t.ents \in Seq(Entry) /\ n \in Nat /\ NewLen(t, al) = n
  BY EntryTypes DEF NewLen
<1>2. ASSUME NEW s \in Seq(Entry), NEW i \in 1..Len(s) PROVE s[i] \in ToSet(s)
  BY DEF ToSet
<1>3. CASE r < 0
  <2> DEFINE k == -r - 1
  <2>1. k \in 0..n /\ ents = InsertNew(t, k, p, al).ents
    BY <1>1, <1>3 DEF SearchResults, InsertionPoint, EnterAt
  <2> HIDE DEF k
  <2>2. /\ ents \in Seq(Entry) /\ Len(ents) = n
        /\ \A i \in 1..k : ents[i] = t.ents[i]
        /\ \A i \in (k + 2)..n : ents[i] = t.ents[i - 1]
    BY <1>1, <2>1, InsertNewShape
  <2> HIDE DEF ents
  <2>3. ASSUME NEW i \in 1..(n - 1) PROVE t.ents[i] \in ToSet(ents)
    <3>1. CASE i <= k
      <4>1. i \in 1..k /\ i \in 1..n
        BY <1>1, <3>1
      <4> QED BY <1>2, <2>2, <4>1
    <3>2. CASE i > k
      <4>1. i + 1 \in (k + 2)..n /\ i + 1 \in 1..n /\ (i + 1) - 1 = i
        BY <1>1, <2>1, <3>2
      <4> QED BY <1>2, <2>2, <4>1
    <3> QED BY <2>1, <3>1, <3>2
  <2> QED BY <2>2, <2>3 DEF ents
<1>4. CASE ~(r < 0)
  <2>1. /\ r \in 0..(n - 1) /\ r + 1 \in 1..n /\ t.ents[r + 1].postfix = p
        /\ ents = Overwrite(t, r, al).ents
    BY <1>1, <1>4 DEF SearchResults, Found, EnterAt
  <2> HIDE DEF ents
  <2>2. /\ ents \in Seq(Entry) /\ Len(ents) = n
        /\ \A i \in 1..n : i # r + 1 => ents[i] = t.ents[i]
    BY <2>1, OverwriteShape
  <2>3. ASSUME NEW i \in 1..(n - 1)
        PROVE  t.ents[i].postfix = p \/ t.ents[i] \in ToSet(ents)
    <3>1. i \in 1..n
      BY <1>1
    <3> QED BY <1>2, <2>1, <2>2, <3>1
  <2> QED BY <2>2, <2>3 DEF ents
<1> QED BY <1>3, <1>4

-----------------------------------------------------------------------------
(* What two searches say of a range. *)

\* Between two keys lie exactly the entries from the one index to the other.
LEMMA RangeBetween ==
  ASSUME NEW t, GoodTable(t), NEW k1 \in Int, NEW k2 \in Int, k1 <= k2,
         NEW lo \in SearchResults(t.ents, k1), NEW hi \in SearchResults(t.ents, k2)
  PROVE  /\ RangeStart(lo) \in 0..Len(t.ents)
         /\ RangeEnd(hi) \in (-1)..(Len(t.ents) - 1)
         /\ \A i \in 1..Len(t.ents) :
              (k1 <= t.ents[i].postfix /\ t.ents[i].postfix <= k2)
                <=> (RangeStart(lo) < i /\ i <= RangeEnd(hi) + 1)
<1> DEFINE n    == Len(t.ents)
           from == RangeStart(lo)
           to   == RangeEnd(hi)
<1>1. /\ n \in Nat /\ \A i \in 1..n : t.ents[i].postfix \in Int
      /\ \A i, j \in 1..n : i < j => t.ents[i].postfix < t.ents[j].postfix
  BY EntryTypes DEF GoodTable, Ascending
<1>2. /\ from \in 0..n
      /\ \A i \in 1..n : k1 <= t.ents[i].postfix <=> from < i
  <2>1. CASE lo >= 0
    <3>1. lo \in 0..(n - 1) /\ lo + 1 \in 1..n /\ t.ents[lo + 1].postfix = k1 /\ from = lo
      BY <1>1, <2>1 DEF SearchResults, Found, RangeStart
    <3>2. ASSUME NEW i \in 1..n PROVE k1 <= t.ents[i].postfix <=> from < i
      <4>1. i < lo + 1 \/ i = lo + 1 \/ lo + 1 < i
        BY <3>1
      <4> HIDE DEF n, from
      <4> QED BY <1>1, <3>1, <4>1
    <3> QED BY <3>1, <3>2
  <2>2. CASE ~(lo >= 0)
    <3>1. from = -lo - 1 /\ InsertionPoint(t.ents, k1, -lo - 1) /\ from \in 0..n
      BY <1>1, <2>2 DEF SearchResults, InsertionPoint, RangeStart
    <3>2. /\ \A i \in 1..from : t.ents[i].postfix < k1
          /\ \A i \in (from + 1)..n : t.ents[i].postfix > k1
      BY <3>1 DEF InsertionPoint
    <3>3. ASSUME NEW i \in 1..n PROVE k1 <= t.ents[i].postfix <=> from < i
      <4> HIDE DEF n, from
      <4>1. i \in 1..from \/ i \in (from + 1)..n
        BY <1>1, <3>1
      <4> QED BY <1>1, <3>1, <3>2, <4>1
    <3> QED BY <3>1, <3>3
  <2> QED BY <2>1, <2>2
<1>3. /\ to \in (-1)..(n - 1)
      /\ \A i \in 1..n : t.ents[i].postfix <= k2 <=> i <= to + 1
  <2>1. CASE hi >= 0
    <3>1. hi \in 0..(n - 1) /\ hi + 1 \in 1..n /\ t.ents[hi + 1].postfix = k2 /\ to = hi
      BY <1>1, <2>1 DEF SearchResults, Found, RangeEnd
    <3>2. ASSUME NEW i \in 1..n PROVE t.ents[i].postfix <= k2 <=> i <= to + 1
      <4>1. i < hi + 1 \/ i = hi + 1 \/ hi + 1 < i
        BY <3>1
      <4> HIDE DEF n, to
      <4> QED BY <1>1, <3>1, <4>1
    <3> QED BY <1>1, <3>1, <3>2
  <2>2. CASE ~(hi >= 0)
    <3> DEFINE k == -hi - 1
    <3>1. to = k - 1 /\ InsertionPoint(t.ents, k2, k) /\ k \in 0..n
      BY <1>1, <2>2 DEF SearchResults, InsertionPoint, RangeEnd
    <3> HIDE DEF k
    <3>2. /\ \A i \in 1..k : t.ents[i].postfix < k2
          /\ \A i \in (k + 1)..n : t.ents[i].postfix > k2
      BY <3>1 DEF InsertionPoint
    <3>3. ASSUME NEW i \in 1..n PROVE t.ents[i].postfix <= k2 <=> i <= to + 1
      <4> HIDE DEF n, to
      <4>1. i \in 1..k \/ i \in (k + 1)..n
        BY <1>1, <3>1
      <4> QED BY <1>1, <3>1, <3>2, <4>1
    <3> QED BY <1>1, <3>1, <3>3
  <2> QED BY <2>1, <2>2
<1> HIDE DEF from, to, n
<1> QED BY <1>2, <1>3 DEF from, to, n

-----------------------------------------------------------------------------
(***************************************************************************)
(* Then the index.                                                         *)
(***************************************************************************)
TablesGood == \A s \in Slots : GoodTable(index_table[s])

IInv == TypeOK /\ TablesGood

\* A reply built by Respond is well formed.
LEMMA RespondType ==
  ASSUME NEW req \in Requests, NEW status \in {SUCCESS, FAILURE, NO_SUCH_ENTRY},
         NEW alias \in Stored, NEW table \in Table,
         Respond(req, status, alias, table)
  PROVE  reply' \in Reply
BY DEF Respond, Reply

LEMMA AnswerType ==
  ASSUME NEW req \in Requests, NEW status \in {SUCCESS, FAILURE, NO_SUCH_ENTRY},
         Answer(req, status)
  PROVE  reply' \in Reply
<1>1. EmptyAlias \in Stored /\ NullTable \in Table
  BY EmptyTableGood DEF Stored, GoodTable
<1> QED BY <1>1, RespondType DEF Answer

\* Replacing one slot's table by a good one keeps the index good.
LEMMA SlotUpdate ==
  ASSUME IInv, NEW slot \in Slots, NEW t, GoodTable(t),
         index_table' = [index_table EXCEPT ![slot] = t]
  PROVE  index_table' \in [Slots -> Table] /\ TablesGood'
BY DEF IInv, TypeOK, TablesGood, GoodTable

LEMMA InitIInv == Init => IInv
<1> SUFFICES ASSUME Init PROVE IInv
  OBVIOUS
<1>1. GoodTable(NullTable) /\ NullTable \in Table
  BY EmptyTableGood DEF GoodTable
<1>2. EmptyAlias \in Stored
  BY DEF Stored
<1>3. index_table \in [Slots -> Table] /\ TablesGood
  BY <1>1 DEF Init, TablesGood
<1>4. reply \in Reply /\ aborted \in {"none", "get_index", "get_range"}
  BY <1>1, <1>2 DEF Init, Reply
<1> QED BY <1>3, <1>4 DEF IInv, TypeOK

\* The requests get_index stops never reach a table.
LEMMA PrefixSteps ==
  ASSUME IInv, NEW req \in Requests, RefusePrefix(req) \/ AbortOnPrefix(req)
  PROVE  IInv'
<1>1. CASE RefusePrefix(req)
  <2>1. reply' \in Reply
    BY <1>1, AnswerType DEF RefusePrefix
  <2> QED BY <1>1, <2>1 DEF RefusePrefix, IInv, TypeOK, TablesGood
<1>2. CASE AbortOnPrefix(req)
  BY <1>2 DEF AbortOnPrefix, IInv, TypeOK, TablesGood
<1> QED BY <1>1, <1>2

\* What an enter request carries.
LEMMA RequestFields ==
  ASSUME NEW req \in Requests
  PROVE  req.op = "enter" => req.alias \in AliasInputs
BY DEF Requests, EnterRequest, NumberRequest, RangeRequest

LEMMA EnterStep ==
  ASSUME IInv, NEW req \in Requests, EnterEntry(req)
  PROVE  IInv'
<1> DEFINE slot == req.nbr.prefix
           p    == req.nbr.postfix
           t    == Opened(index_table[slot])
<1>1. slot \in Slots /\ req.alias \in AliasInputs /\ UNCHANGED aborted
  BY RequestFields DEF EnterEntry
<1>2. GoodTable(t) /\ ~IsNull(t)
  <2>1. GoodTable(index_table[slot])
    BY <1>1 DEF IInv, TablesGood
  <2> QED BY <2>1, EmptyTableGood DEF Opened
<1>3. CASE /\ p \in BadPostfixes
           /\ index_table' = [index_table EXCEPT ![slot] = t]
           /\ Answer(req, FAILURE)
  <2>1. reply' \in Reply
    BY <1>3, AnswerType
  <2>2. index_table' \in [Slots -> Table] /\ TablesGood'
    <3> HIDE DEF slot, t
    <3> QED BY <1>1, <1>2, <1>3, SlotUpdate
  <2> QED BY <1>1, <2>1, <2>2 DEF IInv, TypeOK
<1>4. CASE /\ p \in Postfixes
           /\ \E r \in SearchResults(t.ents, p) :
                index_table' = [index_table EXCEPT ![slot] =
                                  EnterAt(t, r, p, req.alias)]
           /\ Answer(req, EnterStatus(req.alias))
  <2>1. PICK r \in SearchResults(t.ents, p) :
          index_table' = [index_table EXCEPT ![slot] = EnterAt(t, r, p, req.alias)]
    BY <1>4
  <2>2. GoodTable(EnterAt(t, r, p, req.alias))
    <3> HIDE DEF t, p
    <3> QED BY <1>1, <1>2, <1>4, EnterAtKeeps
  <2>3. reply' \in Reply
    BY <1>4, AnswerType DEF EnterStatus
  <2>4. index_table' \in [Slots -> Table] /\ TablesGood'
    <3> HIDE DEF slot, t, p
    <3> QED BY <1>1, <2>1, <2>2, SlotUpdate
  <2> QED BY <1>1, <2>3, <2>4 DEF IInv, TypeOK
<1> QED BY <1>3, <1>4 DEF EnterEntry

LEMMA DeleteStep ==
  ASSUME IInv, NEW req \in Requests, DeleteEntry(req)
  PROVE  IInv'
<1> DEFINE slot == req.nbr.prefix
           p    == req.nbr.postfix
           t    == index_table[slot]
<1>1. slot \in Slots /\ UNCHANGED aborted
  BY DEF DeleteEntry
<1>2. reply' \in Reply
  <2>1. Answer(req, SUCCESS) \/ Answer(req, FAILURE)
    BY DEF DeleteEntry
  <2> QED BY <2>1, AnswerType
<1>3. CASE UNCHANGED index_table
  BY <1>1, <1>2, <1>3 DEF IInv, TypeOK, TablesGood
<1>4. CASE /\ ~IsNull(t) /\ p \in Postfixes
           /\ \E r \in SearchResults(t.ents, p) :
                index_table' = IF r < 0 THEN index_table
                               ELSE [index_table EXCEPT ![slot] = DeleteAt(t, r)]
  <2>1. PICK r \in SearchResults(t.ents, p) :
          index_table' = IF r < 0 THEN index_table
                         ELSE [index_table EXCEPT ![slot] = DeleteAt(t, r)]
    BY <1>4
  <2>2. CASE r < 0
    BY <1>3, <2>1, <2>2
  <2>3. CASE ~(r < 0)
    <3>1. GoodTable(t) /\ Len(t.ents) \in Nat
      BY <1>1 DEF IInv, TablesGood, GoodTable, Table
    <3>2. r \in 0..(Len(t.ents) - 1)
      <4> HIDE DEF t, p
      <4> QED BY <2>3, <3>1 DEF SearchResults, Found
    <3>3. GoodTable(DeleteAt(t, r))
      <4> HIDE DEF t
      <4> QED BY <1>4, <3>1, <3>2, DeleteAtKeeps
    <3>4. index_table' \in [Slots -> Table] /\ TablesGood'
      <4>1. index_table' = [index_table EXCEPT ![slot] = DeleteAt(t, r)]
        BY <2>1, <2>3
      <4> HIDE DEF slot, t
      <4> QED BY <1>1, <3>3, <4>1, SlotUpdate
    <3> QED BY <1>1, <1>2, <3>4 DEF IInv, TypeOK
  <2> QED BY <2>2, <2>3
<1> QED BY <1>3, <1>4 DEF DeleteEntry

LEMMA SearchStep ==
  ASSUME IInv, NEW req \in Requests, SearchEntry(req)
  PROVE  IInv'
<1> DEFINE t == index_table[req.nbr.prefix]
<1>1. UNCHANGED <<index_table, aborted>> /\ GoodTable(t)
  BY DEF SearchEntry, IInv, TablesGood
<1>2. reply' \in Reply
  <2>1. CASE Answer(req, NO_SUCH_ENTRY) \/ Answer(req, FAILURE)
    BY <2>1, AnswerType
  <2>2. CASE \E r \in SearchResults(t.ents, req.nbr.postfix) :
               /\ ~(r < 0)
               /\ Respond(req, SUCCESS, Decompress(t.ents[r + 1].alias), NullTable)
    <3>1. PICK r \in SearchResults(t.ents, req.nbr.postfix) :
               /\ ~(r < 0)
               /\ Respond(req, SUCCESS, Decompress(t.ents[r + 1].alias), NullTable)
      BY <2>2
    <3>2. t.ents \in Seq(Entry) /\ Len(t.ents) \in Nat
      BY <1>1 DEF GoodTable, Table
    <3> HIDE DEF t
    <3>3. r + 1 \in 1..Len(t.ents)
      BY <3>1, <3>2 DEF SearchResults, Found
    <3>4. t.ents[r + 1].alias \in Stored
      <4>1. t.ents[r + 1] \in Entry
        BY <3>2, <3>3, ElementOfSeq
      <4> QED BY <4>1 DEF Entry
    <3>5. Decompress(t.ents[r + 1].alias) \in Stored /\ NullTable \in Table
      BY <3>4, EmptyTableGood DEF Decompress, Stored, GoodTable
    <3> QED BY <3>1, <3>5, RespondType
  <2> QED BY <2>1, <2>2 DEF SearchEntry
<1> QED BY <1>1, <1>2 DEF IInv, TypeOK, TablesGood

\* A copied range is a table.
LEMMA CopyRangeType ==
  ASSUME NEW t, GoodTable(t), NEW from \in Int, NEW to \in Int,
         RangeAsserts(t, from, to)
  PROVE  CopyRange(t, from, to) \in Table
<1>1. CASE to - 1 <= from
  BY <1>1, EmptyTableGood DEF CopyRange, GoodTable
<1>2. CASE ~(to - 1 <= from)
  <2> DEFINE s == t.ents
  <2>1. s \in Seq(Entry) /\ Len(s) \in Nat
    BY DEF GoodTable, Table
  <2>2. /\ from \in 0..Len(s) /\ to + 1 \in from..Len(s)
        /\ to - from + 1 \in Nat
    BY <2>1 DEF RangeAsserts
  <2>3. CopyRange(t, from, to) =
          [ents |-> SubSeq(s, from + 1, to + 1), sz |-> to - from + 1]
    BY <1>2 DEF CopyRange
  <2> HIDE DEF s
  <2>4. SubSeq(s, from + 1, to + 1) \in Seq(Entry)
    BY <2>1, <2>2, SubSeqParts
  <2> QED BY <2>2, <2>3, <2>4 DEF Table
<1> QED BY <1>1, <1>2

LEMMA QuerySteps ==
  ASSUME IInv, NEW req \in Requests, GetBlock(req) \/ GetRange(req)
  PROVE  IInv'
<1> DEFINE t == index_table[req.nbr.prefix]
<1>1. /\ UNCHANGED index_table
      /\ req.nbr.prefix \in Slots => GoodTable(t) /\ t \in Table
  BY DEF GetBlock, GetRange, IInv, TablesGood, GoodTable
<1>2. EmptyAlias \in Stored
  BY DEF Stored
<1>3. reply' \in Reply /\ aborted' \in {"none", "get_index", "get_range"}
  <2>1. CASE GetBlock(req)
    <3>1. /\ Respond(req, SUCCESS, EmptyAlias, t) /\ UNCHANGED aborted
          /\ req.nbr.prefix \in Slots
      BY <2>1 DEF GetBlock
    <3> HIDE DEF t
    <3> QED BY <1>1, <1>2, <3>1, RespondType DEF IInv, TypeOK
  <2>2. CASE /\ Answer(req, SUCCESS) \/ Answer(req, FAILURE)
             /\ UNCHANGED aborted
    BY <2>2, AnswerType DEF IInv, TypeOK
  <2>3. CASE aborted' = "get_range" /\ UNCHANGED reply
    BY <2>3 DEF IInv, TypeOK
  <2>4. CASE req.nbr.prefix \in Slots /\
             \E lo \in SearchResults(t.ents, req.keys[1]),
                hi \in SearchResults(t.ents, req.keys[2]) :
               /\ RangeAsserts(t, RangeStart(lo), RangeEnd(hi))
               /\ Respond(req, SUCCESS, EmptyAlias,
                          CopyRange(t, RangeStart(lo), RangeEnd(hi)))
               /\ UNCHANGED aborted
    <3>1. PICK lo \in SearchResults(t.ents, req.keys[1]),
               hi \in SearchResults(t.ents, req.keys[2]) :
               /\ RangeAsserts(t, RangeStart(lo), RangeEnd(hi))
               /\ Respond(req, SUCCESS, EmptyAlias,
                          CopyRange(t, RangeStart(lo), RangeEnd(hi)))
               /\ UNCHANGED aborted
      BY <2>4
    <3> HIDE DEF t
    <3>2. RangeStart(lo) \in Int /\ RangeEnd(hi) \in Int
      <4>1. lo \in Int /\ hi \in Int
        BY DEF SearchResults
      <4> QED BY <4>1 DEF RangeStart, RangeEnd
    <3>3. CopyRange(t, RangeStart(lo), RangeEnd(hi)) \in Table
      BY <1>1, <2>4, <3>1, <3>2, CopyRangeType
    <3> QED BY <1>2, <3>1, <3>3, RespondType DEF IInv, TypeOK
  <2>5. CASE GetRange(req)
    BY <2>2, <2>3, <2>4, <2>5 DEF GetRange
  <2> QED BY <2>1, <2>5
<1> QED BY <1>1, <1>3 DEF IInv, TypeOK, TablesGood

LEMMA NextIInv == IInv /\ [Next]_vars => IInv'
<1> SUFFICES ASSUME IInv, [Next]_vars PROVE IInv'
  OBVIOUS
<1>1. CASE Next
  <2>1. PICK req \in Requests :
          \/ RefusePrefix(req) \/ AbortOnPrefix(req)
          \/ EnterEntry(req) \/ DeleteEntry(req) \/ SearchEntry(req)
          \/ GetBlock(req) \/ GetRange(req)
    BY <1>1 DEF Next
  <2> QED BY <2>1, PrefixSteps, EnterStep, DeleteStep, SearchStep, QuerySteps
<1>2. CASE UNCHANGED vars
  BY <1>2 DEF vars, IInv, TypeOK, TablesGood
<1> QED BY <1>1, <1>2

\* The inductive invariant holds after every sequence of requests.
THEOREM IndexInvariant == Spec => []IInv
BY InitIInv, NextIInv, PTL DEF Spec

\* Types: every slot holds a table, every reply is well formed.
THEOREM IndexTypes == Spec => []TypeOK
<1>1. IInv => TypeOK
  BY DEF IInv
<1> QED BY <1>1, IndexInvariant, PTL

(***************************************************************************)
(* No sequence of inserts, refused inserts and deletes puts a table out of *)
(* order or stores a number twice.                                         *)
(***************************************************************************)
THEOREM IndexAscending == Spec => []TablesAscending
<1>1. IInv => TablesAscending
  BY DEF IInv, TablesGood, TablesAscending, GoodTable
<1> QED BY <1>1, IndexInvariant, PTL

\* No table overruns its array or keeps more than one spare block.
THEOREM IndexCapacity == Spec => []CapacityKept
<1>1. IInv => CapacityKept
  BY DEF IInv, TablesGood, CapacityKept, GoodTable
<1> QED BY <1>1, IndexInvariant, PTL

-----------------------------------------------------------------------------
(* What a range finds. *)

Between(t, keys) ==
  {e \in ToSet(t.ents) : keys[1] <= e.postfix /\ e.postfix <= keys[2]}

\* What RangeExact asks of an answer.
Answers(ents, found) ==
  /\ Ascending(ents) /\ ToSet(ents) \in {found, {}}
  /\ Cardinality(found) > 2 => ToSet(ents) = found

LEMMA NothingAnswers ==
  ASSUME NEW ents, ents = << >>, NEW found, ~(Cardinality(found) > 2)
  PROVE  Answers(ents, found)
<1>1. Ascending(ents) /\ ToSet(ents) = {}
  BY DEF Ascending, ToSet
<1> QED BY <1>1 DEF Answers

LEMMA RangeKeyTypes ==
  ASSUME NEW keys \in RangeKeys
  PROVE  keys[1] \in Int /\ keys[2] \in Int /\ keys[1] <= keys[2]
BY KeyAssumption

\* The indices and the entries between the keys.
LEMMA RangeEntries ==
  ASSUME NEW t, GoodTable(t), NEW keys \in RangeKeys,
         NEW lo \in SearchResults(t.ents, keys[1]),
         NEW hi \in SearchResults(t.ents, keys[2])
  PROVE  /\ RangeStart(lo) \in 0..Len(t.ents)
         /\ RangeEnd(hi) \in (-1)..(Len(t.ents) - 1)
         /\ \A i \in 1..Len(t.ents) :
              t.ents[i] \in Between(t, keys)
                <=> (RangeStart(lo) < i /\ i <= RangeEnd(hi) + 1)
<1>1. t.ents \in Seq(Entry)
  BY EntryTypes
<1>2. \A i \in 1..Len(t.ents) : t.ents[i] \in ToSet(t.ents)
  BY <1>1 DEF ToSet
<1>3. /\ RangeStart(lo) \in 0..Len(t.ents)
      /\ RangeEnd(hi) \in (-1)..(Len(t.ents) - 1)
      /\ \A i \in 1..Len(t.ents) :
           (keys[1] <= t.ents[i].postfix /\ t.ents[i].postfix <= keys[2])
             <=> (RangeStart(lo) < i /\ i <= RangeEnd(hi) + 1)
  <2> DEFINE k1 == keys[1]
             k2 == keys[2]
  <2>1. k1 \in Int /\ k2 \in Int /\ k1 <= k2
    BY RangeKeyTypes
  <2>2. lo \in SearchResults(t.ents, k1) /\ hi \in SearchResults(t.ents, k2)
    OBVIOUS
  <2> HIDE DEF k1, k2
  <2>3. /\ RangeStart(lo) \in 0..Len(t.ents)
        /\ RangeEnd(hi) \in (-1)..(Len(t.ents) - 1)
        /\ \A i \in 1..Len(t.ents) :
             (k1 <= t.ents[i].postfix /\ t.ents[i].postfix <= k2)
               <=> (RangeStart(lo) < i /\ i <= RangeEnd(hi) + 1)
    BY <2>1, <2>2, RangeBetween
  <2> QED BY <2>3 DEF k1, k2
<1> QED BY <1>2, <1>3 DEF Between

\* The assertions hold exactly for the ranges with numbers.
LEMMA AssertsExact ==
  ASSUME NEW t, GoodTable(t), NEW keys \in RangeKeys,
         NEW lo \in SearchResults(t.ents, keys[1]),
         NEW hi \in SearchResults(t.ents, keys[2])
  PROVE  RangeAsserts(t, RangeStart(lo), RangeEnd(hi)) <=> Between(t, keys) # {}
<1> DEFINE from == RangeStart(lo)
           to   == RangeEnd(hi)
           n    == Len(t.ents)
<1>1. /\ n \in Nat /\ from \in 0..n /\ to \in (-1)..(n - 1)
      /\ \A i \in 1..n : t.ents[i] \in Between(t, keys) <=> (from < i /\ i <= to + 1)
  BY RangeEntries, EntryTypes
<1> HIDE DEF from, to
<1>2. ASSUME RangeAsserts(t, from, to) PROVE Between(t, keys) # {}
  <2>1. from + 1 \in 1..n /\ from < from + 1 /\ from + 1 <= to + 1
    BY <1>1, <1>2 DEF RangeAsserts
  <2> QED BY <1>1, <2>1
<1>3. ASSUME Between(t, keys) # {} PROVE RangeAsserts(t, from, to)
  <2>1. PICK i \in 1..n : t.ents[i] \in Between(t, keys)
    <3>1. PICK e \in ToSet(t.ents) : e \in Between(t, keys)
      BY <1>3 DEF Between
    <3>2. t.ents \in Seq(Entry)
      BY EntryTypes
    <3> QED BY <3>1, <3>2 DEF ToSet
  <2>2. from < i /\ i <= to + 1
    BY <1>1, <2>1
  <2> QED BY <1>1, <2>2 DEF RangeAsserts
<1> QED BY <1>2, <1>3 DEF from, to

\* The entries between the keys, counted by their places.
LEMMA BetweenCount ==
  ASSUME NEW t, GoodTable(t), NEW keys \in RangeKeys,
         NEW from \in 0..Len(t.ents), NEW c \in Nat, from + c <= Len(t.ents),
         \A i \in 1..Len(t.ents) :
           t.ents[i] \in Between(t, keys) <=> (from < i /\ i <= from + c)
  PROVE  /\ Between(t, keys) = {t.ents[from + i] : i \in 1..c}
         /\ Cardinality(Between(t, keys)) = c
<1> DEFINE n == Len(t.ents)
           f == [i \in 1..c |-> t.ents[from + i]]
<1>1. t.ents \in Seq(Entry) /\ n \in Nat
  BY EntryTypes
<1>2. \A i \in 1..c : from + i \in 1..n /\ from < from + i /\ from + i <= from + c
  BY <1>1
<1>3. \A i \in 1..c : t.ents[from + i] \in Between(t, keys)
  BY <1>2
<1>4. \A e \in Between(t, keys) : \E i \in 1..c : e = t.ents[from + i]
  <2> SUFFICES ASSUME NEW e \in Between(t, keys)
               PROVE  \E i \in 1..c : e = t.ents[from + i]
    OBVIOUS
  <2>1. PICK j \in 1..n : e = t.ents[j]
    BY <1>1 DEF Between, ToSet
  <2>2. from < j /\ j <= from + c
    BY <2>1
  <2>3. j - from \in 1..c /\ from + (j - from) = j
    BY <1>1, <2>2
  <2> QED BY <2>1, <2>3
<1>5. f \in Bijection(1..c, Between(t, keys))
  <2>1. f \in [1..c -> Between(t, keys)]
    BY <1>3
  <2>2. ASSUME NEW i \in 1..c, NEW j \in 1..c, f[i] = f[j] PROVE i = j
    <3>1. from + i = from + j
      BY <1>2, <2>2, PostfixOnce
    <3> QED BY <3>1
  <2>3. \A e \in Between(t, keys) : \E i \in 1..c : f[i] = e
    BY <1>4
  <2> HIDE DEF f
  <2>4. f \in Injection(1..c, Between(t, keys))
    BY <2>1, <2>2 DEF Injection, IsInjective
  <2>5. f \in Surjection(1..c, Between(t, keys))
    BY <2>1, <2>3 DEF Surjection
  <2> QED BY <2>4, <2>5 DEF Bijection
<1>6. Cardinality(Between(t, keys)) = c
  BY <1>5, FS_CountingElements DEF ExistsBijection
<1>7. Between(t, keys) = {t.ents[from + i] : i \in 1..c}
  BY <1>3, <1>4
<1> QED BY <1>6, <1>7

\* What is copied between the indices answers the range.
LEMMA CopyAnswers ==
  ASSUME NEW t, GoodTable(t), NEW keys \in RangeKeys,
         NEW lo \in SearchResults(t.ents, keys[1]),
         NEW hi \in SearchResults(t.ents, keys[2]),
         RangeAsserts(t, RangeStart(lo), RangeEnd(hi))
  PROVE  Answers(CopyRange(t, RangeStart(lo), RangeEnd(hi)).ents, Between(t, keys))
<1> DEFINE from  == RangeStart(lo)
           to    == RangeEnd(hi)
           n     == Len(t.ents)
           c     == to - from + 1
           found == Between(t, keys)
           ents  == CopyRange(t, from, to).ents
<1>1. /\ t.ents \in Seq(Entry) /\ n \in Nat /\ from \in 0..n /\ to \in (-1)..(n - 1)
      /\ \A i \in 1..n : t.ents[i] \in found <=> (from < i /\ i <= to + 1)
  BY RangeEntries, EntryTypes
<1> HIDE DEF from, to
<1>2. from <= to /\ c \in Nat /\ from + c <= n /\ from + c = to + 1
  BY <1>1 DEF RangeAsserts, from, to
<1>3. found = {t.ents[from + i] : i \in 1..c} /\ Cardinality(found) = c
  <2> HIDE DEF c
  <2>1. \A i \in 1..n : t.ents[i] \in found <=> (from < i /\ i <= from + c)
    BY <1>1, <1>2
  <2> QED BY <1>1, <1>2, <2>1, BetweenCount
<1>4. CASE to - 1 <= from
  <2>1. ents = << >>
    BY <1>4 DEF CopyRange, NullTable
  <2>2. ~(c > 2)
    BY <1>1, <1>4
  <2> HIDE DEF ents, found, c
  <2> QED BY <1>3, <2>1, <2>2, NothingAnswers DEF from, to, ents, found
<1>5. CASE ~(to - 1 <= from)
  <2>1. ents = SubSeq(t.ents, from + 1, to + 1)
    BY <1>5 DEF CopyRange
  <2>2. from \in 0..Len(t.ents) /\ to + 1 \in from..Len(t.ents) /\ to + 1 - from = c
    BY <1>1, <1>2
  <2>3. /\ ents \in Seq(Entry) /\ Len(ents) = c
        /\ \A i \in 1..c : ents[i] = t.ents[from + i]
    <3> DEFINE s == t.ents
               b == to + 1
    <3>1. s \in Seq(Entry) /\ from \in 0..Len(s) /\ b \in from..Len(s)
          /\ b - from = c /\ ents = SubSeq(s, from + 1, b)
      BY <1>1, <2>1, <2>2
    <3> HIDE DEF s, b, c, ents
    <3>2. /\ ents \in Seq(Entry) /\ Len(ents) = c
          /\ \A i \in 1..c : ents[i] = s[from + i]
      BY <3>1, SubSeqParts
    <3> QED BY <3>2 DEF s
  <2> HIDE DEF ents, c
  <2>4. ToSet(ents) = found
    <3>1. ToSet(ents) = {ents[i] : i \in 1..c}
      BY <2>3 DEF ToSet
    <3> QED BY <1>3, <2>3, <3>1
  <2>5. Ascending(ents)
    <3> SUFFICES ASSUME NEW i \in 1..c, NEW j \in 1..c, i < j
                 PROVE  ents[i].postfix < ents[j].postfix
      BY <2>3 DEF Ascending
    <3>1. from + i \in 1..n /\ from + j \in 1..n /\ from + i < from + j
      BY <1>1, <1>2
    <3>2. t.ents[from + i].postfix < t.ents[from + j].postfix
      BY <3>1 DEF GoodTable, Ascending
    <3> QED BY <2>3, <3>2
  <2> QED BY <2>4, <2>5 DEF Answers, ents, from, to
<1> QED BY <1>4, <1>5

\* A prefix without a table has no numbers in a range.
LEMMA NullAnswers ==
  ASSUME NEW t, GoodTable(t), IsNull(t), NEW keys
  PROVE  Answers(NullTable.ents, Between(t, keys))
<1>1. Between(t, keys) = {}
  BY DEF Between, ToSet, GoodTable, SpareBlock
<1>2. Cardinality({}) = 0
  BY FS_EmptySet
<1> QED BY <1>1, <1>2, NothingAnswers DEF NullTable

-----------------------------------------------------------------------------
(* The properties of the runs. *)

LEMMA SlotTables ==
  ASSUME IInv, NEW s \in Slots
  PROVE  GoodTable(index_table[s])
BY DEF IInv, TablesGood

\* A range that is answered is refused with nothing or answered exactly.
LEMMA RangeStep ==
  ASSUME IInv, NEW req \in Requests, GetRange(req), aborted' = "none"
  PROVE  /\ reply'.request = req /\ UNCHANGED index_table
         /\ \/ /\ req.keys \in BadLengths
               /\ reply'.status = FAILURE /\ reply'.table = NullTable
            \/ /\ req.keys \in RangeKeys /\ req.nbr.prefix \in Slots
               /\ reply'.status = SUCCESS
               /\ Answers(reply'.table.ents,
                          Between(index_table[req.nbr.prefix], req.keys))
<1> DEFINE t == index_table[req.nbr.prefix]
<1>1. UNCHANGED index_table
  BY DEF GetRange
<1>0. req.nbr.prefix \in Slots => GoodTable(t)
  BY SlotTables
<1>4. CASE req.keys \in BadLengths /\ Answer(req, FAILURE)
  BY <1>1, <1>4 DEF Answer, Respond
<1>2. CASE /\ req.keys \in RangeKeys /\ req.nbr.prefix \in Slots
           /\ IsNull(t) /\ Answer(req, SUCCESS)
  <2>1. /\ reply'.request = req /\ reply'.table = NullTable
        /\ reply'.status = SUCCESS
    BY <1>2 DEF Answer, Respond
  <2> HIDE DEF t
  <2>2. Answers(reply'.table.ents, Between(t, req.keys))
    BY <1>0, <1>2, <2>1, NullAnswers
  <2> QED BY <1>1, <1>2, <2>1, <2>2 DEF t
<1>3. CASE /\ req.keys \in RangeKeys /\ req.nbr.prefix \in Slots
           /\ \E lo \in SearchResults(t.ents, req.keys[1]),
              hi \in SearchResults(t.ents, req.keys[2]) :
             /\ RangeAsserts(t, RangeStart(lo), RangeEnd(hi))
             /\ Respond(req, SUCCESS, EmptyAlias,
                        CopyRange(t, RangeStart(lo), RangeEnd(hi)))
  <2>1. PICK lo \in SearchResults(t.ents, req.keys[1]),
             hi \in SearchResults(t.ents, req.keys[2]) :
             /\ RangeAsserts(t, RangeStart(lo), RangeEnd(hi))
             /\ Respond(req, SUCCESS, EmptyAlias,
                        CopyRange(t, RangeStart(lo), RangeEnd(hi)))
    BY <1>3
  <2> HIDE DEF t
  <2>2. /\ reply'.request = req /\ reply'.status = SUCCESS
        /\ reply'.table = CopyRange(t, RangeStart(lo), RangeEnd(hi))
    BY <2>1 DEF Respond
  <2>3. Answers(CopyRange(t, RangeStart(lo), RangeEnd(hi)).ents, Between(t, req.keys))
    BY <1>0, <1>3, <2>1, CopyAnswers
  <2> QED BY <1>1, <1>3, <2>2, <2>3 DEF t
<1> QED BY <1>2, <1>3, <1>4 DEF GetRange

LEMMA InitRangeExact == Init => RangeExact
BY DEF Init, RangeExact, RangeReply, NoRequest

LEMMA NextRangeExact == IInv /\ RangeExact /\ [Next]_vars => RangeExact'
<1> SUFFICES ASSUME IInv, RangeExact, [Next]_vars, RangeReply'
             PROVE  /\ reply'.status = FAILURE => reply'.table.ents = << >>
                    /\ reply'.status = SUCCESS =>
                         Answers(reply'.table.ents,
                                 Between(index_table'[reply'.request.nbr.prefix],
                                         reply'.request.keys))
  BY DEF RangeExact, InRange, Answers, Between
<1>0. SUCCESS # FAILURE
  BY DEF SUCCESS, FAILURE
<1>1. CASE UNCHANGED vars
  BY <1>1 DEF vars, RangeExact, RangeReply, InRange, Answers, Between
<1>2. CASE Next
  <2>1. PICK req \in Requests :
          \/ RefusePrefix(req) \/ AbortOnPrefix(req)
          \/ EnterEntry(req) \/ DeleteEntry(req) \/ SearchEntry(req)
          \/ GetBlock(req) \/ GetRange(req)
    BY <1>2 DEF Next
  <2>2. CASE GetRange(req)
    BY <1>0, <2>2, RangeStep DEF RangeReply, NullTable
  <2>3. CASE AbortOnPrefix(req)
    BY <2>3 DEF AbortOnPrefix, RangeReply
  <2>4. CASE RefusePrefix(req)
    BY <1>0, <2>4 DEF RefusePrefix, Answer, Respond, NullTable
  <2>5. CASE EnterEntry(req) \/ DeleteEntry(req) \/ SearchEntry(req) \/ GetBlock(req)
    <3>1. reply'.request = req /\ req.op # "range"
      BY <2>5 DEF EnterEntry, DeleteEntry, SearchEntry, GetBlock, Answer, Respond
    <3> QED BY <3>1 DEF RangeReply
  <2> QED BY <2>1, <2>2, <2>3, <2>4, <2>5
<1> QED BY <1>1, <1>2

(***************************************************************************)
(* A range answered with SUCCESS has, in order, the numbers between its    *)
(* keys or none, and has them if they are more than two; a refused one has *)
(* none.  For all tables and keys.                                         *)
(***************************************************************************)
THEOREM RangesExact == Spec => []RangeExact
BY IndexInvariant, InitRangeExact, NextRangeExact, PTL DEF Spec

(***************************************************************************)
(* The assertions of nlkup_get_range fail exactly for the ranges without   *)
(* numbers in a prefix that has a table.                                   *)
(***************************************************************************)
THEOREM RangeAssertsFailExactly == Spec => []RangeAssertsExact
<1>1. IInv => RangeAssertsExact
  BY SlotTables, AssertsExact DEF RangeAssertsExact, InRange, Between
<1> QED BY <1>1, IndexInvariant, PTL

\* An answered insert: its binding is there, all others are as they were.
LEMMA EnterAccepted ==
  ASSUME IInv, NEW req \in Requests, EnterEntry(req), reply'.status = SUCCESS
  PROVE  /\ reply'.request = req /\ req.op = "enter"
         /\ EnterExact(req) /\ OthersKept(req.nbr.prefix)
<1> DEFINE slot == req.nbr.prefix
           p    == req.nbr.postfix
           t    == Opened(index_table[slot])
<1>1. /\ slot \in Slots /\ req.op = "enter" /\ req.alias \in AliasInputs
      /\ GoodTable(index_table[slot])
  BY RequestFields, SlotTables DEF EnterEntry
<1>2. /\ GoodTable(t)
      /\ Bindings(t) = Bindings(index_table[slot])
      /\ BindingsOf(t, p) = BindingsOf(index_table[slot], p)
  <2>1. IsNull(index_table[slot]) => index_table[slot].ents = EmptyTable.ents
    BY <1>1 DEF GoodTable, SpareBlock, EmptyTable
  <2> QED BY <1>1, <2>1, EmptyTableGood DEF Opened, Bindings, BindingsOf
<1>3. FAILURE # SUCCESS
  BY DEF FAILURE, SUCCESS
<1>4. /\ p \in Postfixes
      /\ \E r \in SearchResults(t.ents, p) :
           index_table' = [index_table EXCEPT ![slot] = EnterAt(t, r, p, req.alias)]
      /\ Answer(req, EnterStatus(req.alias))
  BY <1>3 DEF EnterEntry, Answer, Respond
<1>5. reply'.request = req /\ req.alias \in Packable
  BY <1>3, <1>4 DEF Answer, Respond, EnterStatus
<1>6. PICK r \in SearchResults(t.ents, p) :
        index_table' = [index_table EXCEPT ![slot] = EnterAt(t, r, p, req.alias)]
  BY <1>4
<1> HIDE DEF t, p
<1>7. Bindings(EnterAt(t, r, p, req.alias)) =
        (Bindings(t) \ BindingsOf(t, p)) \cup {<<p, req.alias>>}
  BY <1>2, <1>4, <1>5, EnterAtBinds
<1>8. /\ index_table'[slot] = EnterAt(t, r, p, req.alias)
      /\ \A s \in Slots \ {slot} : index_table'[s] = index_table[s]
  <2>1. index_table \in [Slots -> Table]
    BY DEF IInv, TypeOK
  <2> HIDE DEF slot
  <2> QED BY <1>1, <1>6, <2>1
<1> QED BY <1>1, <1>2, <1>5, <1>7, <1>8 DEF EnterExact, OthersKept, p

\* An answered delete: its binding is gone, all others are as they were.
LEMMA DeleteAccepted ==
  ASSUME IInv, NEW req \in Requests, DeleteEntry(req), reply'.status = SUCCESS
  PROVE  /\ reply'.request = req /\ req.op = "delete"
         /\ DeleteExact(req) /\ OthersKept(req.nbr.prefix)
<1> DEFINE slot == req.nbr.prefix
           p    == req.nbr.postfix
           t    == index_table[slot]
<1>1. /\ slot \in Slots /\ req.op = "delete" /\ GoodTable(t) /\ reply'.request = req
  BY SlotTables DEF DeleteEntry, Answer, Respond
<1>2. FAILURE # SUCCESS
  BY DEF FAILURE, SUCCESS
<1>3. CASE IsNull(t) /\ UNCHANGED index_table
  <2>1. Bindings(t) = {}
    BY <1>1, <1>3 DEF GoodTable, SpareBlock, Bindings
  <2> QED BY <1>1, <1>3, <2>1 DEF DeleteExact, BindingsOf, OthersKept
<1>4. CASE /\ p \in Postfixes
           /\ \E r \in SearchResults(t.ents, p) :
                index_table' = IF r < 0 THEN index_table
                               ELSE [index_table EXCEPT ![slot] = DeleteAt(t, r)]
  <2>1. PICK r \in SearchResults(t.ents, p) :
          index_table' = IF r < 0 THEN index_table
                         ELSE [index_table EXCEPT ![slot] = DeleteAt(t, r)]
    BY <1>4
  <2>2. p \in Int /\ Len(t.ents) \in Nat
    BY <1>1, <1>4, PostfixAssumption, EntryTypes
  <2>3. CASE r < 0
    <3>1. InsertionPoint(t.ents, p, -r - 1)
      BY <2>2, <2>3 DEF SearchResults
    <3>2. BindingsOf(t, p) = {}
      <4> DEFINE k == -r - 1
      <4>1. InsertionPoint(t.ents, p, k)
        BY <3>1
      <4> HIDE DEF t, p, k
      <4>2. \A b \in Bindings(t) : b[1] # p
        BY <1>1, <2>2, <4>1, SearchBindings
      <4> QED BY <4>2 DEF BindingsOf
    <3>3. UNCHANGED index_table
      BY <2>1, <2>3
    <3> QED BY <1>1, <3>2, <3>3 DEF DeleteExact, OthersKept
  <2>4. CASE ~(r < 0)
    <3>1. Found(t.ents, p, r)
      BY <2>2, <2>4 DEF SearchResults
    <3>2. Bindings(DeleteAt(t, r)) = Bindings(t) \ BindingsOf(t, p)
      <4> HIDE DEF t, p
      <4> QED BY <1>1, <1>4, <3>1, DeleteAtUnbinds
    <3>3. /\ index_table'[slot] = DeleteAt(t, r)
          /\ \A s \in Slots \ {slot} : index_table'[s] = index_table[s]
      <4>1. index_table \in [Slots -> Table]
        BY DEF IInv, TypeOK
      <4>2. index_table' = [index_table EXCEPT ![slot] = DeleteAt(t, r)]
        BY <2>1, <2>4
      <4> HIDE DEF slot, t
      <4> QED BY <1>1, <4>1, <4>2
    <3> QED BY <1>1, <3>2, <3>3 DEF DeleteExact, OthersKept
  <2> QED BY <2>3, <2>4
<1> QED BY <1>2, <1>3, <1>4 DEF DeleteEntry, Answer, Respond

LEMMA AcceptedSteps == IInv /\ [Next]_vars => [AcceptedStep]_vars
<1> SUFFICES ASSUME IInv, Next, aborted' = "none", reply'.status = SUCCESS
             PROVE  AcceptedStep
  BY DEF AcceptedStep
<1>1. PICK req \in Requests :
        \/ RefusePrefix(req) \/ AbortOnPrefix(req)
        \/ EnterEntry(req) \/ DeleteEntry(req) \/ SearchEntry(req)
        \/ GetBlock(req) \/ GetRange(req)
  BY DEF Next
<1>2. CASE EnterEntry(req)
  BY <1>2, EnterAccepted DEF AcceptedStep
<1>3. CASE DeleteEntry(req)
  BY <1>3, DeleteAccepted DEF AcceptedStep
<1>4. CASE SearchEntry(req) \/ GetBlock(req) \/ GetRange(req)
  <2>1. /\ req.op \in {"search", "block", "range"} /\ UNCHANGED index_table
        /\ reply'.request = req
    BY <1>4, RangeStep DEF SearchEntry, GetBlock, GetRange, Answer, Respond
  <2> QED BY <2>1 DEF AcceptedStep
<1>5. CASE RefusePrefix(req)
  BY <1>5 DEF RefusePrefix, Answer, Respond, SUCCESS, FAILURE
<1>6. CASE AbortOnPrefix(req)
  BY <1>6 DEF AbortOnPrefix
<1> QED BY <1>1, <1>2, <1>3, <1>4, <1>5, <1>6

(***************************************************************************)
(* What is answered with SUCCESS was done to the number of the request,    *)
(* and to no other number of any prefix.                                   *)
(***************************************************************************)
THEOREM UpdatesExact == Spec => AcceptedUpdatesExact
BY IndexInvariant, AcceptedSteps, PTL DEF Spec, AcceptedUpdatesExact

\* A step that leaves the tables alone keeps within the bounds of the damage.
LEMMA KeptBounded ==
  ASSUME IInv, UNCHANGED index_table
  PROVE  RefusedStep
<1>1. ASSUME NEW s \in Slots
      PROVE  \A i \in 1..(Len(index_table[s].ents) - 1) :
               index_table[s].ents[i] \in ToSet(index_table[s].ents)
  <2> DEFINE ents == index_table[s].ents
  <2>1. ents \in Seq(Entry) /\ Len(ents) \in Nat
    BY SlotTables, EntryTypes
  <2> HIDE DEF ents
  <2>2. \A i \in 1..(Len(ents) - 1) : i \in DOMAIN ents
    BY <2>1
  <2>3. \A i \in 1..(Len(ents) - 1) : ents[i] \in ToSet(ents)
    BY <2>2 DEF ToSet
  <2> QED BY <2>3 DEF ents
<1> QED BY <1>1 DEF RefusedStep, OthersKept

LEMMA RefusedSteps == IInv /\ [Next]_vars => [RefusedStep]_vars
<1> SUFFICES ASSUME IInv, Next PROVE RefusedStep
  OBVIOUS
<1>1. PICK req \in Requests :
        \/ RefusePrefix(req) \/ AbortOnPrefix(req)
        \/ EnterEntry(req) \/ DeleteEntry(req) \/ SearchEntry(req)
        \/ GetBlock(req) \/ GetRange(req)
  BY DEF Next
<1>2. CASE UNCHANGED index_table
  BY <1>2, KeptBounded
<1>3. CASE RefusePrefix(req) \/ AbortOnPrefix(req) \/ SearchEntry(req)
           \/ GetBlock(req) \/ GetRange(req)
  BY <1>2, <1>3 DEF RefusePrefix, AbortOnPrefix, SearchEntry, GetBlock, GetRange
<1>4. CASE DeleteEntry(req)
  <2>1. reply'.request.op = "delete"
    BY <1>4 DEF DeleteEntry, Answer, Respond
  <2> QED BY <2>1 DEF RefusedStep
<1>5. CASE EnterEntry(req)
  <2> DEFINE slot == req.nbr.prefix
             p    == req.nbr.postfix
             t    == Opened(index_table[slot])
             old  == index_table[slot].ents
  <2>1. /\ slot \in Slots /\ reply'.request = req /\ req.alias \in AliasInputs
        /\ GoodTable(index_table[slot]) /\ GoodTable(t) /\ t.ents = old
    <3>1. slot \in Slots /\ reply'.request = req /\ req.alias \in AliasInputs
      BY <1>5, RequestFields DEF EnterEntry, Answer, Respond
    <3>2. GoodTable(index_table[slot])
      BY <3>1, SlotTables
    <3>3. IsNull(index_table[slot]) => old = EmptyTable.ents
      BY <3>2 DEF GoodTable, SpareBlock, EmptyTable
    <3> QED BY <3>1, <3>2, <3>3, EmptyTableGood DEF Opened
  <2>2. ASSUME NEW u,
               index_table' = [index_table EXCEPT ![slot] = u],
               Len(u.ents) = Len(old),
               \A i \in 1..(Len(old) - 1) :
                 old[i].postfix = p \/ old[i] \in ToSet(u.ents)
        PROVE  RefusedStep
    <3>1. index_table'[slot] = u /\ OthersKept(slot)
      <4>1. index_table \in [Slots -> Table]
        BY DEF IInv, TypeOK
      <4> HIDE DEF slot
      <4> QED BY <2>1, <2>2, <4>1 DEF OthersKept
    <3> QED BY <2>1, <2>2, <3>1 DEF RefusedStep
  <2>3. CASE index_table' = [index_table EXCEPT ![slot] = t]
    <3>1. old \in Seq(Entry) /\ Len(old) \in Nat
      BY <2>1, EntryTypes
    <3>2. \A i \in 1..(Len(old) - 1) : old[i] \in ToSet(old)
      <4> HIDE DEF old
      <4>1. \A i \in 1..(Len(old) - 1) : i \in DOMAIN old
        BY <3>1
      <4> QED BY <4>1 DEF ToSet
    <3> HIDE DEF t, slot, p, old
    <3> QED BY <2>1, <2>2, <2>3, <3>2
  <2>4. CASE /\ p \in Postfixes
             /\ \E r \in SearchResults(t.ents, p) :
                  index_table' = [index_table EXCEPT ![slot] = EnterAt(t, r, p, req.alias)]
             /\ Answer(req, EnterStatus(req.alias))
    <3>1. CASE req.alias \in Packable
      BY <2>4, <3>1 DEF Answer, Respond, EnterStatus, RefusedStep, SUCCESS, FAILURE
    <3>2. CASE req.alias \notin Packable
      <4>1. PICK r \in SearchResults(t.ents, p) :
              index_table' = [index_table EXCEPT ![slot] = EnterAt(t, r, p, req.alias)]
        BY <2>4
      <4> HIDE DEF t, slot, p, old
      <4> DEFINE u == EnterAt(t, r, p, req.alias)
      <4>2. /\ Len(u.ents) = Len(t.ents)
            /\ \A i \in 1..(Len(t.ents) - 1) :
                 t.ents[i].postfix = p \/ t.ents[i] \in ToSet(u.ents)
        BY <2>1, <2>4, <3>2, EnterAtRefused
      <4> HIDE DEF u
      <4> QED BY <2>1, <2>2, <4>1, <4>2 DEF u
    <3> QED BY <3>1, <3>2
  <2> QED BY <1>5, <2>3, <2>4 DEF EnterEntry
<1> QED BY <1>1, <1>3, <1>4, <1>5

(***************************************************************************)
(* A refused insert damages at most its own number and the largest one of  *)
(* its prefix.                                                             *)
(***************************************************************************)
THEOREM DamageBounded == Spec => RefusedInsertBounded
BY IndexInvariant, RefusedSteps, PTL DEF Spec, RefusedInsertBounded

-----------------------------------------------------------------------------
(***************************************************************************)
(* The index implements the directory.  A table is seen through the alias  *)
(* it has for each postfix; what the operations do to the bindings of a    *)
(* table says what they do to those.                                       *)
(***************************************************************************)

LEMMA AliasAtIs ==
  ASSUME NEW t, GoodTable(t), NEW p \in Postfixes
  PROVE  /\ \A a : <<p, a>> \in Bindings(t) =>
              AliasAt(t, p) = a /\ a \in Stored /\ a # Absent
         /\ (\A a : <<p, a>> \notin Bindings(t)) => AliasAt(t, p) = Absent
         /\ AliasAt(t, p) # Absent => <<p, AliasAt(t, p)>> \in Bindings(t)
<1> DEFINE n  == Len(t.ents)
           at == {i \in DOMAIN t.ents : t.ents[i].postfix = p}
<1>1. /\ t.ents \in Seq(Entry) /\ n \in Nat /\ DOMAIN t.ents = 1..n
      /\ \A i \in 1..n : t.ents[i].alias \in Stored
  BY EntryTypes
<1>2. AliasAt(t, p) = IF at = {} THEN Absent ELSE t.ents[CHOOSE i \in at : TRUE].alias
  BY DEF AliasAt
<1> HIDE DEF at
<1>3. ASSUME NEW a, <<p, a>> \in Bindings(t)
      PROVE  AliasAt(t, p) = a /\ a \in Stored /\ a # Absent
  <2>1. PICK i \in 1..n : <<p, a>> = <<t.ents[i].postfix, t.ents[i].alias>>
    BY <1>1, <1>3, BindingsAre
  <2>2. i \in at
    BY <1>1, <2>1 DEF at
  <2>3. at = {i}
    BY <1>1, <2>1, <2>2, PostfixOnce DEF at
  <2>4. (CHOOSE j \in at : TRUE) = i
    BY <2>3
  <2> QED BY <1>1, <1>2, <2>1, <2>2, <2>4, AbsentAssumption
<1>4. ASSUME \A a : <<p, a>> \notin Bindings(t) PROVE AliasAt(t, p) = Absent
  <2>1. at = {}
    BY <1>1, <1>4, BindingsAre DEF at
  <2> QED BY <1>2, <2>1
<1>5. ASSUME AliasAt(t, p) # Absent PROVE <<p, AliasAt(t, p)>> \in Bindings(t)
  <2>1. PICK a : <<p, a>> \in Bindings(t)
    BY <1>4, <1>5
  <2> QED BY <1>3, <2>1
<1> QED BY <1>3, <1>4, <1>5

\* Tables that say the same of a postfix have the same alias there.
LEMMA SameAlias ==
  ASSUME NEW t, GoodTable(t), NEW u, GoodTable(u), NEW q \in Postfixes,
         \A a : <<q, a>> \in Bindings(u) <=> <<q, a>> \in Bindings(t)
  PROVE  AliasAt(u, q) = AliasAt(t, q)
<1>1. CASE \E a : <<q, a>> \in Bindings(t)
  BY <1>1, AliasAtIs
<1>2. CASE \A a : <<q, a>> \notin Bindings(t)
  BY <1>2, AliasAtIs
<1> QED BY <1>1, <1>2

Rebound(t, u, p, a) ==
  Bindings(u) = (Bindings(t) \ BindingsOf(t, p)) \cup {<<p, a>>}

LEMMA RebindAlias ==
  ASSUME NEW t, GoodTable(t), NEW u, GoodTable(u), NEW p \in Postfixes, NEW a,
         Rebound(t, u, p, a)
  PROVE  /\ AliasAt(u, p) = a
         /\ \A q \in Postfixes \ {p} : AliasAt(u, q) = AliasAt(t, q)
<1>1. AliasAt(u, p) = a
  BY AliasAtIs DEF Rebound
<1>2. ASSUME NEW q \in Postfixes \ {p} PROVE AliasAt(u, q) = AliasAt(t, q)
  <2>1. \A b : <<q, b>> \in Bindings(u) <=> <<q, b>> \in Bindings(t)
    BY <1>2 DEF BindingsOf, Rebound
  <2> QED BY <2>1, SameAlias
<1> QED BY <1>1, <1>2

LEMMA UnbindAlias ==
  ASSUME NEW t, GoodTable(t), NEW u, GoodTable(u), NEW p \in Postfixes,
         Bindings(u) = Bindings(t) \ BindingsOf(t, p)
  PROVE  /\ AliasAt(u, p) = Absent
         /\ \A q \in Postfixes \ {p} : AliasAt(u, q) = AliasAt(t, q)
<1>1. AliasAt(u, p) = Absent
  <2>1. \A a : <<p, a>> \notin Bindings(u)
    BY DEF BindingsOf
  <2> QED BY <2>1, AliasAtIs
<1>2. ASSUME NEW q \in Postfixes \ {p} PROVE AliasAt(u, q) = AliasAt(t, q)
  <2>1. \A b : <<q, b>> \in Bindings(u) <=> <<q, b>> \in Bindings(t)
    BY <1>2 DEF BindingsOf
  <2> QED BY <2>1, SameAlias
<1> QED BY <1>1, <1>2

LEMMA DirIs ==
  ASSUME NEW s \in Slots, NEW p \in Postfixes
  PROVE  DirOf[<<s, p>>] = AliasAt(index_table[s], p)
BY DEF DirOf

DirWith(s, p, a) == [DirOf EXCEPT ![<<s, p>>] = a]

LEMMA SlotReplaced ==
  ASSUME IInv, NEW s \in Slots, NEW u,
         index_table' = [index_table EXCEPT ![s] = u]
  PROVE  index_table'[s] = u /\ OthersKept(s)
<1>1. index_table \in [Slots -> Table]
  BY DEF IInv, TypeOK
<1> QED BY <1>1 DEF OthersKept

\* One table replaced by one that differs at one postfix.
LEMMA DirSet ==
  ASSUME NEW s \in Slots, OthersKept(s), NEW p \in Postfixes,
         \A q \in Postfixes \ {p} :
           AliasAt(index_table'[s], q) = AliasAt(index_table[s], q)
  PROVE  DirOf' = DirWith(s, p, AliasAt(index_table'[s], p))
<1>1. \A n \in Slots \X Postfixes :
        AliasAt(index_table'[n[1]], n[2]) =
          IF n = <<s, p>> THEN AliasAt(index_table'[s], p)
                          ELSE AliasAt(index_table[n[1]], n[2])
  <2> SUFFICES ASSUME NEW x \in Slots, NEW q \in Postfixes
               PROVE  AliasAt(index_table'[x], q) =
                        IF x = s /\ q = p THEN AliasAt(index_table'[s], p)
                                          ELSE AliasAt(index_table[x], q)
    OBVIOUS
  <2> QED BY DEF OthersKept
<1>2. DirOf' = [n \in Slots \X Postfixes |-> AliasAt(index_table'[n[1]], n[2])]
  BY DEF DirOf
<1> QED BY <1>1, <1>2 DEF DirOf, DirWith

\* The same alias everywhere is the same directory.
LEMMA DirSame ==
  ASSUME NEW s \in Slots, OthersKept(s),
         \A q \in Postfixes : AliasAt(index_table'[s], q) = AliasAt(index_table[s], q)
  PROVE  DirOf' = DirOf
<1>1. \A x \in Slots, q \in Postfixes :
        AliasAt(index_table'[x], q) = AliasAt(index_table[x], q)
  BY DEF OthersKept
<1>2. DirOf' = [n \in Slots \X Postfixes |-> AliasAt(index_table'[n[1]], n[2])]
  BY DEF DirOf
<1> QED BY <1>1, <1>2 DEF DirOf

\* A request that does not stop the server.
Lives(req) ==
  aborted = "none" /\ aborted' = "none" /\ Directory!Survives(DirOf, req)

LEMMA OtherLives ==
  ASSUME NEW req \in Requests, aborted = "none", UNCHANGED aborted,
         req.op # "range" \/ req.keys \in BadLengths \/ req.nbr.prefix \in IllegalPrefixes,
         (req.op = "range" /\ req.keys \in BadLengths) \/ req.nbr.prefix \notin LowPrefixes
  PROVE  Lives(req)
BY PrefixAssumption
   DEF Lives, Directory!Survives, Directory!OutOfIndex, Directory!EmptyRange,
       Directory!Asked

\* A step of the directory that stops the server.
LEMMA StopStep ==
  ASSUME NEW req \in Requests, Directory!Stops(DirOf, req), aborted = "none",
         aborted' # "none", UNCHANGED <<index_table, reply>>
  PROVE  Directory!Next
<1>1. DirOf' = DirOf
  BY DEF DirOf
<1> QED BY <1>1 DEF Directory!Next, Directory!Stop

\* A step of the directory, from one of its outcomes.
LEMMA ServeStep ==
  ASSUME NEW req \in Requests, Lives(req), NEW d, NEW status, NEW found,
         Directory!Outcome(d, status, found) \in Directory!Outcomes(DirOf, req),
         reply'.request = req, StatusOf(reply'.status) = status,
         FoundIn(reply') = found, DirOf' = d
  PROVE  Directory!Next
<1>1. Directory!Serve(req)
  <2> DEFINE out == Directory!Outcome(d, status, found)
  <2>1. out.status = status /\ out.found = found /\ out.dir = d
    BY DEF Directory!Outcome
  <2>2. out \in Directory!Outcomes(DirOf, req)
    OBVIOUS
  <2> HIDE DEF out
  <2> QED BY <2>1, <2>2 DEF Directory!Serve, Lives
<1> QED BY <1>1 DEF Directory!Next, Lives

LEMMA Statuses ==
  /\ StatusOf(SUCCESS) = "ok" /\ StatusOf(FAILURE) = "refused"
  /\ StatusOf(NO_SUCH_ENTRY) = "absent"
BY DEF StatusOf, SUCCESS, FAILURE, NO_SUCH_ENTRY

\* A request answered with its status alone has found nothing.
LEMMA AnswerFinds ==
  ASSUME NEW req \in Requests, NEW status, Answer(req, status),
         req.op = "search" => status # SUCCESS
  PROVE  reply'.request = req /\ reply'.status = status /\ FoundIn(reply') = {}
BY DEF Answer, Respond, FoundIn, Bindings, NullTable

\* A refusal is an outcome of every request that is not for a number.
LEMMA RefusalOutcome ==
  ASSUME NEW req \in Requests, NEW d,
         \/ req.nbr.prefix \notin Slots
         \/ req.op = "range" /\ req.keys \in BadLengths
         \/ /\ req.op \in {"enter", "delete", "search"}
            /\ req.nbr.postfix \notin Postfixes
  PROVE  Directory!Outcome(d, "refused", {}) \in Directory!Outcomes(d, req)
<1>1. req.op \in {"enter", "delete", "search", "block", "range"}
  BY DEF Requests, EnterRequest, NumberRequest, RangeRequest
<1>2. req.op \in {"enter", "delete", "search"} =>
        Directory!NumberOf(req) \notin Directory!Numbers
  BY DEF Directory!NumberOf, Directory!Numbers
<1>3. CASE req.op = "enter"
  BY <1>2, <1>3 DEF Directory!Outcomes, Directory!Enter, Directory!Refusal
<1>4. CASE req.op = "delete"
  BY <1>2, <1>4 DEF Directory!Outcomes, Directory!Delete, Directory!Refusal
<1>5. CASE req.op = "search"
  BY <1>2, <1>5 DEF Directory!Outcomes, Directory!Lookup, Directory!Refusal
<1>6. CASE req.op = "block"
  BY <1>6 DEF Directory!Outcomes, Directory!Block, Directory!Refusal
<1>7. CASE req.op = "range"
  BY <1>7 DEF Directory!Outcomes, Directory!Range, Directory!Refusal
<1> QED BY <1>1, <1>3, <1>4, <1>5, <1>6, <1>7

\* Requests with a prefix that has no slot.
LEMMA PrefixRefines ==
  ASSUME IInv, aborted = "none", NEW req \in Requests,
         RefusePrefix(req) \/ AbortOnPrefix(req)
  PROVE  Directory!Next
<1>1. CASE RefusePrefix(req)
  <2>0. Lives(req)
    BY <1>1, PrefixAssumption, OtherLives DEF RefusePrefix
  <2>1. /\ req.nbr.prefix \notin Slots /\ UNCHANGED index_table
        /\ Answer(req, FAILURE)
    BY <1>1, PrefixAssumption DEF RefusePrefix
  <2>2. DirOf' = DirOf
    BY <2>1 DEF DirOf
  <2>3. reply'.request = req /\ reply'.status = FAILURE /\ FoundIn(reply') = {}
    BY <2>1, AnswerFinds DEF SUCCESS, FAILURE
  <2> QED BY <2>0, <2>1, <2>2, <2>3, Statuses, RefusalOutcome, ServeStep
<1>2. CASE AbortOnPrefix(req)
  <2>1. Directory!Stops(DirOf, req)
    BY <1>2, KeyAssumption DEF AbortOnPrefix, LengthAccepted, Directory!Stops,
                              Directory!OutOfIndex, Directory!Asked
  <2> QED BY <1>2, <2>1, StopStep DEF AbortOnPrefix
<1> QED BY <1>1, <1>2

LEMMA DeleteRefines ==
  ASSUME IInv, NEW req \in Requests, Lives(req), DeleteEntry(req)
  PROVE  Directory!Next
<1> DEFINE s == req.nbr.prefix
           p == req.nbr.postfix
           t == index_table[s]
<1>1. s \in Slots /\ req.op = "delete" /\ GoodTable(t)
  BY SlotTables DEF DeleteEntry
<1>2. CASE Answer(req, FAILURE) /\ p \in BadPostfixes /\ UNCHANGED index_table
  <2>1. p \notin Postfixes
    BY <1>2, KeyAssumption, PostfixAssumption
  <2>2. DirOf' = DirOf
    BY <1>2 DEF DirOf
  <2>3. reply'.request = req /\ reply'.status = FAILURE /\ FoundIn(reply') = {}
    BY <1>1, <1>2, AnswerFinds
  <2> QED BY <1>1, <2>1, <2>2, <2>3, Statuses, RefusalOutcome, ServeStep
<1>3. CASE /\ Answer(req, SUCCESS)
           /\ p \in Postfixes => DirOf' = [DirOf EXCEPT ![<<s, p>>] = Absent]
           /\ p \notin Postfixes => DirOf' = DirOf
  <2>1. reply'.request = req /\ reply'.status = SUCCESS /\ FoundIn(reply') = {}
    BY <1>1, <1>3, AnswerFinds
  <2>2. Directory!Outcome(DirOf', "ok", {}) \in Directory!Outcomes(DirOf, req)
    <3>1. Directory!NumberOf(req) = <<s, p>>
      BY DEF Directory!NumberOf
    <3>2. <<s, p>> \in Directory!Numbers <=> p \in Postfixes
      BY <1>1 DEF Directory!Numbers
    <3>3. Directory!Outcomes(DirOf, req) = Directory!Delete(DirOf, req)
      BY <1>1 DEF Directory!Outcomes
    <3> HIDE DEF s, p
    <3> QED BY <1>3, <3>1, <3>2, <3>3 DEF Directory!Delete
  <2> QED BY <2>1, <2>2, Statuses, ServeStep
<1>4. ASSUME UNCHANGED index_table, p \in Postfixes, AliasAt(t, p) = Absent
      PROVE  DirOf' = [DirOf EXCEPT ![<<s, p>>] = Absent]
  <2>1. DirOf' = DirOf
    BY <1>4 DEF DirOf
  <2>2. DirOf[<<s, p>>] = Absent
    BY <1>1, <1>4, DirIs
  <2> QED BY <1>1, <1>4, <2>1, <2>2 DEF DirOf
<1>5. CASE IsNull(t) /\ Answer(req, SUCCESS) /\ UNCHANGED index_table
  <2>1. p \in Postfixes => AliasAt(t, p) = Absent
    <3>1. Bindings(t) = {}
      BY <1>1, <1>5 DEF GoodTable, SpareBlock, Bindings
    <3> HIDE DEF t, p
    <3> QED BY <1>1, <3>1, AliasAtIs
  <2>2. DirOf' = DirOf
    BY <1>5 DEF DirOf
  <2> QED BY <1>3, <1>4, <1>5, <2>1, <2>2
<1>6. CASE /\ p \in Postfixes /\ Answer(req, SUCCESS) /\ ~IsNull(t)
           /\ \E r \in SearchResults(t.ents, p) :
                index_table' = IF r < 0 THEN index_table
                               ELSE [index_table EXCEPT ![s] = DeleteAt(t, r)]
  <2>1. PICK r \in SearchResults(t.ents, p) :
          index_table' = IF r < 0 THEN index_table
                         ELSE [index_table EXCEPT ![s] = DeleteAt(t, r)]
    BY <1>6
  <2>2. p \in Int /\ Len(t.ents) \in Nat
    BY <1>1, <1>6, PostfixAssumption, EntryTypes
  <2>3. CASE r < 0
    <3>1. AliasAt(t, p) = Absent
      <4> DEFINE k == -r - 1
      <4>1. InsertionPoint(t.ents, p, k)
        BY <2>2, <2>3 DEF SearchResults
      <4> HIDE DEF t, p, k
      <4>2. \A b \in Bindings(t) : b[1] # p
        BY <1>1, <2>2, <4>1, SearchBindings
      <4> QED BY <1>1, <1>6, <4>2, AliasAtIs
    <3>2. UNCHANGED index_table
      BY <2>1, <2>3
    <3> QED BY <1>3, <1>4, <1>6, <3>1, <3>2
  <2>4. CASE ~(r < 0)
    <3> DEFINE u == DeleteAt(t, r)
    <3>1. Found(t.ents, p, r) /\ r \in 0..(Len(t.ents) - 1)
      BY <2>2, <2>4 DEF SearchResults, Found
    <3>2. GoodTable(u) /\ Bindings(u) = Bindings(t) \ BindingsOf(t, p)
      <4> HIDE DEF t, p
      <4> QED BY <1>1, <1>6, <3>1, DeleteAtKeeps, DeleteAtUnbinds
    <3>3. /\ AliasAt(u, p) = Absent
          /\ \A q \in Postfixes \ {p} : AliasAt(u, q) = AliasAt(t, q)
      <4> HIDE DEF t, p, u
      <4> QED BY <1>1, <1>6, <3>2, UnbindAlias
    <3>4. index_table' = [index_table EXCEPT ![s] = u]
      BY <2>1, <2>4
    <3>5. DirOf' = [DirOf EXCEPT ![<<s, p>>] = Absent]
      <4>1. index_table'[s] = u /\ OthersKept(s)
        <5> HIDE DEF s, u
        <5> QED BY <1>1, <3>4, SlotReplaced
      <4>2. DirOf' = DirWith(s, p, AliasAt(index_table'[s], p))
        <5>1. \A q \in Postfixes \ {p} :
                AliasAt(index_table'[s], q) = AliasAt(index_table[s], q)
          BY <3>3, <4>1
        <5> HIDE DEF s, p
        <5> QED BY <1>1, <1>6, <4>1, <5>1, DirSet
      <4> QED BY <3>3, <4>1, <4>2 DEF DirWith
    <3> QED BY <1>3, <1>6, <3>5
  <2> QED BY <2>3, <2>4
<1> QED BY <1>2, <1>5, <1>6 DEF DeleteEntry

LEMMA SearchRefines ==
  ASSUME IInv, NEW req \in Requests, Lives(req), SearchEntry(req)
  PROVE  Directory!Next
<1> DEFINE s == req.nbr.prefix
           p == req.nbr.postfix
           t == index_table[s]
           d == DirOf
<1>1. s \in Slots /\ req.op = "search" /\ GoodTable(t) /\ DirOf' = DirOf
  BY SlotTables DEF SearchEntry, DirOf
<1>2. /\ Directory!NumberOf(req) = <<s, p>>
      /\ Directory!Outcomes(DirOf, req) = Directory!Lookup(DirOf, req)
      /\ <<s, p>> \in Directory!Numbers <=> p \in Postfixes
  BY <1>1 DEF Directory!NumberOf, Directory!Outcomes, Directory!Numbers
<1>3. SUCCESS # FAILURE /\ SUCCESS # NO_SUCH_ENTRY
  BY DEF SUCCESS, FAILURE, NO_SUCH_ENTRY
<1>4. CASE p \in BadPostfixes /\ Answer(req, FAILURE)
  <2>1. p \notin Postfixes
    BY <1>4, KeyAssumption, PostfixAssumption
  <2>2. reply'.request = req /\ reply'.status = FAILURE /\ FoundIn(reply') = {}
    BY <1>3, <1>4, AnswerFinds
  <2> QED BY <1>1, <2>1, <2>2, Statuses, RefusalOutcome, ServeStep
<1>5. CASE /\ Answer(req, NO_SUCH_ENTRY)
           /\ p \in Postfixes => AliasAt(t, p) = Absent
  <2>1. reply'.request = req /\ reply'.status = NO_SUCH_ENTRY /\ FoundIn(reply') = {}
    BY <1>3, <1>5, AnswerFinds
  <2>2. p \in Postfixes => DirOf[<<s, p>>] = Absent
    BY <1>1, <1>5, DirIs
  <2>3. Directory!Outcome(DirOf, "absent", {}) \in Directory!Outcomes(DirOf, req)
    <3> HIDE DEF s, p
    <3> QED BY <1>2, <2>2 DEF Directory!Lookup
  <2> QED BY <1>1, <2>1, <2>3, Statuses, ServeStep
<1>6. CASE IsNull(t) /\ Answer(req, NO_SUCH_ENTRY)
  <2>1. Bindings(t) = {}
    BY <1>1, <1>6 DEF GoodTable, SpareBlock, Bindings
  <2>2. p \in Postfixes => AliasAt(t, p) = Absent
    <3> HIDE DEF t, p
    <3> QED BY <1>1, <2>1, AliasAtIs
  <2> QED BY <1>5, <1>6, <2>2
<1>7. CASE /\ p \in Postfixes
           /\ \E r \in SearchResults(t.ents, p) :
                 IF r < 0
                 THEN Answer(req, NO_SUCH_ENTRY)
                 ELSE Respond(req, SUCCESS, Decompress(t.ents[r + 1].alias),
                              NullTable)
  <2>1. PICK r \in SearchResults(t.ents, p) :
                 IF r < 0
                 THEN Answer(req, NO_SUCH_ENTRY)
                 ELSE Respond(req, SUCCESS, Decompress(t.ents[r + 1].alias),
                              NullTable)
    BY <1>7
  <2>2. p \in Int /\ Len(t.ents) \in Nat
    BY <1>1, <1>7, PostfixAssumption, EntryTypes
  <2>3. CASE r < 0
    <3>1. AliasAt(t, p) = Absent
      <4> DEFINE k == -r - 1
      <4>1. InsertionPoint(t.ents, p, k)
        BY <2>2, <2>3 DEF SearchResults
      <4> HIDE DEF t, p, k
      <4>2. \A b \in Bindings(t) : b[1] # p
        BY <1>1, <2>2, <4>1, SearchBindings
      <4> QED BY <1>1, <1>7, <4>2, AliasAtIs
    <3> QED BY <1>5, <2>1, <2>3, <3>1
  <2>4. CASE ~(r < 0)
    <3> DEFINE a == t.ents[r + 1].alias
               b == Decompress(a)
    <3>1. Found(t.ents, p, r)
      BY <2>2, <2>4 DEF SearchResults
    <3>2. AliasAt(t, p) = a /\ a # Absent
      <4>1. <<p, a>> \in Bindings(t)
        <5> HIDE DEF t, p
        <5> QED BY <1>1, <2>2, <3>1, SearchBindings
      <4> HIDE DEF t, p, a
      <4> QED BY <1>1, <1>7, <4>1, AliasAtIs
    <3>3. b = Directory!Readable(a)
      BY DEF Decompress, Directory!Readable
    <3>4. /\ reply'.request = req /\ reply'.status = SUCCESS /\ FoundIn(reply') = {b}
      BY <1>1, <2>1, <2>4 DEF Respond, FoundIn
    <3>5. DirOf[<<s, p>>] = a
      BY <1>1, <1>7, <3>2, DirIs
    <3>6. Directory!Outcome(DirOf, "ok", {b}) \in Directory!Outcomes(DirOf, req)
      <4> HIDE DEF s, p, a, b
      <4> QED BY <1>2, <1>7, <3>2, <3>3, <3>5 DEF Directory!Lookup
    <3> HIDE DEF a, b
    <3> QED BY <1>1, <3>4, <3>6, Statuses, ServeStep
  <2> QED BY <2>3, <2>4
<1> QED BY <1>4, <1>6, <1>7 DEF SearchEntry

\* The directory's entries of a block are the bindings of its table.
LEMMA EntriesAre ==
  ASSUME IInv, NEW s \in Slots, NEW wanted \in SUBSET Postfixes
  PROVE  Directory!EntriesOf(DirOf, s, wanted) =
           {b \in Bindings(index_table[s]) : b[1] \in wanted}
<1> DEFINE t == index_table[s]
           E == Directory!EntriesOf(DirOf, s, wanted)
<1>1. GoodTable(t)
  BY SlotTables
<1>2. \A p \in Postfixes : DirOf[<<s, p>>] = AliasAt(t, p)
  BY DirIs
<1>3. \A x : x \in E <=> \E p \in wanted : AliasAt(t, p) # Absent /\ x = <<p, AliasAt(t, p)>>
  <2> HIDE DEF t
  <2> QED BY <1>2 DEF Directory!EntriesOf
<1> HIDE DEF t, E
<1>4. ASSUME NEW x \in E PROVE x \in Bindings(t) /\ x[1] \in wanted
  <2>1. PICK p \in wanted : AliasAt(t, p) # Absent /\ x = <<p, AliasAt(t, p)>>
    BY <1>3
  <2> QED BY <1>1, <2>1, AliasAtIs
<1>5. ASSUME NEW b \in Bindings(t), b[1] \in wanted PROVE b \in E
  <2>1. PICK j \in 1..Len(t.ents) : b = <<t.ents[j].postfix, t.ents[j].alias>>
    BY <1>1, EntryTypes, BindingsAre
  <2>2. b = <<b[1], t.ents[j].alias>>
    BY <2>1
  <2>3. AliasAt(t, b[1]) = t.ents[j].alias /\ AliasAt(t, b[1]) # Absent
    BY <1>1, <1>5, <2>2, AliasAtIs
  <2> QED BY <1>3, <1>5, <2>2, <2>3
<1> QED BY <1>4, <1>5 DEF t, E

LEMMA BlockRefines ==
  ASSUME IInv, NEW req \in Requests, Lives(req), GetBlock(req)
  PROVE  Directory!Next
<1> DEFINE s == req.nbr.prefix
           t == index_table[s]
<1>1. s \in Slots /\ req.op = "block" /\ DirOf' = DirOf /\ GoodTable(t)
  BY SlotTables DEF GetBlock, DirOf
<1>2. reply'.request = req /\ reply'.status = SUCCESS /\ FoundIn(reply') = Bindings(t)
  BY <1>1 DEF GetBlock, Respond, FoundIn
<1>3. \A b \in Bindings(t) : b[1] \in Postfixes
  <2> HIDE DEF t
  <2> QED BY <1>1, EntryTypes, BindingsAre
<1>4. Directory!EntriesOf(DirOf, s, Postfixes) = Bindings(t)
  BY <1>1, <1>3, EntriesAre
<1>5. Directory!Outcome(DirOf, "ok", Bindings(t)) \in Directory!Outcomes(DirOf, req)
  <2>1. Directory!Outcomes(DirOf, req) = Directory!Block(DirOf, req)
    BY <1>1 DEF Directory!Outcomes
  <2> HIDE DEF t
  <2> QED BY <1>1, <1>4, <2>1 DEF Directory!Block
<1> QED BY <1>1, <1>2, <1>5, Statuses, ServeStep

\* The directory's range and the entries between the keys in the table.
LEMMA RangeEntriesAre ==
  ASSUME IInv, NEW req \in Requests, req.nbr.prefix \in Slots
  PROVE  Directory!EntriesOf(DirOf, req.nbr.prefix, Directory!Between(req)) =
           {<<e.postfix, e.alias>> : e \in Between(index_table[req.nbr.prefix], req.keys)}
<1> DEFINE s     == req.nbr.prefix
           t     == index_table[s]
           keys  == Directory!Between(req)
           found == {b \in Bindings(t) : b[1] \in keys}
<1>1. GoodTable(t) /\ t.ents \in Seq(Entry)
  BY SlotTables, EntryTypes
<1>2. \A q \in Postfixes : q \in keys <=> req.keys[1] <= q /\ q <= req.keys[2]
  BY DEF Directory!Between
<1>3. keys \in SUBSET Postfixes
  BY DEF Directory!Between
<1>4. ASSUME NEW b \in found
      PROVE  \E e \in Between(t, req.keys) : b = <<e.postfix, e.alias>>
  <2>1. PICK j \in 1..Len(t.ents) : b = <<t.ents[j].postfix, t.ents[j].alias>>
    BY <1>1, <1>4, EntryTypes, BindingsAre
  <2>2. t.ents[j] \in ToSet(t.ents) /\ t.ents[j].postfix \in keys
    <3> HIDE DEF t, keys
    <3> QED BY <1>1, <1>4, <2>1 DEF ToSet
  <2>3. t.ents[j] \in Between(t, req.keys)
    <3> HIDE DEF t, keys
    <3> QED BY <1>2, <1>3, <2>2 DEF Between
  <2> QED BY <2>1, <2>3
<1>5. ASSUME NEW e \in Between(t, req.keys)
      PROVE  <<e.postfix, e.alias>> \in found
  <2>1. PICK j \in 1..Len(t.ents) : e = t.ents[j]
    BY <1>1 DEF Between, ToSet
  <2>2. e.postfix \in Postfixes
    <3> HIDE DEF t
    <3> QED BY <1>1, <2>1, EntryTypes
  <2>3. <<e.postfix, e.alias>> \in Bindings(t)
    <3> HIDE DEF t
    <3> QED BY <1>1, <2>1, BindingsAre
  <2>4. e.postfix \in keys
    <3> HIDE DEF t, keys
    <3> QED BY <1>2, <2>2 DEF Between
  <2> QED BY <2>3, <2>4
<1>6. Directory!EntriesOf(DirOf, s, keys) = found
  <2> HIDE DEF keys
  <2> QED BY <1>3, EntriesAre
<1>7. found = {<<e.postfix, e.alias>> : e \in Between(t, req.keys)}
  <2> HIDE DEF found
  <2> QED BY <1>4, <1>5
<1> QED BY <1>6, <1>7

\* A range with numbers finds a table that is not NULL.
LEMMA RangeOfNull ==
  ASSUME IInv, NEW req \in Requests, req.nbr.prefix \in Slots,
         IsNull(index_table[req.nbr.prefix])
  PROVE  Directory!EntriesOf(DirOf, req.nbr.prefix, Postfixes) = {}
<1> DEFINE t == index_table[req.nbr.prefix]
<1>1. Bindings(t) = {}
  BY SlotTables DEF GoodTable, SpareBlock, Bindings
<1> HIDE DEF t
<1>2. {b \in Bindings(t) : b[1] \in Postfixes} = {}
  BY <1>1
<1> QED BY <1>2, EntriesAre DEF t

LEMMA RangeRefines ==
  ASSUME IInv, aborted = "none", NEW req \in Requests, GetRange(req)
  PROVE  Directory!Next
<1> DEFINE s     == req.nbr.prefix
           t     == index_table[s]
           here  == Between(t, req.keys)
           found == Directory!EntriesOf(DirOf, s, Directory!Between(req))
<1>1. req.op = "range" /\ DirOf' = DirOf /\ UNCHANGED index_table
  BY DEF GetRange, DirOf
<1>2. s \in Slots => GoodTable(t)
  BY SlotTables
<1>3. s \in Slots => found = {<<e.postfix, e.alias>> : e \in here}
  BY RangeEntriesAre
<1>4. CASE aborted' # "none"
  <2>1. /\ req.keys \in RangeKeys /\ s \in Slots /\ UNCHANGED reply
        /\ \E lo \in SearchResults(t.ents, req.keys[1]),
              hi \in SearchResults(t.ents, req.keys[2]) :
             ~RangeAsserts(t, RangeStart(lo), RangeEnd(hi))
    BY <1>4 DEF GetRange
  <2>2. here = {}
    <3> HIDE DEF t
    <3> QED BY <1>2, <2>1, AssertsExact
  <2>3. found = {}
    BY <1>3, <2>1, <2>2
  <2>4. Directory!Stops(DirOf, req)
    <3> HIDE DEF found
    <3> QED BY <1>1, <2>1, <2>3, KeyAssumption
            DEF Directory!Stops, Directory!EmptyRange, Directory!Asked, found
  <2> QED BY <1>1, <1>4, <2>1, <2>4, StopStep
<1>5. CASE aborted' = "none" /\ req.keys \in BadLengths
  <2>1. req.keys \notin RangeKeys
    BY <1>5, KeyAssumption
  <2>2. Answer(req, FAILURE)
    BY <2>1 DEF GetRange
  <2>3. reply'.request = req /\ reply'.status = FAILURE /\ FoundIn(reply') = {}
    BY <1>1, <2>2, AnswerFinds
  <2>4. Lives(req)
    BY <1>1, <1>5, OtherLives
  <2> QED BY <1>1, <1>5, <2>3, <2>4, Statuses, RefusalOutcome, ServeStep
<1>6. CASE aborted' = "none" /\ req.keys \notin BadLengths
  <2>1. /\ reply'.request = req /\ req.keys \in RangeKeys /\ s \in Slots
        /\ reply'.status = SUCCESS /\ Answers(reply'.table.ents, here)
    BY <1>6, RangeStep
  <2>2. FoundIn(reply') = Bindings(reply'.table)
    BY <1>1, <2>1 DEF FoundIn
  <2>3. Bindings(reply'.table) = {<<e.postfix, e.alias>> : e \in ToSet(reply'.table.ents)}
    BY DEF Bindings, ToSet
  <2>4. ToSet(reply'.table.ents) \in {here, {}}
    BY <2>1 DEF Answers
  <2>5. FoundIn(reply') \in {found, {}}
    BY <1>3, <2>1, <2>2, <2>3, <2>4
  <2>6. \A f \in {found, {}} :
          Directory!Outcome(DirOf, "ok", f) \in Directory!Outcomes(DirOf, req)
    <3>1. Directory!Outcomes(DirOf, req) = Directory!Range(DirOf, req)
      BY <1>1 DEF Directory!Outcomes
    <3>2. Directory!Range(DirOf, req) =
            {Directory!Outcome(DirOf, "ok", found), Directory!Outcome(DirOf, "ok", {})}
      BY <1>6, <2>1 DEF Directory!Range
    <3> HIDE DEF found
    <3> QED BY <3>1, <3>2
  <2>7. Lives(req)
    <3>1. ~Directory!OutOfIndex(req)
      BY <2>1, PrefixAssumption DEF Directory!OutOfIndex
    <3>2. found = {} => Directory!EntriesOf(DirOf, s, Postfixes) = {}
      <4>1. CASE IsNull(t)
        BY <2>1, <4>1, RangeOfNull
      <4>2. CASE ~IsNull(t)
        <5>1. \E lo \in SearchResults(t.ents, req.keys[1]),
                 hi \in SearchResults(t.ents, req.keys[2]) :
                RangeAsserts(t, RangeStart(lo), RangeEnd(hi))
          BY <1>6, <4>2 DEF GetRange
        <5>2. here # {}
          <6> HIDE DEF t
          <6> QED BY <1>2, <2>1, <5>1, AssertsExact
        <5> HIDE DEF here
        <5> QED BY <1>3, <2>1, <5>2
      <4> QED BY <4>1, <4>2
    <3> HIDE DEF found
    <3> QED BY <1>6, <3>1, <3>2
            DEF Lives, Directory!Survives, Directory!EmptyRange, found
  <2> HIDE DEF found
  <2> QED BY <1>1, <2>1, <2>5, <2>6, <2>7, Statuses, ServeStep
<1> QED BY <1>4, <1>5, <1>6

\* What a refused alias leaves when the new number is not above all others.
Wrecked(t, u, p, w, k, last) ==
  /\ InsertionPoint(t.ents, p, k) /\ k < Len(t.ents)
  /\ last = t.ents[Len(t.ents)].postfix
  /\ Bindings(u) = (Bindings(t) \ {<<last, t.ents[Len(t.ents)].alias>>})
                     \cup {<<p, w>>}

LEMMA WreckAliases ==
  ASSUME NEW t, GoodTable(t), NEW u, GoodTable(u), NEW p \in Postfixes, NEW w,
         NEW k, NEW last, Wrecked(t, u, p, w, k, last)
  PROVE  /\ last \in Postfixes /\ p < last
         /\ AliasAt(t, p) = Absent /\ AliasAt(t, last) # Absent
         /\ \A q \in Postfixes : q > last => AliasAt(t, q) = Absent
         /\ AliasAt(u, p) = w /\ AliasAt(u, last) = Absent
         /\ \A q \in Postfixes \ {p, last} : AliasAt(u, q) = AliasAt(t, q)
<1> DEFINE n == Len(t.ents)
           a == t.ents[n].alias
<1>1. /\ t.ents \in Seq(Entry) /\ n \in Nat /\ k \in 0..n /\ p \in Int
      /\ n \in 1..n /\ k + 1 \in 1..n /\ n \in (k + 1)..n
      /\ \A i \in 1..n : t.ents[i].postfix \in Postfixes /\ t.ents[i].postfix \in Int
  BY EntryTypes, PostfixAssumption DEF InsertionPoint, Wrecked
<1>0. /\ last = t.ents[n].postfix
      /\ Bindings(u) = (Bindings(t) \ {<<last, a>>}) \cup {<<p, w>>}
  BY DEF Wrecked
<1>2. last \in Postfixes /\ last \in Int /\ p < last
  BY <1>0, <1>1 DEF InsertionPoint, Wrecked
<1>3. \A b \in Bindings(t) : b[1] # p
  BY <1>1, SearchBindings DEF Wrecked
<1>4. AliasAt(t, p) = Absent
  BY <1>3, AliasAtIs
<1>5. <<last, a>> \in Bindings(t) /\ \A b : <<last, b>> \in Bindings(t) => b = a
  <2>1. <<last, a>> \in Bindings(t)
    BY <1>0, <1>1, BindingsAre
  <2> HIDE DEF a
  <2>2. AliasAt(t, last) = a
    BY <1>2, <2>1, AliasAtIs
  <2>3. \A b : <<last, b>> \in Bindings(t) => AliasAt(t, last) = b
    BY <1>2, AliasAtIs
  <2> QED BY <2>1, <2>2, <2>3
<1>6. AliasAt(t, last) # Absent
  BY <1>2, <1>5, AliasAtIs
<1>7. ASSUME NEW q \in Postfixes, q > last PROVE AliasAt(t, q) = Absent
  <2> SUFFICES ASSUME NEW b, <<q, b>> \in Bindings(t) PROVE FALSE
    BY AliasAtIs
  <2>1. PICK i \in 1..n : <<q, b>> = <<t.ents[i].postfix, t.ents[i].alias>>
    BY <1>1, BindingsAre
  <2>2. i = n \/ i < n
    BY <1>1
  <2>3. t.ents[i].postfix <= last
    <3>1. CASE i = n
      BY <1>0, <1>1, <3>1
    <3>2. CASE i < n
      <4>1. t.ents[i].postfix < t.ents[n].postfix
        BY <1>1, <3>2 DEF GoodTable, Ascending
      <4> QED BY <1>0, <1>1, <4>1
    <3> QED BY <2>2, <3>1, <3>2
  <2> QED BY <1>1, <1>2, <1>7, <2>1, <2>3
<1>8. AliasAt(u, p) = w
  BY <1>0, AliasAtIs
<1>9. AliasAt(u, last) = Absent
  <2>1. \A b : <<last, b>> \notin Bindings(u)
    BY <1>0, <1>1, <1>2, <1>5
  <2> QED BY <1>2, <2>1, AliasAtIs
<1>10. ASSUME NEW q \in Postfixes \ {p, last} PROVE AliasAt(u, q) = AliasAt(t, q)
  <2>1. \A b : <<q, b>> \in Bindings(u) <=> <<q, b>> \in Bindings(t)
    BY <1>0, <1>10
  <2> QED BY <2>1, SameAlias
<1> QED BY <1>2, <1>4, <1>6, <1>7, <1>8, <1>9, <1>10

\* The outcomes of an insert.
LEMMA EnterOutcomes ==
  ASSUME NEW req \in Requests, req.op = "enter", req.nbr.prefix \in Slots,
         req.nbr.postfix \in Postfixes
  PROVE  LET n == <<req.nbr.prefix, req.nbr.postfix>> IN
         /\ req.alias \in Packable =>
              Directory!Outcome([DirOf EXCEPT ![n] = req.alias], "ok", {})
                \in Directory!Outcomes(DirOf, req)
         /\ req.alias \notin Packable =>
              \A d \in Directory!Damaged(DirOf, n) :
                Directory!Outcome(d, "refused", {}) \in Directory!Outcomes(DirOf, req)
<1> DEFINE n == <<req.nbr.prefix, req.nbr.postfix>>
<1>1. Directory!NumberOf(req) = n /\ n \in Directory!Numbers
  BY DEF Directory!NumberOf, Directory!Numbers
<1>2. Directory!Outcomes(DirOf, req) = Directory!Enter(DirOf, req)
  BY DEF Directory!Outcomes
<1> HIDE DEF n
<1>3. Directory!Enter(DirOf, req) =
        IF req.alias \in Packable
        THEN {Directory!Outcome([DirOf EXCEPT ![n] = req.alias], "ok", {})}
        ELSE {Directory!Outcome(d, "refused", {}) : d \in Directory!Damaged(DirOf, n)}
  BY <1>1 DEF Directory!Enter
<1> QED BY <1>2, <1>3 DEF n

\* A refused alias: the table is as it was, or damaged as Damaged says.
LEMMA RefusedDamages ==
  ASSUME IInv, IInv', NEW s \in Slots, OthersKept(s), NEW p \in Postfixes,
         NEW al \in AliasInputs \ Packable, NEW t, GoodTable(t),
         t.ents = index_table[s].ents, NEW r \in SearchResults(t.ents, p),
         index_table'[s] = EnterAt(t, r, p, al)
  PROVE  DirOf' \in Directory!Damaged(DirOf, <<s, p>>)
<1> DEFINE n == Len(t.ents)
           old == index_table[s]
           new == index_table'[s]
<1>1. /\ GoodTable(old) /\ GoodTable(new) /\ n \in Nat /\ p \in Int
      /\ Bindings(t) = Bindings(old) /\ BindingsOf(t, p) = BindingsOf(old, p)
  <2>1. GoodTable(old)
    BY SlotTables
  <2>2. GoodTable(new)
    BY DEF IInv, TablesGood
  <2> QED BY <2>1, <2>2, EntryTypes, PostfixAssumption DEF Bindings, BindingsOf
<1>2. \A q \in Postfixes : DirOf[<<s, q>>] = AliasAt(old, q)
  BY DirIs
<1>3. \A q \in Postfixes : AliasAt(t, q) = AliasAt(old, q)
  BY DEF AliasAt
<1>4. CASE ~(r < 0)
  <2> DEFINE was == t.ents[r + 1].alias
             w   == CompressAlias(al, was)
  <2>1. Found(t.ents, p, r)
    BY <1>1, <1>4 DEF SearchResults
  <2>2. <<p, was>> \in Bindings(t)
    BY <1>1, <2>1, SearchBindings
  <2>3. new = Overwrite(t, r, al)
    BY <1>4 DEF EnterAt
  <2>4. Bindings(new) = (Bindings(t) \ BindingsOf(t, p)) \cup {<<p, w>>}
    BY <2>1, <2>3, OverwriteBinds
  <2>5. w = was \/ w = EmptyAlias
    BY DEF AliasInputs, CompressAlias
  <2> HIDE DEF w, was
  <2>6. AliasAt(old, p) = was /\ was # Absent
    <3>1. <<p, was>> \in Bindings(old)
      BY <1>1, <2>2
    <3> HIDE DEF old
    <3> QED BY <1>1, <3>1, AliasAtIs
  <2>7. AliasAt(new, p) = w /\ \A q \in Postfixes \ {p} : AliasAt(new, q) = AliasAt(old, q)
    <3>1. Rebound(old, new, p, w)
      BY <1>1, <2>4 DEF Rebound
    <3> HIDE DEF old, new
    <3> QED BY <1>1, <3>1, RebindAlias
  <2>8. DirOf' = DirWith(s, p, w)
    BY <2>7, DirSet
  <2>9. DirOf[<<s, p>>] = was
    BY <1>2, <2>6
  <2>10. w = was => DirOf' = DirOf
    BY <2>8, <2>9 DEF DirWith, DirOf
  <2> QED BY <2>5, <2>6, <2>8, <2>9, <2>10 DEF Directory!Damaged, DirWith
<1>5. CASE r < 0
  <2> DEFINE k == -r - 1
  <2>1. /\ InsertionPoint(t.ents, p, k) /\ k \in 0..n
        /\ new = InsertNew(t, k, p, al)
    BY <1>1, <1>5 DEF SearchResults, InsertionPoint, EnterAt
  <2> HIDE DEF k
  <2>2. DirOf[<<s, p>>] = Absent
    <3>1. \A b \in Bindings(old) : b[1] # p
      BY <1>1, <2>1, SearchBindings
    <3>2. AliasAt(old, p) = Absent
      <4> HIDE DEF old
      <4> QED BY <1>1, <3>1, AliasAtIs
    <3> QED BY <1>2, <3>2
  <2>3. CASE k = n
    <3>1. Bindings(new) = Bindings(old)
      BY <1>1, <2>1, <2>3, InsertNewRefusedBinds
    <3>2. \A q \in Postfixes : AliasAt(new, q) = AliasAt(old, q)
      <4> HIDE DEF new, old
      <4> QED BY <1>1, <3>1, SameAlias
    <3>3. DirOf' = DirOf
      BY <3>2, DirSame
    <3> QED BY <2>2, <3>3 DEF Directory!Damaged
  <2>4. CASE k < n
    <3> DEFINE at   == t.ents[k + 1]
               w    == CompressAlias(al, at.alias)
               last == t.ents[n].postfix
               x    == <<w, last>>
    <3>1. Wrecked(t, new, p, w, k, last)
      BY <2>1, <2>4, InsertNewRefusedBinds DEF Wrecked
    <3>2. /\ last \in Postfixes /\ p < last
          /\ AliasAt(t, p) = Absent /\ AliasAt(t, last) # Absent
          /\ \A q \in Postfixes : q > last => AliasAt(t, q) = Absent
          /\ AliasAt(new, p) = w /\ AliasAt(new, last) = Absent
          /\ \A q \in Postfixes \ {p, last} : AliasAt(new, q) = AliasAt(t, q)
      <4>1. GoodTable(new)
        BY <1>1
      <4> HIDE DEF new, w, last
      <4> QED BY <3>1, <4>1, WreckAliases
    <3>10. /\ at.postfix \in Postfixes
           /\ AliasAt(t, at.postfix) = at.alias /\ at.alias \in Stored
      <4>1. k + 1 \in 1..n
        BY <1>1, <2>1, <2>4
      <4>2. at.postfix \in Postfixes /\ <<at.postfix, at.alias>> \in Bindings(t)
        BY <4>1, EntryTypes, BindingsAre
      <4> HIDE DEF at
      <4> QED BY <4>2, AliasAtIs
    <3>3. w = at.alias \/ w = EmptyAlias
      BY DEF AliasInputs, CompressAlias
    <3>4. w \in Packable \cup {EmptyAlias}
      BY <3>3, <3>10 DEF Stored
    <3> HIDE DEF w, last, at
    <3>5. DirOf' = [DirOf EXCEPT ![<<s, p>>] = w, ![<<s, last>>] = Absent]
      <4>1. \A z \in Slots, q \in Postfixes :
              AliasAt(index_table'[z], q) =
                IF <<z, q>> = <<s, p>> THEN w
                ELSE IF <<z, q>> = <<s, last>> THEN Absent
                ELSE AliasAt(index_table[z], q)
        BY <1>3, <3>2 DEF OthersKept
      <4>2. p # last
        BY <1>1, <3>2, PostfixAssumption
      <4>3. DirOf' = [m \in Slots \X Postfixes |-> AliasAt(index_table'[m[1]], m[2])]
        BY DEF DirOf
      <4>4. \A m \in Slots \X Postfixes :
              AliasAt(index_table'[m[1]], m[2]) =
                IF m = <<s, p>> THEN w
                ELSE IF m = <<s, last>> THEN Absent
                ELSE AliasAt(index_table[m[1]], m[2])
        BY <4>1
      <4> HIDE DEF new, old
      <4> QED BY <3>2, <4>2, <4>3, <4>4 DEF DirOf
    <3>6. Directory!IsLast(DirOf, s, last)
      BY <1>2, <1>3, <3>2 DEF Directory!IsLast
    <3>7. w = EmptyAlias \/ \E q \in Postfixes : DirOf[<<s, q>>] = w
      BY <1>2, <1>3, <3>3, <3>10
    <3>8. x \in {y \in (Packable \cup {EmptyAlias}) \X Postfixes :
                   /\ Directory!IsLast(DirOf, s, y[2]) /\ p < y[2]
                   /\ y[1] = EmptyAlias \/ \E q \in Postfixes : DirOf[<<s, q>>] = y[1]}
      BY <3>2, <3>4, <3>6, <3>7
    <3>9. DirOf' = [DirOf EXCEPT ![<<s, p>>] = x[1], ![<<s, x[2]>>] = Absent]
      BY <3>5
    <3> HIDE DEF x
    <3> QED BY <2>2, <3>8, <3>9 DEF Directory!Damaged
  <2> QED BY <1>1, <2>1, <2>3, <2>4
<1> QED BY <1>4, <1>5

LEMMA EnterRefines ==
  ASSUME IInv, NEW req \in Requests, Lives(req), EnterEntry(req)
  PROVE  Directory!Next
<1> DEFINE s   == req.nbr.prefix
           p   == req.nbr.postfix
           old == index_table[s]
           t   == Opened(old)
<1>1. /\ s \in Slots /\ req.op = "enter" /\ req.alias \in AliasInputs
      /\ GoodTable(old) /\ IInv'
  BY RequestFields, SlotTables, EnterStep DEF EnterEntry
<1>2. GoodTable(t) /\ t.ents = old.ents
  <2>1. IsNull(old) => old.ents = EmptyTable.ents
    BY <1>1 DEF GoodTable, SpareBlock, EmptyTable
  <2> QED BY <1>1, <2>1, EmptyTableGood DEF Opened
<1>3. SUCCESS # FAILURE
  BY DEF SUCCESS, FAILURE
<1>4. CASE /\ p \in BadPostfixes
           /\ index_table' = [index_table EXCEPT ![s] = t]
           /\ Answer(req, FAILURE)
  <2>1. p \notin Postfixes
    BY <1>4, KeyAssumption, PostfixAssumption
  <2>2. index_table'[s] = t /\ OthersKept(s)
    <3> HIDE DEF s, t
    <3> QED BY <1>1, <1>4, SlotReplaced
  <2>3. \A q \in Postfixes : AliasAt(index_table'[s], q) = AliasAt(index_table[s], q)
    <3>1. index_table'[s].ents = index_table[s].ents
      BY <1>2, <2>2
    <3> QED BY <3>1 DEF AliasAt
  <2>4. DirOf' = DirOf
    <3> HIDE DEF s
    <3> QED BY <1>1, <2>2, <2>3, DirSame
  <2>5. reply'.request = req /\ reply'.status = FAILURE /\ FoundIn(reply') = {}
    BY <1>1, <1>4, AnswerFinds
  <2> QED BY <1>1, <2>1, <2>4, <2>5, Statuses, RefusalOutcome, ServeStep
<1>5. CASE /\ p \in Postfixes
           /\ \E r \in SearchResults(t.ents, p) :
                index_table' = [index_table EXCEPT ![s] = EnterAt(t, r, p, req.alias)]
           /\ Answer(req, EnterStatus(req.alias))
  <2>1. /\ reply'.request = req /\ reply'.status = EnterStatus(req.alias)
        /\ FoundIn(reply') = {}
    BY <1>1, <1>5, AnswerFinds
  <2>2. CASE req.alias \in Packable
    <3>1. reply'.status = SUCCESS
      BY <2>1, <2>2 DEF EnterStatus
    <3>2. /\ OthersKept(s)
          /\ Bindings(index_table'[s]) =
               (Bindings(old) \ BindingsOf(old, p)) \cup {<<p, req.alias>>}
      BY <3>1, EnterAccepted DEF EnterExact
    <3>3. /\ AliasAt(index_table'[s], p) = req.alias
          /\ \A q \in Postfixes \ {p} : AliasAt(index_table'[s], q) = AliasAt(old, q)
      <4>1. GoodTable(index_table'[s])
        BY <1>1 DEF IInv, TablesGood
      <4> DEFINE new == index_table'[s]
      <4> HIDE DEF old, s, p, new
      <4>2. GoodTable(new) /\ p \in Postfixes /\ Rebound(old, new, p, req.alias)
        BY <1>5, <3>2, <4>1 DEF new, Rebound
      <4>3. /\ AliasAt(new, p) = req.alias
            /\ \A q \in Postfixes \ {p} : AliasAt(new, q) = AliasAt(old, q)
        BY <1>1, <4>2, RebindAlias
      <4> QED BY <4>3 DEF new
    <3>4. DirOf' = [DirOf EXCEPT ![<<s, p>>] = req.alias]
      <4>1. DirOf' = DirWith(s, p, AliasAt(index_table'[s], p))
        <5> HIDE DEF s, p
        <5> QED BY <1>1, <1>5, <3>2, <3>3, DirSet DEF old
      <4> QED BY <3>3, <4>1 DEF DirWith
    <3>5. Directory!Outcome(DirOf', "ok", {}) \in Directory!Outcomes(DirOf, req)
      BY <1>1, <1>5, <2>2, <3>4, EnterOutcomes
    <3> QED BY <2>1, <3>1, <3>5, Statuses, ServeStep
  <2>3. CASE req.alias \notin Packable
    <3>1. reply'.status = FAILURE
      BY <2>1, <2>3 DEF EnterStatus
    <3>2. PICK r \in SearchResults(t.ents, p) :
            index_table' = [index_table EXCEPT ![s] = EnterAt(t, r, p, req.alias)]
      BY <1>5
    <3> DEFINE u == EnterAt(t, r, p, req.alias)
    <3>3. index_table'[s] = u /\ OthersKept(s)
      <4>1. index_table' = [index_table EXCEPT ![s] = u]
        BY <3>2
      <4> HIDE DEF s, u
      <4> QED BY <1>1, <4>1, SlotReplaced
    <3>4. DirOf' \in Directory!Damaged(DirOf, <<s, p>>)
      <4> DEFINE al == req.alias
      <4>1. /\ s \in Slots /\ p \in Postfixes /\ al \in AliasInputs \ Packable
            /\ t.ents = index_table[s].ents /\ GoodTable(t)
            /\ index_table'[s] = EnterAt(t, r, p, al)
        BY <1>1, <1>2, <1>5, <2>3, <3>3
      <4> HIDE DEF s, p, t, al, old
      <4> QED BY <1>1, <3>2, <3>3, <4>1, RefusedDamages
    <3>5. Directory!Outcome(DirOf', "refused", {}) \in Directory!Outcomes(DirOf, req)
      BY <1>1, <1>5, <2>3, <3>4, EnterOutcomes
    <3> QED BY <2>1, <3>1, <3>5, Statuses, ServeStep
  <2> QED BY <2>2, <2>3
<1> QED BY <1>4, <1>5 DEF EnterEntry

\* At the start there is no table and no number.
LEMMA InitRefines == Init => Directory!Init
<1> SUFFICES ASSUME Init PROVE Directory!Init
  OBVIOUS
<1>1. \A s \in Slots, p \in Postfixes : AliasAt(index_table[s], p) = Absent
  BY DEF Init, NullTable, AliasAt
<1>2. DirOf = [n \in Directory!Numbers |-> Absent]
  BY <1>1 DEF DirOf, Directory!Numbers
<1>3. reply.request = NoRequest /\ StatusOf(reply.status) = "ok" /\ FoundIn(reply) = {}
  BY Statuses DEF Init, FoundIn, NoRequest, Bindings, NullTable
<1>4. aborted = "none"
  BY DEF Init
<1> QED BY <1>2, <1>3, <1>4 DEF Directory!Init

LEMMA NextRefines ==
  ASSUME IInv, [Next]_vars
  PROVE  [Directory!Next]_(Directory!vars)
<1>1. CASE UNCHANGED vars
  BY <1>1 DEF vars, Directory!vars, DirOf
<1>2. CASE Next
  <2>1. aborted = "none"
    BY <1>2 DEF Next
  <2>2. PICK req \in Requests :
          \/ RefusePrefix(req) \/ AbortOnPrefix(req)
          \/ EnterEntry(req) \/ DeleteEntry(req) \/ SearchEntry(req)
          \/ GetBlock(req) \/ GetRange(req)
    BY <1>2 DEF Next
  <2>3. CASE \/ EnterEntry(req) \/ DeleteEntry(req) \/ SearchEntry(req) \/ GetBlock(req)
    <3>1. /\ req.op # "range" /\ req.nbr.prefix \in Slots /\ UNCHANGED aborted
      BY <2>3 DEF EnterEntry, DeleteEntry, SearchEntry, GetBlock
    <3>2. Lives(req)
      BY <2>1, <3>1, PrefixAssumption, OtherLives
    <3> QED BY <2>3, <3>2, EnterRefines, DeleteRefines, SearchRefines, BlockRefines
  <2> QED BY <2>1, <2>2, <2>3, PrefixRefines, RangeRefines
<1> QED BY <1>1, <1>2

(***************************************************************************)
(* The index implements the directory, for every class of aliases and      *)
(* lengths: whatever the searches return, tables grow, shrink, vanish and  *)
(* are wrecked by, clients see a map from numbers to aliases, and only the *)
(* requests the directory names stop the server.                           *)
(***************************************************************************)
THEOREM IndexImplementsDirectory == Spec => ImplementsDirectory
BY IndexInvariant, InitRefines, NextRefines, PTL
   DEF Spec, ImplementsDirectory, Directory!Spec
=============================================================================
