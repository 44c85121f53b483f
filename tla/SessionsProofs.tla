--------------------------- MODULE SessionsProofs ---------------------------
(***************************************************************************)
(* The properties of the sessions for any connections, sessions, buckets   *)
(* and time-out: the table holds the live ones, the GUI lets through only  *)
(* requests with the cookie of their session, and no session is condemned  *)
(* that was touched within the time-out.                                   *)
(***************************************************************************)
EXTENDS Sessions, SequenceTheorems, TLAPS

Elements == [key : Ids, data : Ids]
Tables == [Buckets -> Seq(Elements)]

\* The key of every element is its data.
SelfKeyed(tbl) ==
  \A b \in Buckets : \A i \in 1..Len(tbl[b]) : tbl[b][i].data = tbl[b][i].key

Holds(tbl, s) == \E b \in Buckets : \E i \in 1..Len(tbl[b]) : tbl[b][i].key = s

\* The table has the live sessions, each under its id.
TableLive ==
  /\ sessions_table \in Tables /\ SelfKeyed(sessions_table)
  /\ ChainsSound(sessions_table)
  /\ \A s \in Ids : Holds(sessions_table, s) <=> state[s] = "live"

\* The walk is at the element it is about to remove.
DoomedVisited == walk.doomed # NoSession => InChain /\ Visited = walk.doomed

\* An id that no session has yet is known to nobody.
UnusedUnknown ==
  \A s \in Ids : state[s] = "unused" =>
    /\ ~logged_in[s] /\ ~cookie_sent[s]
    /\ \A c \in Conns : conn[c].session # s /\ conn[c].cookie # s

(***************************************************************************)
(* The session created for a request is known to this request only until   *)
(* it is answered, and is logged in by nothing but this request.           *)
(***************************************************************************)
Private(c) ==
  conn[c].pc \in {"got", "attached", "handled"} /\ conn[c].cookie # conn[c].session =>
    /\ ~cookie_sent[conn[c].session]
    /\ conn[c].pc # "handled" => ~logged_in[conn[c].session]
    /\ \A d \in Conns : d # c => conn[d].session # conn[c].session
                                 /\ conn[d].cookie # conn[c].session

\* The GUI lets nothing through before it has looked at the session.
Ungranted == \A c \in Conns : conn[c].pc \in {"idle", "open"} => ~conn[c].granted

\* The session of a request was touched by it or by another one since.
TouchedSince ==
  \A c \in Conns : Attached(c) => age[conn[c].session] <= conn[c].since

IInv ==
  /\ TypeOK /\ TableLive /\ DoomedVisited
  /\ UnusedUnknown /\ (\A c \in Conns : Private(c)) /\ GateNeedsCookie
  /\ Ungranted /\ TouchedSince

-----------------------------------------------------------------------------
\* What prepending an element and removing one do to a chain.
LEMMA PrependProperties ==
  ASSUME NEW S, NEW q \in Seq(S), NEW e \in S
  PROVE  /\ <<e>> \o q \in Seq(S)
         /\ Len(<<e>> \o q) = Len(q) + 1
         /\ (<<e>> \o q)[1] = e
         /\ \A i \in 2..(Len(q) + 1) : (<<e>> \o q)[i] = q[i - 1]
<1> DEFINE one == <<e>>
<1>1. one \in Seq(S) /\ Len(one) = 1 /\ one[1] = e
  OBVIOUS
<1> HIDE DEF one
<1>2. /\ one \o q \in Seq(S)
      /\ Len(one \o q) = Len(one) + Len(q)
      /\ \A i \in 1..(Len(one) + Len(q)) :
           (one \o q)[i] = IF i <= Len(one) THEN one[i] ELSE q[i - Len(one)]
  BY <1>1, ConcatProperties
<1>3. Len(q) \in Nat
  OBVIOUS
<1>. QED
  BY <1>1, <1>2, <1>3 DEF one

LEMMA RemoveAtProperties ==
  ASSUME NEW S, NEW q \in Seq(S), NEW k \in 1..Len(q)
  PROVE  /\ RemoveAt(q, k) \in Seq(S)
         /\ Len(RemoveAt(q, k)) = Len(q) - 1
         /\ \A i \in 1..(k - 1) : RemoveAt(q, k)[i] = q[i]
         /\ \A i \in k..(Len(q) - 1) : RemoveAt(q, k)[i] = q[i + 1]
<1> DEFINE low == SubSeq(q, 1, k - 1)
           high == SubSeq(q, k + 1, Len(q))
<1>0. Len(q) \in Nat /\ k \in Nat /\ k >= 1 /\ k <= Len(q)
  OBVIOUS
<1>1. /\ low \in Seq(S) /\ Len(low) = k - 1
      /\ \A i \in 1..(k - 1) : low[i] = q[i]
  BY <1>0, SubSeqProperties
<1>2. /\ high \in Seq(S) /\ Len(high) = Len(q) - k
      /\ \A i \in 1..(Len(q) - k) : high[i] = q[k + i]
  BY <1>0, SubSeqProperties
<1> HIDE DEF low, high
<1>3. /\ low \o high \in Seq(S) /\ Len(low \o high) = Len(low) + Len(high)
      /\ \A i \in 1..(Len(low) + Len(high)) :
           (low \o high)[i] = IF i <= Len(low) THEN low[i] ELSE high[i - Len(low)]
  BY <1>1, <1>2, ConcatProperties
<1>4. RemoveAt(q, k) = low \o high
  BY DEF RemoveAt, low, high
<1>5. ASSUME NEW i \in k..(Len(q) - 1) PROVE (low \o high)[i] = q[i + 1]
  <2>1. i \in 1..(Len(low) + Len(high)) /\ ~(i <= Len(low)) /\ i - Len(low) \in 1..(Len(q) - k)
    BY <1>0, <1>1, <1>2
  <2>2. k + (i - Len(low)) = i + 1
    BY <1>0, <1>1
  <2>. QED
    BY <1>2, <1>3, <2>1, <2>2
<1>6. ASSUME NEW i \in 1..(k - 1) PROVE (low \o high)[i] = q[i]
  BY <1>0, <1>1, <1>2, <1>3
<1>7. Len(low) + Len(high) = Len(q) - 1
  BY <1>0, <1>1, <1>2
<1> DEFINE both == low \o high
<1>8. both \in Seq(S) /\ Len(both) = Len(q) - 1
  BY <1>3, <1>7
<1>. QED
  BY <1>4, <1>5, <1>6, <1>8
-----------------------------------------------------------------------------
LEMMA DataHeld ==
  ASSUME NEW tbl \in Tables, SelfKeyed(tbl), NEW s
  PROVE  s \in TableData(tbl) <=> Holds(tbl, s)
BY DEF TableData, SelfKeyed, Holds

\* HT_lookup: what is found is the session of the key, in the table.
LEMMA LookupFinds ==
  ASSUME NEW tbl \in Tables, SelfKeyed(tbl), NEW key \in Ids,
         NEW s \in HTLookup(tbl, key)
  PROVE  s = key /\ Holds(tbl, key)
<1>1. PICK i \in Places(tbl, key) : s = tbl[Hash[key]][i].data
  BY DEF HTLookup
<1>2. Hash[key] \in Buckets
  BY HashAssumption DEF Ids
<1>3. i \in 1..Len(tbl[Hash[key]]) /\ tbl[Hash[key]][i].key = key
  BY <1>1 DEF Places
<1>. QED
  BY <1>1, <1>2, <1>3 DEF SelfKeyed, Holds

\* HT_insert: a new key is put in its bucket, once.
LEMMA InsertHolds ==
  ASSUME NEW tbl \in Tables, SelfKeyed(tbl), ChainsSound(tbl),
         NEW s \in Ids, ~Holds(tbl, s)
  PROVE  /\ HTInsert(tbl, s, s) \in Tables
         /\ SelfKeyed(HTInsert(tbl, s, s)) /\ ChainsSound(HTInsert(tbl, s, s))
         /\ \A r : Holds(HTInsert(tbl, s, s), r) <=> Holds(tbl, r) \/ r = s
<1> DEFINE b0 == Hash[s]
           e == [key |-> s, data |-> s]
           q == tbl[b0]
           p == <<e>> \o q
           new == [tbl EXCEPT ![b0] = p]
<1>1. b0 \in Buckets
  BY HashAssumption DEF Ids
<1>2. Places(tbl, s) = {}
  BY <1>1 DEF Places, Holds
<1>3. HTInsert(tbl, s, s) = new
  BY <1>2 DEF HTInsert
<1>4. e \in Elements /\ e.key = s /\ e.data = s
  BY DEF Elements
<1>5. q \in Seq(Elements) /\ Len(q) \in Nat
  BY <1>1 DEF Tables
<1> HIDE DEF e, q
<1>6. /\ p \in Seq(Elements) /\ Len(p) = Len(q) + 1 /\ p[1] = e
      /\ \A i \in 2..(Len(q) + 1) : p[i] = q[i - 1]
  BY <1>4, <1>5, PrependProperties
<1> HIDE DEF p
<1>7. /\ new \in Tables /\ new[b0] = p
      /\ \A b \in Buckets : b # b0 => new[b] = tbl[b]
  BY <1>1, <1>6 DEF Tables
<1> HIDE DEF new, b0
<1>8. q = tbl[b0]
  BY DEF q
<1>9. \A i \in 1..Len(p) : i = 1 \/ (i - 1 \in 1..Len(q) /\ p[i] = q[i - 1])
  BY <1>5, <1>6
<1>9a. \A i \in 1..Len(q) : i + 1 \in 1..Len(p) /\ p[i + 1] = q[i] /\ 1 \in 1..Len(p)
  <2>1. ASSUME NEW i \in 1..Len(q)
        PROVE  i + 1 \in 1..Len(p) /\ p[i + 1] = q[i] /\ 1 \in 1..Len(p)
    <3>1. i + 1 \in 2..(Len(q) + 1) /\ (i + 1) - 1 = i
      BY <1>5
    <3>. QED
      BY <1>5, <1>6, <3>1
  <2>. QED
    BY <2>1
<1>9b. 1 \in 1..Len(p)
  BY <1>5, <1>6
<1>10. SelfKeyed(new)
  <2>1. \A i \in 1..Len(p) : p[i].data = p[i].key
    BY <1>1, <1>4, <1>6, <1>8, <1>9 DEF SelfKeyed
  <2>. QED
    BY <1>7, <2>1 DEF SelfKeyed
<1>11. \A i \in 1..Len(q) : q[i].key # s /\ Hash[q[i].key] = b0
  BY <1>1, <1>8 DEF Holds, ChainsSound
<1>12. ChainsSound(new)
  <2>1. ASSUME NEW b \in Buckets, b # b0
        PROVE  /\ \A i \in 1..Len(new[b]) : Hash[new[b][i].key] = b
               /\ \A i, j \in 1..Len(new[b]) : new[b][i].key = new[b][j].key => i = j
    BY <1>7, <2>1 DEF ChainsSound
  <2>2. \A i \in 1..Len(p) : Hash[p[i].key] = b0
    BY <1>4, <1>6, <1>9, <1>11 DEF b0
  <2>3. ASSUME NEW i \in 1..Len(p), NEW j \in 1..Len(p), p[i].key = p[j].key
        PROVE  i = j
    <3>1. CASE i = 1 \/ j = 1
      BY <1>4, <1>6, <1>9, <1>11, <2>3, <3>1
    <3>2. CASE i # 1 /\ j # 1
      <4>1. i - 1 \in 1..Len(q) /\ j - 1 \in 1..Len(q) /\ q[i - 1].key = q[j - 1].key
        BY <1>9, <2>3, <3>2
      <4>2. i - 1 = j - 1
        BY <1>1, <1>8, <4>1 DEF ChainsSound
      <4>. QED
        BY <1>5, <1>6, <4>2
    <3>. QED
      BY <3>1, <3>2
  <2>. QED
    BY <1>7, <2>1, <2>2, <2>3 DEF ChainsSound
<1>13. ASSUME NEW r PROVE Holds(new, r) <=> Holds(tbl, r) \/ r = s
  <2>1. ASSUME NEW b \in Buckets, NEW i \in 1..Len(new[b]), new[b][i].key = r
        PROVE  Holds(tbl, r) \/ r = s
    <3>1. CASE b # b0
      BY <1>7, <2>1, <3>1 DEF Holds
    <3>2. CASE b = b0
      BY <1>1, <1>4, <1>6, <1>7, <1>8, <1>9, <2>1, <3>2 DEF Holds
    <3>. QED
      BY <3>1, <3>2
  <2>2. ASSUME NEW b \in Buckets, NEW i \in 1..Len(tbl[b]), tbl[b][i].key = r
        PROVE  Holds(new, r)
    <3>1. CASE b # b0
      BY <1>7, <2>2, <3>1 DEF Holds
    <3>2. CASE b = b0
      BY <1>1, <1>7, <1>8, <1>9a, <2>2, <3>2 DEF Holds
    <3>. QED
      BY <3>1, <3>2
  <2>3. r = s => Holds(new, r)
    BY <1>1, <1>4, <1>6, <1>7, <1>9b DEF Holds
  <2>. QED
    BY <2>1, <2>2, <2>3 DEF Holds
<1>. QED
  BY <1>3, <1>7, <1>10, <1>12, <1>13

\* HT_iterate: an element is unlinked, and with it its key is gone.
LEMMA UnlinkHolds ==
  ASSUME NEW tbl \in Tables, SelfKeyed(tbl), ChainsSound(tbl),
         NEW b0 \in Buckets, NEW k \in 1..Len(tbl[b0])
  PROVE  /\ HTUnlink(tbl, b0, k) \in Tables
         /\ SelfKeyed(HTUnlink(tbl, b0, k)) /\ ChainsSound(HTUnlink(tbl, b0, k))
         /\ \A r : Holds(HTUnlink(tbl, b0, k), r)
                     <=> Holds(tbl, r) /\ r # tbl[b0][k].key
<1> DEFINE q == tbl[b0]
           p == RemoveAt(q, k)
           new == [tbl EXCEPT ![b0] = p]
           from(i) == IF i < k THEN i ELSE i + 1
<1>1. HTUnlink(tbl, b0, k) = new
  BY DEF HTUnlink
<1>2. q \in Seq(Elements) /\ Len(q) \in Nat /\ k \in 1..Len(q)
  BY DEF Tables
<1>3. q = tbl[b0]
  OBVIOUS
<1> HIDE DEF q
<1>4. /\ p \in Seq(Elements) /\ Len(p) = Len(q) - 1
      /\ \A i \in 1..(k - 1) : p[i] = q[i]
      /\ \A i \in k..(Len(q) - 1) : p[i] = q[i + 1]
  BY <1>2, RemoveAtProperties
<1> HIDE DEF p
<1>5. /\ new \in Tables /\ new[b0] = p
      /\ \A b \in Buckets : b # b0 => new[b] = tbl[b]
  BY <1>4 DEF Tables
<1> HIDE DEF new
<1>6. \A i \in 1..Len(p) : from(i) \in 1..Len(q) /\ from(i) # k /\ p[i] = q[from(i)]
  <2>1. ASSUME NEW i \in 1..Len(p)
        PROVE  from(i) \in 1..Len(q) /\ from(i) # k /\ p[i] = q[from(i)]
    <3>1. CASE i < k
      <4>1. i \in 1..(k - 1) /\ i \in 1..Len(q)
        BY <1>2, <1>4, <3>1
      <4>. QED
        BY <1>2, <1>4, <3>1, <4>1
    <3>2. CASE ~(i < k)
      <4>1. i \in k..(Len(q) - 1) /\ i + 1 \in 1..Len(q) /\ i + 1 # k
        BY <1>2, <1>4, <3>2
      <4>. QED
        BY <1>4, <3>2, <4>1
    <3>. QED
      BY <3>1, <3>2
  <2>. QED
    BY <2>1
<1>7. \A j \in 1..Len(q) : j # k => \E i \in 1..Len(p) : p[i] = q[j]
  <2>1. ASSUME NEW j \in 1..Len(q), j # k PROVE \E i \in 1..Len(p) : p[i] = q[j]
    <3>1. CASE j < k
      <4>1. j \in 1..(k - 1) /\ j \in 1..Len(p)
        BY <1>2, <1>4, <3>1
      <4>. QED
        BY <1>4, <4>1
    <3>2. CASE j > k
      <4>1. j - 1 \in k..(Len(q) - 1) /\ j - 1 \in 1..Len(p) /\ (j - 1) + 1 = j
        BY <1>2, <1>4, <3>2
      <4>. QED
        BY <1>4, <4>1
    <3>. QED
      BY <1>2, <2>1, <3>1, <3>2
  <2>. QED
    BY <2>1
<1>8. \A i, j \in 1..Len(p) : from(i) = from(j) => i = j
  BY <1>2, <1>4
<1> HIDE DEF from
<1>9. SelfKeyed(new)
  BY <1>3, <1>5, <1>6 DEF SelfKeyed
<1>10. ChainsSound(new)
  <2>1. ASSUME NEW b \in Buckets, b # b0
        PROVE  /\ \A i \in 1..Len(new[b]) : Hash[new[b][i].key] = b
               /\ \A i, j \in 1..Len(new[b]) : new[b][i].key = new[b][j].key => i = j
    BY <1>5, <2>1 DEF ChainsSound
  <2>2. \A i \in 1..Len(p) : Hash[p[i].key] = b0
    BY <1>3, <1>6 DEF ChainsSound
  <2>3. ASSUME NEW i \in 1..Len(p), NEW j \in 1..Len(p), p[i].key = p[j].key
        PROVE  i = j
    <3>1. from(i) = from(j)
      BY <1>3, <1>6, <2>3 DEF ChainsSound
    <3>. QED
      BY <1>8, <3>1
  <2>. QED
    BY <1>5, <2>1, <2>2, <2>3 DEF ChainsSound
<1>11. ASSUME NEW r PROVE Holds(new, r) <=> Holds(tbl, r) /\ r # q[k].key
  <2>1. ASSUME NEW b \in Buckets, NEW i \in 1..Len(new[b]), new[b][i].key = r
        PROVE  Holds(tbl, r) /\ r # q[k].key
    <3>1. CASE b # b0
      <4>1. Hash[r] = b /\ Hash[q[k].key] = b0 /\ Holds(tbl, r)
        BY <1>2, <1>3, <1>5, <2>1, <3>1 DEF Holds, ChainsSound
      <4>. QED
        BY <3>1, <4>1
    <3>2. CASE b = b0
      <4>1. from(i) \in 1..Len(q) /\ from(i) # k /\ q[from(i)].key = r
        BY <1>5, <1>6, <2>1, <3>2
      <4>. QED
        BY <1>2, <1>3, <4>1 DEF Holds, ChainsSound
    <3>. QED
      BY <3>1, <3>2
  <2>2. ASSUME NEW b \in Buckets, NEW j \in 1..Len(tbl[b]), tbl[b][j].key = r,
               r # q[k].key
        PROVE  Holds(new, r)
    <3>1. CASE b # b0
      BY <1>5, <2>2, <3>1 DEF Holds
    <3>2. CASE b = b0
      BY <1>3, <1>5, <1>7, <2>2, <3>2 DEF Holds
    <3>. QED
      BY <3>1, <3>2
  <2>. QED
    BY <2>1, <2>2 DEF Holds
<1>. QED
  BY <1>1, <1>3, <1>5, <1>9, <1>10, <1>11

-----------------------------------------------------------------------------
\* What a session is to a request.
LEMMA InitInvariant == Init => IInv
<1> SUFFICES ASSUME Init PROVE IInv
  OBVIOUS
<1>1. NoRequest \in Requests /\ NoRequest.pc = "idle" /\ NoRequest.session = NoSession
      /\ NoRequest.cookie = NoSession /\ NoRequest.granted = FALSE
  BY TimeoutAssumption DEF NoRequest, Requests, Ages
<1>2. NoWalk \in [on : BOOLEAN, bucket : 0..Size, place : Nat \ {0},
                  doomed : Ids \cup {NoSession}] /\ NoWalk.doomed = NoSession
  BY SizeAssumption DEF NoWalk
<1>3. TypeOK
  BY <1>1, <1>2, TimeoutAssumption DEF Init, TypeOK, Ages
<1>4. TableLive
  <2>1. HTNew \in Tables /\ \A b \in Buckets : Len(HTNew[b]) = 0
    BY DEF HTNew, Tables
  <2>. QED
    BY <2>1 DEF Init, TableLive, SelfKeyed, ChainsSound, Holds
<1>5. DoomedVisited
  BY <1>2 DEF Init, DoomedVisited
<1>6. UnusedUnknown /\ (\A c \in Conns : Private(c)) /\ GateNeedsCookie /\ Ungranted
      /\ TouchedSince
  BY <1>1, NoSessionAssumption
     DEF Init, UnusedUnknown, Private, GateNeedsCookie, Ungranted, TouchedSince, Attached
<1>. QED
  BY <1>3, <1>4, <1>5, <1>6 DEF IInv

LEMMA SameKeeps == IInv /\ UNCHANGED <<table, data, conn, timer>> => IInv'
BY DEF IInv, TypeOK, TableLive, DoomedVisited, InChain, Visited, UnusedUnknown, Private,
       GateNeedsCookie, Ungranted, TouchedSince, Attached, table, data, timer

(***************************************************************************)
(* A step of the request of c, which becomes r.  The session is the one it *)
(* had or that of its cookie; the cookie is one that was sent.             *)
(***************************************************************************)
LEMMA MoveKeeps ==
  ASSUME IInv, NEW c \in Conns, NEW r \in Requests, Become(c, r),
         UNCHANGED <<table, timer>>,
         r.pc \notin {"idle", "open"} => r.session \in Ids,
         r.session \in {conn[c].session, conn[c].cookie, NoSession},
         \/ r.cookie \in {conn[c].cookie, NoSession}
         \/ r.cookie \in Ids /\ cookie_sent[r.cookie],
         r.pc \in {"got", "attached", "handled"} /\ r.cookie # r.session =>
           /\ conn[c].pc \in {"got", "attached", "handled"}
           /\ r.cookie = conn[c].cookie /\ r.session = conn[c].session
           /\ r.pc # "handled" => conn[c].pc # "handled",
         \/ logged_in' = logged_in
         \/ /\ conn[c].session \in Ids /\ r.pc = "handled"
            /\ logged_in' = [logged_in EXCEPT ![conn[c].session] = TRUE],
         \/ cookie_sent' = cookie_sent
         \/ /\ conn[c].session \in Ids /\ r.pc = "answered"
            /\ cookie_sent' = [cookie_sent EXCEPT ![conn[c].session] = TRUE],
         \/ age' = age
         \/ conn[c].session \in Ids /\ age' = [age EXCEPT ![conn[c].session] = 0],
         r.granted => r.cookie = r.session /\ r.pc \notin {"idle", "open"},
         r.pc \in {"attached", "handled", "answered"} => age'[r.session] <= r.since
  PROVE  IInv'
<1>1. /\ conn \in [Conns -> Requests] /\ conn' \in [Conns -> Requests] /\ conn'[c] = r
      /\ \A d \in Conns : d # c => conn'[d] = conn[d]
  BY DEF IInv, TypeOK, Become
<1>2. /\ logged_in' \in [Ids -> BOOLEAN] /\ cookie_sent' \in [Ids -> BOOLEAN]
      /\ age' \in [Ids -> Ages]
      /\ \A s \in Ids : s # conn[c].session => /\ logged_in'[s] = logged_in[s]
                                               /\ cookie_sent'[s] = cookie_sent[s]
      /\ \A s \in Ids : age'[s] <= age[s]
  <2>1. /\ logged_in \in [Ids -> BOOLEAN] /\ cookie_sent \in [Ids -> BOOLEAN]
        /\ age \in [Ids -> Ages] /\ 0 \in Ages /\ Ages \subseteq Nat
    BY TimeoutAssumption DEF IInv, TypeOK, Ages
  <2>2. /\ logged_in' \in [Ids -> BOOLEAN]
        /\ \A s \in Ids : s # conn[c].session => logged_in'[s] = logged_in[s]
    BY <2>1
  <2>3. /\ cookie_sent' \in [Ids -> BOOLEAN]
        /\ \A s \in Ids : s # conn[c].session => cookie_sent'[s] = cookie_sent[s]
    BY <2>1
  <2>4. /\ age' \in [Ids -> Ages]
        /\ \A s \in Ids : age'[s] = age[s] \/ age'[s] = 0
    BY <2>1
  <2>5. ASSUME NEW s \in Ids PROVE age'[s] <= age[s]
    <3>1. age[s] \in Nat
      BY <2>1
    <3>. QED
      BY <2>4, <3>1
  <2>. QED
    BY <2>2, <2>3, <2>4, <2>5
<1>3. TypeOK'
  BY <1>1, <1>2 DEF IInv, TypeOK, table, timer
<1>4. TableLive' /\ DoomedVisited'
  BY DEF IInv, TableLive, DoomedVisited, InChain, Visited, table, timer
<1>5. UnusedUnknown'
  BY <1>1, <1>2, NoSessionAssumption DEF IInv, UnusedUnknown, table
<1>6. Private(c)'
  BY <1>1, <1>2 DEF IInv, TypeOK, Private
<1>7. ASSUME NEW d \in Conns, d # c PROVE Private(d)'
  BY <1>1, <1>2, <1>7, NoSessionAssumption DEF IInv, TypeOK, Private
<1>8. GateNeedsCookie' /\ Ungranted'
  BY <1>1 DEF IInv, GateNeedsCookie, Ungranted
<1>9. TouchedSince'
  <2>1. SUFFICES ASSUME NEW d \in Conns, Attached(d)'
                 PROVE  age'[conn'[d].session] <= conn'[d].since
    BY DEF TouchedSince
  <2>2. CASE d = c
    BY <1>1, <2>1, <2>2 DEF Attached
  <2>3. CASE d # c
    <3>1. conn'[d] = conn[d] /\ Attached(d)
      BY <1>1, <2>1, <2>3 DEF Attached
    <3>2. conn[d].session \in Ids /\ conn[d].since \in Nat
      BY <3>1, TimeoutAssumption DEF IInv, TypeOK, Attached, Requests, Ages
    <3>3. age[conn[d].session] <= conn[d].since
      BY <3>1 DEF IInv, TouchedSince
    <3>4. age'[conn[d].session] \in Nat /\ age[conn[d].session] \in Nat
          /\ age'[conn[d].session] <= age[conn[d].session]
      BY <1>2, <3>2, TimeoutAssumption DEF IInv, TypeOK, Ages
    <3>. QED
      BY <3>1, <3>2, <3>3, <3>4
  <2>. QED
    BY <2>2, <2>3
<1>. QED
  BY <1>3, <1>4, <1>5, <1>6, <1>7, <1>8, <1>9 DEF IInv

\* The steps of a request, but for the creation of a session.
LEMMA BeginKeeps ==
  ASSUME IInv, NEW c \in Conns, NEW op \in {"login", "gui", "rest"}, Begin(c, op)
  PROVE  IInv'
<1>1. PICK cookie \in {s \in Ids : cookie_sent[s]} \cup {NoSession} :
        Become(c, [NoRequest EXCEPT !.pc = "open", !.cookie = cookie, !.op = op])
  BY DEF Begin
<1> DEFINE r == [NoRequest EXCEPT !.pc = "open", !.cookie = cookie, !.op = op]
<1>2. r \in Requests
  <2>1. NoRequest \in Requests
    BY TimeoutAssumption DEF NoRequest, Requests, Ages
  <2>. QED
    BY <2>1 DEF Requests
<1>3. r.pc = "open" /\ r.session = NoSession /\ r.cookie = cookie /\ r.granted = FALSE
  BY DEF NoRequest
<1>4. UNCHANGED <<table, data, timer>>
  BY DEF Begin
<1> HIDE DEF r
<1>5. Become(c, r)
  BY <1>1 DEF r
<1>. QED
  BY <1>2, <1>3, <1>4, <1>5, MoveKeeps DEF data

LEMMA LookupKeeps == ASSUME IInv, NEW c \in Conns, Lookup(c) PROVE IInv'
<1>1. PICK s \in Found(c) : Become(c, [conn[c] EXCEPT !.pc = "got", !.session = s])
  BY DEF Lookup
<1>2. conn[c] \in Requests
  BY DEF IInv, TypeOK
<1>3. conn[c].cookie \in Ids /\ s \in HTLookup(sessions_table, conn[c].cookie)
  BY <1>1, <1>2 DEF Found, Requests
<1>4. s = conn[c].cookie
  BY <1>3, LookupFinds DEF IInv, TableLive
<1> DEFINE r == [conn[c] EXCEPT !.pc = "got", !.session = s]
<1>5. /\ r \in Requests /\ r.pc = "got" /\ r.session = s /\ r.cookie = conn[c].cookie
      /\ r.granted = conn[c].granted
  BY <1>2, <1>3, <1>4 DEF Requests
<1>6. UNCHANGED <<table, data, timer>>
  BY DEF Lookup
<1> HIDE DEF r
<1>7. Become(c, r)
  BY <1>1 DEF r
<1>. QED
  BY <1>3, <1>4, <1>5, <1>6, <1>7, MoveKeeps DEF data

LEMMA TouchKeeps == ASSUME IInv, NEW c \in Conns, Touch(c) PROVE IInv'
<1> DEFINE r == [conn[c] EXCEPT !.pc = "attached", !.since = 0]
<1>1. conn[c] \in Requests /\ conn[c].session \in Ids /\ conn[c].pc \in {"got", "attached"}
      /\ age \in [Ids -> Ages] /\ 0 \in Ages
  BY TimeoutAssumption DEF Touch, IInv, TypeOK, Ages
<1>2. /\ r \in Requests /\ r.pc = "attached" /\ r.session = conn[c].session
      /\ r.cookie = conn[c].cookie /\ r.granted = conn[c].granted /\ r.since = 0
  BY <1>1 DEF Requests
<1>3. UNCHANGED <<table, timer>>
  BY DEF Touch, Access
<1>4. CASE state[conn[c].session] = "freed"
  BY <1>3, <1>4, SameKeeps DEF Touch, Access
<1>5. CASE state[conn[c].session] # "freed"
  <2>1. /\ age' = [age EXCEPT ![conn[c].session] = 0] /\ Become(c, r)
        /\ logged_in' = logged_in /\ cookie_sent' = cookie_sent
    BY <1>5 DEF Touch, Access
  <2> HIDE DEF r
  <2>2. age'[r.session] <= r.since
    BY <1>1, <1>2, <2>1
  <2>3. r.granted => r.cookie = r.session
    BY <1>2 DEF IInv, GateNeedsCookie
  <2>. QED
    BY <1>1, <1>2, <1>3, <2>1, <2>2, <2>3, MoveKeeps
<1>. QED
  BY <1>4, <1>5

\* A login, by a request whose session is found by its cookie or its own.
LEMMA HandleLoginKeeps == ASSUME IInv, NEW c \in Conns, HandleLogin(c) PROVE IInv'
<1> DEFINE r == [conn[c] EXCEPT !.pc = "handled", !.op = "rest"]
<1>1. conn[c] \in Requests /\ conn[c].session \in Ids /\ conn[c].pc = "attached"
  BY DEF HandleLogin, IInv, TypeOK
<1>2. /\ r \in Requests /\ r.pc = "handled" /\ r.session = conn[c].session
      /\ r.cookie = conn[c].cookie /\ r.granted = conn[c].granted /\ r.since = conn[c].since
  BY <1>1 DEF Requests
<1>3. UNCHANGED <<table, timer>>
  BY DEF HandleLogin, Access
<1>4. CASE state[conn[c].session] = "freed"
  BY <1>3, <1>4, SameKeeps DEF HandleLogin, Access
<1>5. CASE state[conn[c].session] # "freed"
  <2>1. /\ logged_in' = [logged_in EXCEPT ![conn[c].session] = TRUE] /\ Become(c, r)
        /\ age' = age /\ cookie_sent' = cookie_sent
    BY <1>5 DEF HandleLogin, Access
  <2> HIDE DEF r
  <2>2. age'[r.session] <= r.since
    BY <1>1, <1>2, <2>1 DEF IInv, TouchedSince, Attached
  <2>3. r.granted => r.cookie = r.session
    BY <1>2 DEF IInv, GateNeedsCookie
  <2>. QED
    BY <1>1, <1>2, <1>3, <2>1, <2>2, <2>3, MoveKeeps
<1>. QED
  BY <1>4, <1>5

\* check_logged_in: a session that was created for this request is not.
LEMMA HandleGuiKeeps == ASSUME IInv, NEW c \in Conns, HandleGui(c) PROVE IInv'
<1> DEFINE g == logged_in[conn[c].session]
           r == [conn[c] EXCEPT !.pc = "handled", !.op = "rest", !.granted = g]
<1>1. conn[c] \in Requests /\ conn[c].session \in Ids /\ conn[c].pc = "attached"
      /\ g \in BOOLEAN
  BY DEF HandleGui, IInv, TypeOK
<1>1a. g => conn[c].cookie = conn[c].session
  BY <1>1 DEF IInv, Private
<1> HIDE DEF g
<1>2. /\ r \in Requests /\ r.pc = "handled" /\ r.session = conn[c].session
      /\ r.cookie = conn[c].cookie /\ r.granted = g /\ r.since = conn[c].since
  BY <1>1 DEF Requests
<1>3. UNCHANGED <<table, timer>>
  BY DEF HandleGui, Access
<1>4. CASE state[conn[c].session] = "freed"
  BY <1>3, <1>4, SameKeeps DEF HandleGui, Access
<1>5. CASE state[conn[c].session] # "freed"
  <2>1. UNCHANGED data /\ Become(c, r)
    BY <1>5 DEF HandleGui, Access, g
  <2> HIDE DEF r
  <2>2. age'[r.session] <= r.since
    BY <1>1, <1>2, <2>1 DEF IInv, TouchedSince, Attached, data
  <2>3. r.granted => r.cookie = r.session
    BY <1>1a, <1>2
  <2>. QED
    BY <1>1, <1>2, <1>3, <2>1, <2>2, <2>3, MoveKeeps DEF data
<1>. QED
  BY <1>4, <1>5

LEMMA HandleRestKeeps == ASSUME IInv, NEW c \in Conns, HandleRest(c) PROVE IInv'
<1> DEFINE r == [conn[c] EXCEPT !.pc = "handled", !.op = "rest"]
<1>1. conn[c] \in Requests /\ conn[c].session \in Ids /\ conn[c].pc = "attached"
  BY DEF HandleRest, IInv, TypeOK
<1>2. /\ r \in Requests /\ r.pc = "handled" /\ r.session = conn[c].session
      /\ r.cookie = conn[c].cookie /\ r.granted = conn[c].granted /\ r.since = conn[c].since
  BY <1>1 DEF Requests
<1>3. UNCHANGED <<table, data, timer>> /\ Become(c, r)
  BY DEF HandleRest
<1> HIDE DEF r
<1>4. age'[r.session] <= r.since
  BY <1>1, <1>2, <1>3 DEF IInv, TouchedSince, Attached, data
<1>5. r.granted => r.cookie = r.session
  BY <1>2 DEF IInv, GateNeedsCookie
<1>. QED
  BY <1>1, <1>2, <1>3, <1>4, <1>5, MoveKeeps DEF data

\* The answer: from now on the cookie may come back.
LEMMA AnswerKeeps == ASSUME IInv, NEW c \in Conns, Answer(c) PROVE IInv'
<1> DEFINE r == [conn[c] EXCEPT !.pc = "answered"]
<1>1. conn[c] \in Requests /\ conn[c].session \in Ids /\ conn[c].pc = "handled"
  BY DEF Answer, IInv, TypeOK
<1>2. /\ r \in Requests /\ r.pc = "answered" /\ r.session = conn[c].session
      /\ r.cookie = conn[c].cookie /\ r.granted = conn[c].granted /\ r.since = conn[c].since
  BY <1>1 DEF Requests
<1>3. UNCHANGED <<table, timer>>
  BY DEF Answer, Access
<1>4. CASE state[conn[c].session] = "freed"
  BY <1>3, <1>4, SameKeeps DEF Answer, Access
<1>5. CASE state[conn[c].session] # "freed"
  <2>1. /\ cookie_sent' = [cookie_sent EXCEPT ![conn[c].session] = TRUE] /\ Become(c, r)
        /\ age' = age /\ logged_in' = logged_in
    BY <1>5 DEF Answer, Access
  <2> HIDE DEF r
  <2>2. age'[r.session] <= r.since
    BY <1>1, <1>2, <2>1 DEF IInv, TouchedSince, Attached
  <2>3. r.granted => r.cookie = r.session
    BY <1>2 DEF IInv, GateNeedsCookie
  <2>. QED
    BY <1>1, <1>2, <1>3, <2>1, <2>2, <2>3, MoveKeeps
<1>. QED
  BY <1>4, <1>5

LEMMA CompleteKeeps ==
  ASSUME IInv, NEW c \in Conns, Complete(c) \/ CompleteEarly(c) PROVE IInv'
<1>1. /\ NoRequest \in Requests /\ NoRequest.pc = "idle" /\ NoRequest.session = NoSession
      /\ NoRequest.cookie = NoSession /\ NoRequest.granted = FALSE
  BY TimeoutAssumption DEF NoRequest, Requests, Ages
<1>2. UNCHANGED <<table, data, timer>> /\ (conn' = conn \/ Become(c, NoRequest))
  BY DEF Complete, CompleteEarly, Access
<1>3. CASE conn' = conn
  BY <1>2, <1>3, SameKeeps
<1>4. CASE Become(c, NoRequest)
  BY <1>1, <1>2, <1>4, MoveKeeps DEF data
<1>. QED
  BY <1>2, <1>3, <1>4

-----------------------------------------------------------------------------
\* A new session: nobody else knows it.
LEMMA CreateKeeps == ASSUME IInv, NEW c \in Conns, Create(c) PROVE IInv'
<1>1. PICK s \in Fresh :
        /\ state' = [state EXCEPT ![s] = "live"]
        /\ sessions_table' = HTInsert(sessions_table, s, s)
        /\ Become(c, [conn[c] EXCEPT !.pc = "got", !.session = s])
  BY DEF Create
<1> DEFINE r == [conn[c] EXCEPT !.pc = "got", !.session = s]
<1>2. s \in Ids /\ state[s] = "unused" /\ ~logged_in[s] /\ ~cookie_sent[s]
      /\ \A d \in Conns : conn[d].session # s /\ conn[d].cookie # s
  BY <1>1 DEF Fresh, IInv, UnusedUnknown
<1>3. conn[c] \in Requests /\ conn[c].pc = "open"
  BY DEF Create, IInv, TypeOK
<1>4. /\ r \in Requests /\ r.pc = "got" /\ r.session = s /\ r.cookie = conn[c].cookie
      /\ r.granted = conn[c].granted
  BY <1>2, <1>3 DEF Requests
<1>5. Become(c, r) /\ UNCHANGED <<data, timer>> /\ ~walk.on
  BY <1>1 DEF Create
<1> HIDE DEF r
<1>6. /\ conn' \in [Conns -> Requests] /\ conn'[c] = r
      /\ \A d \in Conns : d # c => conn'[d] = conn[d]
  BY <1>4, <1>5 DEF Become, IInv, TypeOK
<1>7. TypeOK'
  BY <1>1, <1>2, <1>4, <1>5, <1>6 DEF IInv, TypeOK, data, timer
<1>8. TableLive'
  <2>1. ~Holds(sessions_table, s)
    BY <1>2 DEF IInv, TableLive
  <2>2. /\ sessions_table' \in Tables /\ SelfKeyed(sessions_table')
        /\ ChainsSound(sessions_table')
        /\ \A x : Holds(sessions_table', x) <=> Holds(sessions_table, x) \/ x = s
    BY <1>1, <1>2, <2>1, InsertHolds DEF IInv, TableLive
  <2>3. \A x \in Ids : state'[x] = "live" <=> state[x] = "live" \/ x = s
    BY <1>1 DEF IInv, TypeOK
  <2>. QED
    BY <2>2, <2>3 DEF IInv, TableLive
<1>9. DoomedVisited'
  BY <1>5 DEF IInv, DoomedVisited, InChain, timer
<1>10. UnusedUnknown'
  BY <1>1, <1>2, <1>4, <1>5, <1>6 DEF IInv, TypeOK, UnusedUnknown, data
<1>11. ASSUME NEW d \in Conns PROVE Private(d)'
  <2>1. CASE d = c
    BY <1>2, <1>4, <1>5, <1>6, <2>1 DEF Private, data
  <2>2. CASE d # c
    BY <1>2, <1>4, <1>5, <1>6, <2>2 DEF IInv, Private, data
  <2>. QED
    BY <2>1, <2>2
<1>12. ~conn[c].granted
  BY <1>3 DEF IInv, Ungranted
<1>13. GateNeedsCookie' /\ Ungranted' /\ TouchedSince'
  BY <1>4, <1>5, <1>6, <1>12
     DEF IInv, GateNeedsCookie, Ungranted, TouchedSince, Attached, data
<1>. QED
  BY <1>7, <1>8, <1>9, <1>10, <1>11, <1>13 DEF IInv

-----------------------------------------------------------------------------
\* sessions_expire.
LEMMA VisitedType ==
  ASSUME IInv, InChain
  PROVE  /\ walk.bucket \in Buckets /\ walk.place \in 1..Len(sessions_table[walk.bucket])
         /\ Visited \in Ids /\ Visited = sessions_table[walk.bucket][walk.place].key
         /\ state[Visited] = "live"
<1>1. walk.bucket \in Buckets /\ walk.place \in Nat \ {0}
  BY SizeAssumption DEF IInv, TypeOK, InChain, Buckets
<1>2. sessions_table[walk.bucket] \in Seq(Elements)
  BY <1>1 DEF IInv, TableLive, Tables
<1>3. walk.place \in 1..Len(sessions_table[walk.bucket])
  BY <1>1, <1>2 DEF InChain
<1>4. sessions_table[walk.bucket][walk.place] \in Elements
  BY <1>2, <1>3
<1>5. Visited \in Ids /\ Visited = sessions_table[walk.bucket][walk.place].key
  BY <1>1, <1>3, <1>4 DEF IInv, TableLive, SelfKeyed, Elements, Visited
<1>6. Holds(sessions_table, Visited)
  BY <1>1, <1>3, <1>5 DEF Holds
<1>. QED
  BY <1>1, <1>3, <1>5, <1>6 DEF IInv, TableLive

\* A walk that moves on changes nothing else.
LEMMA WalkKeeps ==
  ASSUME IInv, UNCHANGED <<table, data, conn>>, last_run' \in Ages,
         walk' \in [on : BOOLEAN, bucket : 0..Size, place : Nat \ {0},
                    doomed : Ids \cup {NoSession}],
         DoomedVisited'
  PROVE  IInv'
<1>1. TypeOK' /\ TableLive' /\ UnusedUnknown' /\ GateNeedsCookie' /\ Ungranted'
      /\ TouchedSince'
  BY DEF IInv, TypeOK, TableLive, UnusedUnknown, GateNeedsCookie, Ungranted, TouchedSince,
         Attached, table, data
<1>2. \A c \in Conns : Private(c)'
  BY DEF IInv, Private, data
<1>. QED
  BY <1>1, <1>2 DEF IInv

LEMMA ExpireMovesKeep ==
  ASSUME IInv, ExpireBegin \/ ExpireBucket \/ ExpireCheck \/ ExpireEnd
  PROVE  IInv'
<1> DEFINE Walks == [on : BOOLEAN, bucket : 0..Size, place : Nat \ {0},
                     doomed : Ids \cup {NoSession}]
<1>1. walk \in Walks /\ last_run \in Ages /\ 0 \in Ages
  BY TimeoutAssumption DEF IInv, TypeOK, Ages
<1>2. CASE ExpireBegin \/ ExpireEnd
  <2>1. NoWalk \in Walks /\ NoWalk.doomed = NoSession
    BY SizeAssumption DEF NoWalk
  <2>2. walk' = NoWalk \/ walk' = [NoWalk EXCEPT !.on = TRUE]
    BY <1>2 DEF ExpireBegin, ExpireEnd
  <2>3. walk'.doomed = NoSession /\ walk' \in Walks
    BY <2>1, <2>2
  <2>4. last_run' \in Ages
    BY <1>1, <1>2 DEF ExpireBegin, ExpireEnd
  <2>. QED
    BY <1>2, <2>3, <2>4, WalkKeeps DEF ExpireBegin, ExpireEnd, DoomedVisited
<1>3. CASE ExpireBucket
  <2>1. walk.doomed = NoSession
    BY <1>3 DEF ExpireBucket, IInv, DoomedVisited
  <2>2. walk' = [walk EXCEPT !.bucket = walk.bucket + 1, !.place = 1]
        /\ walk.bucket < Size
    BY <1>3 DEF ExpireBucket
  <2> DEFINE b == walk.bucket + 1
  <2>3. b \in 0..Size /\ 1 \in Nat \ {0}
    BY <1>1, <2>2, SizeAssumption
  <2>3a. walk' = [walk EXCEPT !.bucket = b, !.place = 1]
    BY <2>2
  <2> HIDE DEF b
  <2>4. walk' \in Walks /\ walk'.doomed = NoSession
    BY <1>1, <2>1, <2>3, <2>3a
  <2>. QED
    BY <1>1, <1>3, <2>4, WalkKeeps DEF ExpireBucket, DoomedVisited
<1>4. CASE ExpireCheck
  <2>1. InChain /\ walk.doomed = NoSession /\ Visited \in Ids
    BY <1>4, VisitedType DEF ExpireCheck
  <2>2. CASE walk' = [walk EXCEPT !.doomed = Visited]
    <3>1. /\ walk' \in Walks /\ walk'.doomed = Visited /\ walk'.on = walk.on
          /\ walk'.bucket = walk.bucket /\ walk'.place = walk.place
      BY <1>1, <2>1, <2>2
    <3>2. sessions_table' = sessions_table
      BY <1>4 DEF ExpireCheck, table
    <3>3. DoomedVisited'
      BY <2>1, <3>1, <3>2 DEF DoomedVisited, InChain, Visited
    <3>. QED
      BY <1>1, <1>4, <3>1, <3>3, WalkKeeps DEF ExpireCheck
  <2>3. CASE walk' = [walk EXCEPT !.place = walk.place + 1]
    <3>1. walk.place + 1 \in Nat \ {0}
      BY <1>1
    <3>2. walk' \in Walks /\ walk'.doomed = NoSession
      BY <1>1, <2>1, <2>3, <3>1
    <3>. QED
      BY <1>1, <1>4, <3>2, WalkKeeps DEF ExpireCheck, DoomedVisited
  <2>. QED
    BY <1>4, <2>2, <2>3 DEF ExpireCheck
<1>. QED
  BY <1>2, <1>3, <1>4

\* The doomed session is unlinked where the walk is, and freed.
LEMMA ExpireFreeKeeps == ASSUME IInv, ExpireFree PROVE IInv'
<1> DEFINE s == walk.doomed
<1>1. InChain /\ Visited = s
  BY DEF ExpireFree, IInv, DoomedVisited
<1>2. /\ walk.bucket \in Buckets /\ walk.place \in 1..Len(sessions_table[walk.bucket])
      /\ s \in Ids /\ s = sessions_table[walk.bucket][walk.place].key
      /\ state[s] = "live"
  BY <1>1, VisitedType
<1>3. /\ sessions_table' = HTUnlink(sessions_table, walk.bucket, walk.place)
      /\ state' = [state EXCEPT ![s] = "freed"] /\ age' = [age EXCEPT ![s] = 0]
      /\ logged_in' = [logged_in EXCEPT ![s] = FALSE]
      /\ walk' = [walk EXCEPT !.doomed = NoSession]
      /\ UNCHANGED <<cookie_sent, conn, last_run>>
  BY DEF ExpireFree
<1> HIDE DEF s
<1>4. TypeOK'
  <2>1. 0 \in Ages
    BY TimeoutAssumption DEF Ages
  <2>. QED
    BY <1>2, <1>3, <2>1 DEF IInv, TypeOK
<1>5. TableLive'
  <2>1. /\ sessions_table' \in Tables /\ SelfKeyed(sessions_table')
        /\ ChainsSound(sessions_table')
        /\ \A x : Holds(sessions_table', x) <=> Holds(sessions_table, x) /\ x # s
    BY <1>2, <1>3, UnlinkHolds DEF IInv, TableLive
  <2>2. \A x \in Ids : state'[x] = "live" <=> state[x] = "live" /\ x # s
    BY <1>3 DEF IInv, TypeOK
  <2>. QED
    BY <2>1, <2>2 DEF IInv, TableLive
<1>6. DoomedVisited'
  BY <1>3 DEF IInv, TypeOK, DoomedVisited
<1>7. \A x \in Ids : /\ state'[x] = "unused" => state[x] = "unused"
                     /\ logged_in'[x] => logged_in[x]
  BY <1>3 DEF IInv, TypeOK
<1>8. UnusedUnknown'
  BY <1>3, <1>7 DEF IInv, UnusedUnknown
<1>9. ASSUME NEW c \in Conns PROVE Private(c)'
  <2>1. conn[c].pc \in {"got", "attached", "handled"} => conn[c].session \in Ids
    BY DEF IInv, TypeOK
  <2>. QED
    BY <1>3, <1>7, <2>1 DEF IInv, Private
<1>10. GateNeedsCookie' /\ Ungranted'
  BY <1>3 DEF IInv, GateNeedsCookie, Ungranted
<1>11. TouchedSince'
  <2>1. SUFFICES ASSUME NEW c \in Conns, Attached(c)
                 PROVE  age'[conn[c].session] <= conn[c].since
    BY <1>3 DEF TouchedSince, Attached
  <2>2. conn[c].session \in Ids /\ conn[c].since \in Nat /\ age \in [Ids -> Ages]
    BY <2>1, TimeoutAssumption DEF IInv, TypeOK, Attached, Requests, Ages
  <2>3. age'[conn[c].session] = 0 \/ age'[conn[c].session] = age[conn[c].session]
    BY <1>3, <2>2
  <2>4. age[conn[c].session] <= conn[c].since
    BY <2>1 DEF IInv, TouchedSince
  <2>. QED
    BY <2>2, <2>3, <2>4
<1>. QED
  BY <1>4, <1>5, <1>6, <1>8, <1>9, <1>10, <1>11 DEF IInv

\* Time: a session gets no older than the request that touched it last.
LEMMA TickKeeps == ASSUME IInv, Tick PROVE IInv'
<1>1. /\ age \in [Ids -> Ages] /\ Ages \subseteq Nat /\ last_run \in Ages
      /\ conn \in [Conns -> Requests]
  BY TimeoutAssumption DEF IInv, TypeOK, Ages
<1>2. \A a, b \in Ages : /\ Older(a) \in Ages /\ a <= Older(a)
                         /\ a <= b => a <= Older(b) /\ Older(a) <= Older(b)
  BY TimeoutAssumption DEF Older, Ages
<1>3. age' \in [Ids -> Ages] /\ last_run' \in Ages
      /\ \A s \in Ids : age'[s] = age[s] \/ age'[s] = Older(age[s])
  BY <1>1, <1>2 DEF Tick
<1> DEFINE aged(r) == [r EXCEPT !.since = Older(r.since)]
<1>4. ASSUME NEW r \in Requests
      PROVE  /\ aged(r) \in Requests /\ aged(r).pc = r.pc
             /\ aged(r).session = r.session /\ aged(r).cookie = r.cookie
             /\ aged(r).granted = r.granted /\ aged(r).since = Older(r.since)
  <2>1. Older(r.since) \in Ages
    BY <1>2 DEF Requests
  <2>. QED
    BY <2>1 DEF Requests
<1>5. ASSUME NEW c \in Conns
      PROVE  conn'[c] = IF Attached(c) THEN aged(conn[c]) ELSE conn[c]
  BY DEF Tick
<1> HIDE DEF aged
<1>6. conn' = [c \in Conns |-> conn'[c]]
  BY DEF Tick
<1>7. /\ conn' \in [Conns -> Requests]
      /\ \A c \in Conns :
           /\ conn'[c].pc = conn[c].pc /\ conn'[c].session = conn[c].session
           /\ conn'[c].cookie = conn[c].cookie /\ conn'[c].granted = conn[c].granted
           /\ Attached(c) => conn'[c].since = Older(conn[c].since)
  BY <1>1, <1>4, <1>5, <1>6
<1>8. UNCHANGED <<table, logged_in, cookie_sent, walk>>
  BY DEF Tick
<1>9. TypeOK'
  BY <1>3, <1>7, <1>8 DEF IInv, TypeOK, table
<1>10. TableLive' /\ DoomedVisited'
  BY <1>8 DEF IInv, TableLive, DoomedVisited, InChain, Visited, table
<1>11. UnusedUnknown' /\ GateNeedsCookie' /\ Ungranted'
  BY <1>7, <1>8 DEF IInv, UnusedUnknown, GateNeedsCookie, Ungranted, table
<1>12. ASSUME NEW c \in Conns PROVE Private(c)'
  BY <1>7, <1>8 DEF IInv, Private
<1>13. TouchedSince'
  <2>1. SUFFICES ASSUME NEW c \in Conns, Attached(c)
                 PROVE  age'[conn[c].session] <= Older(conn[c].since)
    BY <1>7 DEF TouchedSince, Attached
  <2>2. conn[c].session \in Ids /\ conn[c].since \in Ages
    BY <2>1 DEF IInv, TypeOK, Attached, Requests
  <2>3. age[conn[c].session] <= conn[c].since /\ age[conn[c].session] \in Ages
    BY <1>1, <2>1, <2>2 DEF IInv, TouchedSince
  <2>. QED
    BY <1>2, <1>3, <2>2, <2>3
<1>. QED
  BY <1>9, <1>10, <1>11, <1>12, <1>13 DEF IInv

LEMMA NextInvariant == IInv /\ Next => IInv'
<1> SUFFICES ASSUME IInv, Next PROVE IInv'
  OBVIOUS
<1>1. ASSUME NEW c \in Conns, Work(c) PROVE IInv'
  BY <1>1, LookupKeeps, CreateKeeps, TouchKeeps, HandleLoginKeeps, HandleGuiKeeps,
     HandleRestKeeps, AnswerKeeps, CompleteKeeps DEF Work
<1>2. ASSUME NEW c \in Conns, NEW op \in {"login", "gui", "rest"}, Begin(c, op)
      PROVE  IInv'
  BY <1>2, BeginKeeps
<1>3. CASE Expire
  BY <1>3, ExpireMovesKeep, ExpireFreeKeeps DEF Expire
<1>4. CASE Tick
  BY <1>4, TickKeeps
<1>. QED
  BY <1>1, <1>2, <1>3, <1>4 DEF Next

\* What holds in every state.
LEMMA Invariant == Spec => []IInv
<1>1. IInv /\ UNCHANGED vars => IInv'
  BY SameKeeps DEF vars
<1>. QED
  BY <1>1, InitInvariant, NextInvariant, PTL DEF Spec

\* HT_insert and HT_iterate: no cookie leads to a freed session and none is
\* forgotten, however creations and walks follow each other.
THEOREM TableIsLive == Spec => []TableHoldsLive
<1>1. ASSUME IInv PROVE TableHoldsLive
  <2>1. /\ sessions_table \in Tables /\ SelfKeyed(sessions_table)
        /\ ChainsSound(sessions_table)
        /\ \A s \in Ids : Holds(sessions_table, s) <=> state[s] = "live"
    BY <1>1 DEF IInv, TableLive
  <2>2. ASSUME NEW s, Holds(sessions_table, s) PROVE s \in Ids
    <3>1. PICK b \in Buckets : \E i \in 1..Len(sessions_table[b]) :
                                  sessions_table[b][i].key = s
      BY <2>2 DEF Holds
    <3>2. PICK i \in 1..Len(sessions_table[b]) : sessions_table[b][i].key = s
      BY <3>1
    <3>3. sessions_table[b] \in Seq(Elements)
      BY <2>1 DEF Tables
    <3>4. sessions_table[b][i] \in Elements
      BY <3>3
    <3>. QED
      BY <3>2, <3>4 DEF Elements
  <2>3. \A s : s \in TableData(sessions_table) <=> s \in Ids /\ state[s] = "live"
    BY <2>1, <2>2, DataHeld
  <2>. QED
    BY <2>1, <2>3 DEF TableHoldsLive
<1>. QED
  BY <1>1, Invariant, PTL

\* check_logged_in: who comes without the cookie of the session is not let
\* through, though other requests log other sessions in.
THEOREM GateIsByCookie == Spec => []GateNeedsCookie
BY Invariant, PTL DEF IInv

\* expiration_call_back: what it condemns no request touched within the time-out.
THEOREM TouchedAreKept == Spec => TouchedSessionsKept
<1> DEFINE Kept == \A c \in Conns : walk'.doomed = conn[c].session
                                    /\ walk'.doomed # walk.doomed /\ Attached(c)
                      => conn[c].since > Timeout
<1>1. ASSUME IInv, [Next]_vars PROVE [Kept]_vars
  <2>1. SUFFICES ASSUME Next, NEW c \in Conns, walk'.doomed = conn[c].session,
                        walk'.doomed # walk.doomed, Attached(c)
                 PROVE  conn[c].since > Timeout
    BY <1>1
  <2>2. conn[c].session \in Ids /\ conn[c].since \in Nat
    BY <1>1, <2>1, TimeoutAssumption DEF IInv, TypeOK, Attached, Requests, Ages
  <2>3. walk'.doomed # NoSession /\ walk' # walk
    BY <2>1, <2>2, NoSessionAssumption
  <2>4. ~(\E d \in Conns : Work(d) \/ \E op \in {"login", "gui", "rest"} : Begin(d, op))
        /\ ~Tick
    BY <2>3 DEF Work, Begin, Lookup, Create, Touch, HandleLogin, HandleGui, HandleRest,
                Answer, Complete, CompleteEarly, Access, Tick, timer
  <2>5. ~(ExpireBegin \/ ExpireEnd)
    BY <2>3 DEF ExpireBegin, ExpireEnd, NoWalk
  <2>6. ~(ExpireBucket \/ ExpireFree)
    BY <1>1, <2>1, <2>3 DEF ExpireBucket, ExpireFree, IInv, TypeOK
  <2>7. ExpireCheck
    BY <2>1, <2>4, <2>5, <2>6 DEF Next, Expire
  <2>8. InChain /\ age[Visited] > Timeout /\ Visited = conn[c].session
    <3>1. walk \in [on : BOOLEAN, bucket : 0..Size, place : Nat \ {0},
                    doomed : Ids \cup {NoSession}]
      BY <1>1 DEF IInv, TypeOK
    <3>2. CASE walk' = [walk EXCEPT !.place = walk.place + 1]
      BY <2>1, <3>1, <3>2
    <3>3. CASE age[Visited] > Timeout /\ walk' = [walk EXCEPT !.doomed = Visited]
      BY <2>1, <2>7, <3>1, <3>3 DEF ExpireCheck
    <3>. QED
      BY <2>7, <3>2, <3>3 DEF ExpireCheck
  <2>9. age[conn[c].session] <= conn[c].since /\ age[conn[c].session] \in Nat
    BY <1>1, <2>1, <2>2, TimeoutAssumption DEF IInv, TypeOK, TouchedSince, Ages
  <2>. QED
    BY <2>2, <2>8, <2>9, TimeoutAssumption
<1>. QED
  BY <1>1, Invariant, PTL DEF Spec, TouchedSessionsKept

=============================================================================
