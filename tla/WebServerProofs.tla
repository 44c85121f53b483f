-------------------------- MODULE WebServerProofs --------------------------
(***************************************************************************)
(* The properties of requests for any connections, messages and texts: the *)
(* parameters found are those sent, only known requests stop the server,   *)
(* the directory is changed as asked, and uploads are saved whole.  What   *)
(* each of them excepts is in its comment in WebServer.                    *)
(***************************************************************************)
EXTENDS WebServer, WellFoundedInduction, TLAPS

Pairs == STRING \X Texts

Statuses == {"ok", "refused", "absent", "empty", "too short", "illegal", "none"}

Replies == {<< >>} \cup (Nat \X Statuses)

Info ==
  [pc : {"idle", "open", "around", "replied"}, msg : Messages \cup {<< >>},
   sent : Nat, rest : Texts \cup {Nothing}, kvs : Seq(Pairs), failed : BOOLEAN,
   null : BOOLEAN, whole : BOOLEAN, intact : BOOLEAN, reply : Replies]

Directories == [Numbers -> Aliases \cup {Blank, Absent}]

Faults == {"none", "get_key_value", "alloc_key_value", "all_digits", "get_index",
           "get_range", "search_entry_in_table"}

\* A pair of kvs has the key.
Has(kvs, key) == \E i \in 1..Len(kvs) : kvs[i][1] = key

\* What may be recorded of a value, if no value of the form was cut, or if so.
Taken(whole, v) == IF whole THEN {v} ELSE TakenFor(v)

\* What was taken for each key recorded, of a body.
Faithful(kvs, body, whole) ==
  \A key : Has(kvs, key) => Param(kvs, key) \in Taken(whole, Param(body, key))

(***************************************************************************)
(* A form that is being sent.  As long as nothing was refused every key    *)
(* sent is recorded, so that the pair that follows either comes first for  *)
(* its key or changes nothing; and what is recorded begins with the first  *)
(* pair.                                                                   *)
(***************************************************************************)
FormKept(r) ==
  LET body == r.msg.body
  IN  /\ r.sent <= Len(body)
      /\ Len(r.kvs) <= MaxParams
      /\ Faithful(r.kvs, body, r.whole)
      /\ ~r.failed =>
           /\ \A i \in 1..r.sent : Has(r.kvs, body[i][1])
           /\ r.rest # Nothing =>
                /\ r.sent < Len(body) /\ Has(r.kvs, body[r.sent + 1][1])
                /\ body[r.sent + 1][2] # Nothing
      /\ body # << >> /\ body[1][2] # Nothing =>
           r.kvs # << >> \/ (r.sent = 0 /\ r.rest = Nothing /\ ~r.failed)

\* The pieces 1 to n of an upload.
PiecesTo(tag, n) == [i \in 1..n |-> <<tag, i>>]

\* An upload that is being sent, and the files.
UploadKept(r, saved) ==
  /\ r.sent <= r.msg.pieces
  /\ r.msg.name # Nothing /\ ~r.msg.empty /\ ~r.failed /\ r.intact /\ r.sent > 0
       => saved[r.msg.name] = PiecesTo(r.msg.tag, r.sent)

ConnOK(c, r, saved) ==
  /\ r.msg \in Clients[c] \cup {<< >>}
  /\ r.pc \in {"open", "around"} => r.msg \in Clients[c]
  /\ r.pc = "open" /\ r.msg.ctype = "form" => FormKept(r)
  /\ r.pc = "open" /\ r.msg.ctype = "multipart" => UploadKept(r, saved)
  /\ ~(r.pc = "open" /\ r.msg.ctype = "form") => r.kvs = << >>

IInv ==
  /\ conn \in [Conns -> Info]
  /\ \A c \in Conns : ConnOK(c, conn[c], files)
  /\ logged_in \in [{SessionOf[c] : c \in Conns} -> BOOLEAN]
  /\ files = [n \in Names |-> files[n]]
  /\ dir \in Directories
  /\ fault \in Faults
  /\ OnlyKnownStops

-----------------------------------------------------------------------------
\* Every set of naturals that is not empty has a least element.
LEMMA LeastNatural ==
  ASSUME NEW T, T \subseteq Nat, T # {}
  PROVE  \E x \in T : \A y \in T : x <= y
<1>1. IsWellFoundedOn(OpToRel(<, Nat), Nat)
  BY NatLessThanWellFounded
<1>2. PICK x \in T : \A y \in T : ~(<<y, x>> \in OpToRel(<, Nat))
  BY <1>1, WFMin
<1>3. \A y \in T : ~ (y < x)
  BY <1>2 DEF OpToRel
<1>4. \A y \in T : y \in Int /\ x \in Int
  OBVIOUS
<1>5. \A y \in T : x <= y
  BY <1>3, <1>4
<1>. QED
  BY <1>5

\* i is the first place of a key in a sequence of pairs.
FirstAt(kvs, key, i) ==
  /\ i \in 1..Len(kvs) /\ kvs[i][1] = key
  /\ \A j \in 1..Len(kvs) : kvs[j][1] = key => i <= j

\* get_key_value finds the value at the first place of the key.
LEMMA ParamAtFirst ==
  ASSUME NEW kvs, Len(kvs) \in Nat, NEW key, NEW i, FirstAt(kvs, key, i)
  PROVE  Param(kvs, key) = kvs[i][2]
<1> DEFINE at == {j \in 1..Len(kvs) : kvs[j][1] = key}
<1>1. i \in at /\ \A j \in at : i <= j
  BY DEF FirstAt
<1>2. \A k \in at : (\A j \in at : k <= j) => k = i
  BY <1>1
<1>3. (CHOOSE k \in at : \A j \in at : k <= j) = i
  BY <1>1, <1>2
<1>. QED
  BY <1>1, <1>3 DEF Param

\* A key that is there has a first place.
LEMMA HasFirst ==
  ASSUME NEW kvs, Len(kvs) \in Nat, NEW key, Has(kvs, key)
  PROVE  \E i \in 1..Len(kvs) : FirstAt(kvs, key, i)
<1> DEFINE at == {j \in 1..Len(kvs) : kvs[j][1] = key}
<1>1. at \subseteq Nat /\ at # {}
  BY DEF Has
<1>2. PICK i \in at : \A j \in at : i <= j
  BY <1>1, LeastNatural
<1>. QED
  BY <1>2 DEF FirstAt

\* Without the key there is no value.
LEMMA ParamAbsent ==
  ASSUME NEW kvs, NEW key, ~Has(kvs, key)
  PROVE  Param(kvs, key) = Nothing
BY DEF Param, Has

\* A pair appended is found under its key only when the key is new, and
\* disturbs no other.
LEMMA ParamAppend ==
  ASSUME NEW kvs \in Seq(Pairs), NEW k \in STRING, NEW v \in Texts
  PROVE  /\ \A key : Has(Append(kvs, <<k, v>>), key) <=> Has(kvs, key) \/ key = k
         /\ \A key : Has(kvs, key) =>
              Param(Append(kvs, <<k, v>>), key) = Param(kvs, key)
         /\ ~Has(kvs, k) => Param(Append(kvs, <<k, v>>), k) = v
<1> DEFINE pair == <<k, v>>
           more == Append(kvs, pair)
           n    == Len(kvs)
<1>0. pair \in Pairs
  BY DEF Pairs
<1> HIDE DEF pair
<1>1. /\ n \in Nat /\ Len(more) = n + 1 /\ more[n + 1] = pair
      /\ \A i \in 1..n : more[i] = kvs[i]
  BY <1>0
<1>1a. pair[1] = k /\ pair[2] = v
  BY DEF pair
<1> HIDE DEF more
<1>2. 1..Len(more) = 1..n \cup {n + 1} /\ \A i \in 1..n : i <= n + 1
  BY <1>1
<1> HIDE DEF n
<1>3. ASSUME NEW key PROVE Has(more, key) <=> Has(kvs, key) \/ key = k
  BY <1>1, <1>1a, <1>2 DEF Has, n
<1>4. ASSUME NEW key, Has(kvs, key) PROVE Param(more, key) = Param(kvs, key)
  <2>1. PICK i \in 1..n : FirstAt(kvs, key, i)
    BY <1>1, <1>4, HasFirst DEF n
  <2>2. FirstAt(more, key, i)
    BY <1>1, <1>2, <2>1 DEF FirstAt, n
  <2>3. Param(kvs, key) = kvs[i][2] /\ Param(more, key) = more[i][2]
    BY <1>1, <2>1, <2>2, ParamAtFirst DEF n
  <2>. QED
    BY <1>1, <2>1, <2>3
<1>5. ASSUME ~Has(kvs, k) PROVE Param(more, k) = v
  <2>0. \A j \in 1..n : kvs[j][1] # k
    BY <1>5 DEF Has, n
  <2>1. \A j \in 1..n : more[j][1] # k
    BY <1>1, <2>0
  <2>1a. n + 1 \in 1..Len(more) /\ more[n + 1][1] = k
    BY <1>1, <1>1a, <1>2
  <2>1b. ASSUME NEW j \in 1..Len(more), more[j][1] = k PROVE n + 1 <= j
    <3>1. j = n + 1
      BY <1>2, <2>1, <2>1b
    <3>. QED
      BY <1>1, <3>1
  <2>2. FirstAt(more, k, n + 1)
    BY <2>1a, <2>1b DEF FirstAt
  <2>3. Len(more) \in Nat
    BY <1>1
  <2>4. Param(more, k) = more[n + 1][2]
    BY <2>2, <2>3, ParamAtFirst
  <2>. QED
    BY <1>1, <1>1a, <2>4
<1>. QED
  BY <1>3, <1>4, <1>5 DEF more, pair

-----------------------------------------------------------------------------
\* What is right of a form without a cut value is right of one with.
LEMMA FaithfulWeaker ==
  ASSUME NEW kvs \in Seq(Pairs), NEW body, NEW whole \in BOOLEAN, NEW later \in BOOLEAN,
         later => whole, Faithful(kvs, body, whole)
  PROVE  Faithful(kvs, body, later)
<1>1. ASSUME NEW key, Has(kvs, key), whole, ~later
      PROVE  Param(kvs, key) \in TakenFor(Param(body, key))
  <2>1. PICK i \in 1..Len(kvs) : FirstAt(kvs, key, i)
    BY <1>1, HasFirst
  <2>2. Param(kvs, key) = kvs[i][2] /\ kvs[i] \in Pairs
    BY <2>1, ParamAtFirst
  <2>3. Param(kvs, key) # Nothing
    BY <2>2, TextAssumption DEF Pairs
  <2>4. Param(body, key) = Param(kvs, key)
    BY <1>1 DEF Faithful, Taken
  <2>. QED
    BY <2>3, <2>4 DEF TakenFor
<1>. QED
  BY <1>1 DEF Faithful, Taken

\* A value recorded for the next pair of a body: it is one for that pair, or
\* its key is recorded already.
LEMMA RecordFaithful ==
  ASSUME NEW body \in Seq(STRING \X (Texts \cup {Nothing})),
         NEW kvs \in Seq(Pairs), NEW whole, Faithful(kvs, body, whole),
         NEW sent \in Nat, sent < Len(body),
         \A i \in 1..sent : Has(kvs, body[i][1]),
         NEW v \in Texts,
         v \in Taken(whole, body[sent + 1][2]) \/ Has(kvs, body[sent + 1][1])
  PROVE  /\ Append(kvs, <<body[sent + 1][1], v>>) \in Seq(Pairs)
         /\ Len(Append(kvs, <<body[sent + 1][1], v>>)) = Len(kvs) + 1
         /\ Faithful(Append(kvs, <<body[sent + 1][1], v>>), body, whole)
         /\ \A i \in 1..(sent + 1) :
              Has(Append(kvs, <<body[sent + 1][1], v>>), body[i][1])
<1> DEFINE k    == body[sent + 1][1]
           val  == body[sent + 1][2]
           pair == <<k, v>>
           more == Append(kvs, pair)
<1>1. sent + 1 \in 1..Len(body) /\ Len(body) \in Nat
  OBVIOUS
<1>2. k \in STRING
  BY <1>1
<1>3. v \in Taken(whole, val) \/ Has(kvs, k)
  OBVIOUS
<1>4. \A i \in 1..sent : Has(kvs, body[i][1])
  OBVIOUS
<1>5. \A i \in 1..(sent + 1) : i \in 1..sent \/ i = sent + 1
  OBVIOUS
<1> DEFINE old(i) == body[i][1]
<1>6. \A i \in 1..(sent + 1) : old(i) = body[i][1]
  OBVIOUS
<1>7. old(sent + 1) = k
  OBVIOUS
<1> HIDE DEF k, val
<1>8. pair \in Pairs
  BY <1>2 DEF Pairs
<1>9. /\ \A key : Has(more, key) <=> Has(kvs, key) \/ key = k
      /\ \A key : Has(kvs, key) => Param(more, key) = Param(kvs, key)
      /\ ~Has(kvs, k) => Param(more, k) = v
  BY <1>2, ParamAppend
<1> HIDE DEF pair
<1>10. more \in Seq(Pairs) /\ Len(more) = Len(kvs) + 1
  BY <1>8
<1> HIDE DEF more
<1>11. ASSUME ~Has(kvs, k) PROVE Param(body, k) = val
  <2>1. \A j \in 1..Len(body) : body[j][1] = k => sent + 1 <= j
    BY <1>1, <1>4, <1>11
  <2>2. FirstAt(body, k, sent + 1)
    BY <1>1, <2>1 DEF FirstAt, k
  <2>. QED
    BY <1>1, <2>2, ParamAtFirst DEF val
<1>12. Faithful(more, body, whole)
  BY <1>2, <1>3, <1>9, <1>11 DEF Faithful
<1>13. \A i \in 1..(sent + 1) : Has(more, body[i][1])
  BY <1>4, <1>5, <1>7, <1>9
<1>. QED
  BY <1>10, <1>12, <1>13 DEF more, pair, k

\* The pieces of a form: what is known of the request stays true, whatever is
\* refused and wherever a value is cut.
Piece(r, r1) ==
  LET key   == r.msg.body[r.sent + 1][1]
      value == r.msg.body[r.sent + 1][2]
      cuts  == IF value = Nothing THEN {} ELSE Cuts[value]
  IN  \/ r.failed /\ r1 = [r EXCEPT !.sent = @ + 1]
      \/ ~r.failed /\ r.rest = Nothing
           /\ r1 = [IteratePost(r, key, value) EXCEPT !.sent = @ + 1]
      \/ ~r.failed /\ r.rest = Nothing
           /\ \E cut \in cuts : r1 = [IteratePost(r, key, cut[1])
                                       EXCEPT !.rest = cut[2], !.whole = FALSE]
      \/ ~r.failed /\ r.rest # Nothing
           /\ r1 = [IteratePost(r, key, r.rest) EXCEPT !.sent = @ + 1, !.rest = Nothing]

\* What IteratePost may make of the pairs: r1 has them and the mark.
Iterated(r, r1, key, v) ==
  \/ (v = Nothing \/ Len(r.kvs) = MaxParams) /\ r1.kvs = r.kvs /\ r1.failed = TRUE
  \/ /\ v # Nothing /\ Len(r.kvs) # MaxParams
     /\ r1.kvs = Append(r.kvs, <<key, v>>) /\ r1.failed = r.failed

LEMMA IteratePostKeeps ==
  ASSUME NEW r \in Info, NEW key \in STRING, NEW v \in Texts \cup {Nothing}
  PROVE  /\ IteratePost(r, key, v) \in Info
         /\ Iterated(r, IteratePost(r, key, v), key, v)
         /\ \A f \in {"pc", "msg", "sent", "rest", "null", "whole", "intact", "reply"} :
              IteratePost(r, key, v)[f] = r[f]
<1> DEFINE more == Append(r.kvs, <<key, v>>)
<1>1. r.kvs \in Seq(Pairs)
  BY DEF Info
<1>2. CASE v = Nothing \/ Len(r.kvs) = MaxParams
  <2>1. IteratePost(r, key, v) = [r EXCEPT !.failed = TRUE]
    BY <1>2 DEF IteratePost
  <2>. QED
    BY <1>2, <2>1 DEF Info, Iterated
<1>3. CASE ~(v = Nothing \/ Len(r.kvs) = MaxParams)
  <2>1. IteratePost(r, key, v) = [r EXCEPT !.kvs = more]
    BY <1>3 DEF IteratePost
  <2>2. <<key, v>> \in Pairs
    BY <1>3 DEF Pairs
  <2>3. more \in Seq(Pairs)
    BY <1>1, <2>2
  <2> HIDE DEF more
  <2>4. /\ [r EXCEPT !.kvs = more] \in Info
        /\ [r EXCEPT !.kvs = more].kvs = more
        /\ [r EXCEPT !.kvs = more].failed = r.failed
        /\ \A f \in {"pc", "msg", "sent", "rest", "null", "whole", "intact", "reply"} :
              [r EXCEPT !.kvs = more][f] = r[f]
    BY <2>3 DEF Info
  <2>. QED
    BY <1>3, <2>1, <2>4 DEF Iterated, more
<1>. QED
  BY <1>2, <1>3

\* A value passed to iterate_post, of which a further part may follow.
LEMMA IteratedKeeps ==
  ASSUME NEW r \in Info, r.msg.body \in Seq(STRING \X (Texts \cup {Nothing})),
         FormKept(r), ~r.failed, r.sent < Len(r.msg.body),
         NEW v \in Texts \cup {Nothing},
         v = Nothing => r.msg.body[r.sent + 1][2] = Nothing,
         NEW r1 \in Info, r1.msg = r.msg, r1.whole => r.whole,
         v # Nothing => \/ v \in Taken(r1.whole, r.msg.body[r.sent + 1][2])
                        \/ Has(r.kvs, r.msg.body[r.sent + 1][1]),
         Iterated(r, r1, r.msg.body[r.sent + 1][1], v),
         \/ r1.sent = r.sent /\ r.msg.body[r.sent + 1][2] # Nothing
         \/ r1.sent = r.sent + 1 /\ r1.rest = Nothing
  PROVE  FormKept(r1)
<1> DEFINE body == r.msg.body
           kvs  == r.kvs
           sent == r.sent
           key  == body[sent + 1][1]
           more == Append(kvs, <<key, v>>)
<1>1. /\ body \in Seq(STRING \X (Texts \cup {Nothing})) /\ kvs \in Seq(Pairs)
      /\ sent \in Nat /\ sent < Len(body) /\ Len(body) \in Nat /\ Len(kvs) \in Nat
  BY DEF Info
<1>2. /\ Len(kvs) <= MaxParams /\ Faithful(kvs, body, r1.whole)
      /\ \A i \in 1..sent : Has(kvs, body[i][1])
      /\ body # << >> /\ body[1][2] # Nothing =>
           kvs # << >> \/ (sent = 0 /\ r.rest = Nothing)
  <2>1. kvs \in Seq(Pairs) /\ r.whole \in BOOLEAN /\ r1.whole \in BOOLEAN
    BY DEF Info
  <2>2. Faithful(kvs, body, r.whole)
    BY DEF FormKept
  <2>3. Faithful(kvs, body, r1.whole)
    BY <2>1, <2>2, FaithfulWeaker
  <2>. QED
    BY <2>3 DEF FormKept
<1>3. MaxParams \in Nat \ {0}
  BY CountAssumption
<1>4. r1.msg.body = body
  OBVIOUS
<1>5. v # Nothing => v \in Taken(r1.whole, body[sent + 1][2]) \/ Has(kvs, body[sent + 1][1])
  OBVIOUS
<1>6. v = Nothing => body[sent + 1][2] = Nothing
  OBVIOUS
<1>7. /\ r1.sent \in Nat
      /\ \/ r1.sent = sent /\ body[sent + 1][2] # Nothing
         \/ r1.sent = sent + 1 /\ r1.rest = Nothing
  BY DEF Info
<1>8. \/ (v = Nothing \/ Len(kvs) = MaxParams) /\ r1.kvs = kvs /\ r1.failed = TRUE
      \/ v # Nothing /\ Len(kvs) # MaxParams /\ r1.kvs = more /\ r1.failed = r.failed
  BY DEF Iterated
<1> HIDE DEF body, kvs, sent
<1>9. r1.sent <= Len(body) /\ \A i \in 1..r1.sent : i \in 1..(sent + 1)
  BY <1>1, <1>7
<1>10. CASE (v = Nothing \/ Len(kvs) = MaxParams) /\ r1.kvs = kvs /\ r1.failed = TRUE
  <2>1. body # << >> /\ body[1][2] # Nothing => kvs # << >>
    <3>1. SUFFICES ASSUME body # << >>, body[1][2] # Nothing, kvs = << >> PROVE FALSE
      OBVIOUS
    <3>2. sent = 0 /\ Len(kvs) = 0
      BY <1>2, <3>1
    <3>3. v = Nothing
      BY <1>3, <1>10, <3>2
    <3>4. body[1][2] = Nothing
      BY <1>6, <3>2, <3>3
    <3>. QED
      BY <3>1, <3>4
  <2>. QED
    BY <1>2, <1>4, <1>9, <1>10, <2>1 DEF FormKept
<1>11. CASE v # Nothing /\ Len(kvs) # MaxParams /\ r1.kvs = more /\ r1.failed = r.failed
  <2>1. v \in Texts
    BY <1>11
  <2>2. /\ more \in Seq(Pairs) /\ Len(more) = Len(kvs) + 1
        /\ Faithful(more, body, r1.whole)
        /\ \A i \in 1..(sent + 1) : Has(more, body[i][1])
    BY <1>1, <1>2, <1>5, <1>11, <2>1, RecordFaithful
  <2> HIDE DEF more
  <2>3. Len(more) <= MaxParams
    BY <1>1, <1>2, <1>3, <1>11, <2>2
  <2>4. more # << >>
    BY <1>1, <2>2
  <2>5. \A i \in 1..r1.sent : Has(more, body[i][1])
    BY <1>9, <2>2
  <2>6. r1.rest # Nothing =>
          /\ r1.sent < Len(body) /\ Has(more, body[r1.sent + 1][1])
          /\ body[r1.sent + 1][2] # Nothing
    <3>1. SUFFICES ASSUME r1.rest # Nothing
                   PROVE  /\ r1.sent < Len(body) /\ Has(more, body[r1.sent + 1][1])
                          /\ body[r1.sent + 1][2] # Nothing
      OBVIOUS
    <3>2. /\ r1.sent = sent /\ sent + 1 \in 1..(sent + 1)
          /\ body[sent + 1][2] # Nothing
      BY <1>1, <1>7, <3>1
    <3>. QED
      BY <1>1, <2>2, <3>2
  <2>. QED
    BY <1>4, <1>9, <1>11, <2>2, <2>3, <2>4, <2>5, <2>6 DEF FormKept
<1>. QED
  BY <1>8, <1>10, <1>11

LEMMA PieceKeeps ==
  ASSUME NEW r \in Info, r.msg.body \in Seq(STRING \X (Texts \cup {Nothing})),
         FormKept(r), r.sent < Len(r.msg.body), NEW r1, Piece(r, r1)
  PROVE  r1 \in Info /\ r1.pc = r.pc /\ r1.msg = r.msg /\ FormKept(r1)
<1> DEFINE body  == r.msg.body
           key   == body[r.sent + 1][1]
           value == body[r.sent + 1][2]
           cuts  == IF value = Nothing THEN {} ELSE Cuts[value]
<1>1. /\ r.sent \in Nat /\ r.sent + 1 \in Nat /\ r.rest \in Texts \cup {Nothing}
      /\ r.sent + 1 \in 1..Len(body)
  BY DEF Info
<1>2. key \in STRING /\ value \in Texts \cup {Nothing}
  BY <1>1
<1>3. \A cut \in cuts : cut \in Texts \X Texts
  BY <1>2, TextAssumption
<1>4. /\ r.rest # Nothing /\ ~r.failed => Has(r.kvs, key) /\ value # Nothing
      /\ \A whole : value # Nothing => value \in Taken(whole, value)
      /\ \A cut \in cuts : cut[1] \in Taken(FALSE, value) /\ value # Nothing
  BY DEF FormKept, TakenFor, Taken
<1> HIDE DEF key, value, cuts
<1>5. \/ r.failed /\ r1 = [r EXCEPT !.sent = @ + 1]
      \/ ~r.failed /\ r.rest = Nothing
           /\ r1 = [IteratePost(r, key, value) EXCEPT !.sent = @ + 1]
      \/ ~r.failed /\ r.rest = Nothing
           /\ \E cut \in cuts : r1 = [IteratePost(r, key, cut[1])
                                       EXCEPT !.rest = cut[2], !.whole = FALSE]
      \/ ~r.failed /\ r.rest # Nothing
           /\ r1 = [IteratePost(r, key, r.rest) EXCEPT !.sent = @ + 1, !.rest = Nothing]
  BY DEF Piece, key, value, cuts
<1>6. CASE r.failed /\ r1 = [r EXCEPT !.sent = @ + 1]
  <2>1. r1 \in Info /\ r1.pc = r.pc /\ r1.msg = r.msg
    BY <1>1, <1>6 DEF Info
  <2>2. /\ r1.sent = r.sent + 1 /\ r1.kvs = r.kvs /\ r1.failed /\ r1.rest = r.rest
        /\ r1.whole = r.whole
    BY <1>6 DEF Info
  <2>3. r1.sent <= Len(body)
    BY <1>1, <2>2
  <2>. QED
    BY <1>6, <2>1, <2>2, <2>3 DEF FormKept
<1>7. ASSUME ~r.failed, NEW v \in Texts \cup {Nothing},
             v = Nothing => value = Nothing,
             \/ /\ r1 = [IteratePost(r, key, v) EXCEPT !.sent = @ + 1]
                /\ r.rest = Nothing /\ v = value
             \/ \E t \in Texts :
                  /\ r1 = [IteratePost(r, key, v) EXCEPT !.rest = t, !.whole = FALSE]
                  /\ v \in Taken(FALSE, value) /\ value # Nothing
             \/ /\ r1 = [IteratePost(r, key, v) EXCEPT !.sent = @ + 1, !.rest = Nothing]
                /\ Has(r.kvs, key)
      PROVE  r1 \in Info /\ r1.pc = r.pc /\ r1.msg = r.msg /\ FormKept(r1)
  <2> DEFINE q == IteratePost(r, key, v)
  <2>1. /\ q \in Info /\ Iterated(r, q, key, v)
        /\ \A f \in {"pc", "msg", "sent", "rest", "null", "whole", "intact", "reply"} :
             q[f] = r[f]
    BY <1>2, <1>7, IteratePostKeeps
  <2>2. \/ r1 = [q EXCEPT !.sent = @ + 1] /\ r.rest = Nothing /\ v = value
        \/ \E t \in Texts : /\ r1 = [q EXCEPT !.rest = t, !.whole = FALSE]
                            /\ v \in Taken(FALSE, value) /\ value # Nothing
        \/ r1 = [q EXCEPT !.sent = @ + 1, !.rest = Nothing] /\ Has(r.kvs, key)
    BY <1>7
  <2> HIDE DEF q
  <2>3. /\ q.pc = r.pc /\ q.msg = r.msg /\ q.sent = r.sent /\ q.rest = r.rest
        /\ q.whole = r.whole /\ r.whole \in BOOLEAN
    BY <2>1 DEF Info
  <2>4. /\ r1 \in Info /\ r1.pc = r.pc /\ r1.msg = r.msg
        /\ r1.kvs = q.kvs /\ r1.failed = q.failed
        /\ \/ r1.sent = r.sent /\ value # Nothing
           \/ r1.sent = r.sent + 1 /\ r1.rest = Nothing
        /\ r1.whole => r.whole
        /\ v # Nothing => v \in Taken(r1.whole, value) \/ Has(r.kvs, key)
    <3>1. CASE r1 = [q EXCEPT !.sent = @ + 1] /\ r.rest = Nothing /\ v = value
      BY <1>1, <1>4, <2>1, <2>3, <3>1 DEF Info
    <3>2. CASE \E t \in Texts : /\ r1 = [q EXCEPT !.rest = t, !.whole = FALSE]
                                /\ v \in Taken(FALSE, value) /\ value # Nothing
      BY <1>1, <2>1, <2>3, <3>2 DEF Info
    <3>3. CASE r1 = [q EXCEPT !.sent = @ + 1, !.rest = Nothing] /\ Has(r.kvs, key)
      BY <1>1, <2>1, <2>3, <3>3 DEF Info
    <3>. QED
      BY <2>2, <3>1, <3>2, <3>3
  <2>5. Iterated(r, r1, key, v)
    BY <2>1, <2>4 DEF Iterated
  <2>6. FormKept(r1)
    BY <1>7, <2>4, <2>5, IteratedKeeps DEF key, value
  <2>. QED
    BY <2>4, <2>6
<1>8. CASE ~r.failed /\ r.rest = Nothing
             /\ r1 = [IteratePost(r, key, value) EXCEPT !.sent = @ + 1]
  BY <1>2, <1>7, <1>8
<1>9. CASE ~r.failed /\ r.rest = Nothing
             /\ \E cut \in cuts : r1 = [IteratePost(r, key, cut[1])
                                         EXCEPT !.rest = cut[2], !.whole = FALSE]
  <2>1. PICK cut \in cuts : r1 = [IteratePost(r, key, cut[1])
                                   EXCEPT !.rest = cut[2], !.whole = FALSE]
    BY <1>9
  <2>2. cut[1] \in Texts /\ cut[2] \in Texts /\ cut[1] # Nothing
    BY <1>3, TextAssumption
  <2>3. cut[1] \in Taken(FALSE, value) /\ value # Nothing
    BY <1>4
  <2> DEFINE v == cut[1]
             t == cut[2]
  <2>4. r1 = [IteratePost(r, key, v) EXCEPT !.rest = t, !.whole = FALSE]
    BY <2>1
  <2> HIDE DEF v, t
  <2>5. v \in Texts /\ t \in Texts /\ v # Nothing /\ v \in Taken(FALSE, value)
    BY <2>2, <2>3 DEF v, t
  <2>. QED
    BY <1>7, <1>9, <2>3, <2>4, <2>5
<1>10. CASE ~r.failed /\ r.rest # Nothing
             /\ r1 = [IteratePost(r, key, r.rest) EXCEPT !.sent = @ + 1, !.rest = Nothing]
  BY <1>1, <1>4, <1>7, <1>10
<1>. QED
  BY <1>5, <1>6, <1>8, <1>9, <1>10

-----------------------------------------------------------------------------
\* One request changes, the files do not.
LEMMA OneConn ==
  ASSUME NEW f \in [Conns -> Info], NEW saved,
         \A d \in Conns : ConnOK(d, f[d], saved),
         NEW c \in Conns, NEW r \in Info, ConnOK(c, r, saved)
  PROVE  /\ [f EXCEPT ![c] = r] \in [Conns -> Info]
         /\ \A d \in Conns : ConnOK(d, [f EXCEPT ![c] = r][d], saved)
OBVIOUS

\* The pieces of an upload, appended one after the other.
LEMMA AppendPiece ==
  ASSUME NEW tag, NEW n \in Nat
  PROVE  /\ Append(PiecesTo(tag, n), <<tag, n + 1>>) = PiecesTo(tag, n + 1)
         /\ Append(<< >>, <<tag, 1>>) = PiecesTo(tag, 1)
<1> DEFINE S    == {<<tag, i>> : i \in Nat}
           p(i) == <<tag, i>>
<1>1. \A i \in Nat : p(i) \in S
  OBVIOUS
<1>2. \A k \in Nat : PiecesTo(tag, k) = [i \in 1..k |-> p(i)]
  BY DEF PiecesTo
<1> HIDE DEF p, S
<1>3. \A k \in Nat : PiecesTo(tag, k) \in Seq(S) /\ Len(PiecesTo(tag, k)) = k
  BY <1>1, <1>2
<1>4. ASSUME NEW q \in Seq(S), NEW k \in Nat, Len(q) = k, q = PiecesTo(tag, k)
      PROVE  Append(q, p(k + 1)) = PiecesTo(tag, k + 1)
  <2>1. p(k + 1) \in S /\ k + 1 \in Nat
    BY <1>1
  <2>2. /\ Append(q, p(k + 1)) \in Seq(S) /\ Len(Append(q, p(k + 1))) = k + 1
        /\ \A i \in 1..k : Append(q, p(k + 1))[i] = q[i]
        /\ Append(q, p(k + 1))[k + 1] = p(k + 1)
    BY <1>4, <2>1
  <2>3. \A i \in 1..(k + 1) : i \in 1..k \/ i = k + 1
    OBVIOUS
  <2>4. \A i \in 1..k : q[i] = p(i)
    BY <1>2, <1>4
  <2>5. \A i \in 1..(k + 1) : Append(q, p(k + 1))[i] = p(i)
    BY <2>2, <2>3, <2>4
  <2>6. Append(q, p(k + 1)) = [i \in 1..(k + 1) |-> Append(q, p(k + 1))[i]]
    BY <2>2
  <2>7. PiecesTo(tag, k + 1) = [i \in 1..(k + 1) |-> p(i)]
    BY <1>2, <2>1
  <2>. QED
    BY <2>5, <2>6, <2>7
<1>5. Append(PiecesTo(tag, n), p(n + 1)) = PiecesTo(tag, n + 1)
  BY <1>3, <1>4
<1>6. << >> \in Seq(S) /\ Len(<< >>) = 0 /\ << >> = PiecesTo(tag, 0)
  <2>1. PiecesTo(tag, 0) \in Seq(S) /\ Len(PiecesTo(tag, 0)) = 0
    BY <1>3
  <2>. QED
    BY <2>1
<1>7. Append(<< >>, p(0 + 1)) = PiecesTo(tag, 0 + 1)
  BY <1>4, <1>6
<1>8. 0 + 1 = 1
  OBVIOUS
<1>. QED
  BY <1>5, <1>7, <1>8 DEF p

\* A piece is written: the upload of c goes on or has failed, the others to
\* the same file are not intact any more.
Sharing(r, name) == r.pc = "open" /\ r.msg.ctype = "multipart" /\ r.msg.name = name

\* What a piece makes of the file, if it could be written and closed.
WrittenOf(r, saved, good, content) ==
  good => content = Append(IF r.sent = 0 THEN << >> ELSE saved[r.msg.name],
                           <<r.msg.tag, r.sent + 1>>)

\* What it makes of the requests: f before it, g after.
SavedAs(f, c, ok, intact, g) ==
  /\ ok \in BOOLEAN /\ intact \in BOOLEAN
  /\ g = [d \in Conns |->
       IF d = c THEN [f[c] EXCEPT !.sent = @ + 1, !.failed = ~ok, !.intact = @ /\ intact]
       ELSE IF Sharing(f[d], f[c].msg.name) THEN [f[d] EXCEPT !.intact = FALSE]
       ELSE f[d]]

\* A piece of the upload is to come.
Writing(r) ==
  /\ r.pc = "open" /\ r.msg.ctype = "multipart" /\ r.sent < r.msg.pieces
  /\ r.msg.name # Nothing /\ ~r.failed

\* The files before a piece, and after it.
FilesOf(saved) == saved = [n \in Names |-> saved[n]]

Overwritten(saved, name, content, saved1) == saved1 = [saved EXCEPT ![name] = content]

LEMMA SavedKeeps ==
  ASSUME NEW f \in [Conns -> Info], NEW saved, FilesOf(saved),
         \A d \in Conns : ConnOK(d, f[d], saved),
         NEW c \in Conns, Writing(f[c]),
         NEW ok, NEW intact, NEW content, WrittenOf(f[c], saved, ok /\ intact, content),
         NEW g, SavedAs(f, c, ok, intact, g),
         NEW saved1, Overwritten(saved, f[c].msg.name, content, saved1)
  PROVE  g \in [Conns -> Info] /\ \A d \in Conns : ConnOK(d, g[d], saved1)
<1> DEFINE r    == f[c]
           name == r.msg.name
           next == [saved EXCEPT ![name] = content]
           r1   == [r EXCEPT !.sent = @ + 1, !.failed = ~ok, !.intact = @ /\ intact]
<1>1. r \in Info /\ ConnOK(c, r, saved) /\ r.pc = "open" /\ r.msg.ctype = "multipart"
      /\ name # Nothing /\ ~r.failed
  BY DEF Writing
<1>2. r.msg \in Messages /\ r.msg \in Clients[c]
  BY <1>1 DEF ConnOK, Messages
<1>3. name \in Names
  BY <1>1, <1>2 DEF Names
<1>4. next[name] = content /\ \A n \in Names : n # name => next[n] = saved[n]
  BY <1>3 DEF FilesOf
<1>4a. ok /\ intact => content = Append(IF r.sent = 0 THEN << >> ELSE saved[name],
                              <<r.msg.tag, r.sent + 1>>)
  BY DEF WrittenOf
<1>5. /\ r1 \in Info /\ r1.pc = "open" /\ r1.msg = r.msg /\ r1.sent = r.sent + 1
      /\ r1.failed = ~ok /\ r1.intact = (r.intact /\ intact) /\ r1.kvs = r.kvs
      /\ r.sent \in Nat
  <2> DEFINE b   == r.intact /\ intact
             bad == ~ok
             n   == r.sent + 1
  <2>1. r1 = [r EXCEPT !.sent = n, !.failed = bad, !.intact = b]
    OBVIOUS
  <2>2. n \in Nat /\ r.sent \in Nat
    BY <1>1 DEF Info
  <2>3. b \in BOOLEAN /\ bad \in BOOLEAN
    BY DEF SavedAs
  <2> HIDE DEF b, bad, n, r1
  <2>4. /\ r1 \in Info /\ r1.pc = r.pc /\ r1.msg = r.msg /\ r1.sent = n
        /\ r1.failed = bad /\ r1.intact = b /\ r1.kvs = r.kvs
    BY <1>1, <2>1, <2>2, <2>3 DEF Info
  <2>. QED
    BY <1>1, <2>2, <2>4 DEF b, bad, n
<1>6. g[c] = r1 /\ g = [d \in Conns |-> g[d]]
  BY DEF SavedAs
<1>7. r.sent < r.msg.pieces /\ r.msg.pieces \in Nat
  BY <1>1, <1>2, MessageAssumption DEF Writing
<1> HIDE DEF r, name, next, r1
<1>8. ConnOK(c, r1, next)
  <2>1. r1.sent <= r1.msg.pieces
    BY <1>5, <1>7
  <2>2. ASSUME ok, intact, r.intact, ~r.msg.empty PROVE content = PiecesTo(r.msg.tag, r.sent + 1)
    <3>1. CASE r.sent = 0
      <4>1. content = Append(<< >>, <<r.msg.tag, 0 + 1>>)
        BY <1>4a, <2>2, <3>1
      <4>2. Append(<< >>, <<r.msg.tag, 1>>) = PiecesTo(r.msg.tag, 1) /\ 0 + 1 = 1
        BY AppendPiece
      <4>. QED
        BY <3>1, <4>1, <4>2
    <3>2. CASE r.sent # 0
      <4>1. r.sent > 0
        BY <1>5, <3>2
      <4>2. saved[name] = PiecesTo(r.msg.tag, r.sent)
        BY <1>1, <2>2, <4>1 DEF ConnOK, UploadKept, name
      <4>. QED
        BY <1>4a, <1>5, <2>2, <3>2, <4>2, AppendPiece
    <3>. QED
      BY <3>1, <3>2
  <2>3. ~r1.failed /\ r1.intact /\ ~r1.msg.empty => next[name] = PiecesTo(r1.msg.tag, r1.sent)
    BY <1>4, <1>5, <2>2
  <2>4. UploadKept(r1, next)
    BY <1>5, <2>1, <2>3 DEF UploadKept, name
  <2>. QED
    BY <1>1, <1>5, <2>4 DEF ConnOK
<1>9. ASSUME NEW d \in Conns, d # c
      PROVE  g[d] \in Info /\ ConnOK(d, g[d], next)
  <2>1. f[d] \in Info /\ ConnOK(d, f[d], saved)
    OBVIOUS
  <2>2. CASE Sharing(f[d], name)
    <3>1. g[d] = [f[d] EXCEPT !.intact = FALSE]
      BY <1>9, <2>2 DEF name, r, SavedAs
    <3>2. /\ g[d] \in Info /\ g[d].pc = f[d].pc /\ g[d].msg = f[d].msg
          /\ g[d].sent = f[d].sent /\ g[d].kvs = f[d].kvs /\ ~g[d].intact
      BY <2>1, <3>1 DEF Info
    <3>. QED
      BY <2>1, <2>2, <3>2 DEF ConnOK, UploadKept, Sharing
  <2>3. CASE ~Sharing(f[d], name)
    <3>1. g[d] = f[d]
      BY <1>9, <2>3 DEF name, r, SavedAs
    <3>2. ASSUME f[d].pc = "open", f[d].msg.ctype = "multipart", f[d].msg.name # Nothing
          PROVE  next[f[d].msg.name] = saved[f[d].msg.name]
      <4>1. f[d].msg \in Messages
        BY <2>1, <3>2 DEF ConnOK, Messages
      <4>2. f[d].msg.name \in Names /\ f[d].msg.name # name
        BY <2>3, <3>2, <4>1 DEF Names, Sharing
      <4>. QED
        BY <1>4, <4>2
    <3>3. f[d].pc = "open" /\ f[d].msg.ctype = "multipart" => UploadKept(f[d], next)
      BY <2>1, <3>2 DEF ConnOK, UploadKept
    <3>. QED
      BY <2>1, <3>1, <3>3 DEF ConnOK
  <2>. QED
    BY <2>2, <2>3
<1>10. g \in [Conns -> Info]
  <2>1. \A d \in Conns : g[d] \in Info
    BY <1>5, <1>6, <1>9
  <2>. QED
    BY <1>6, <2>1
<1>11. \A d \in Conns : ConnOK(d, g[d], next)
  BY <1>6, <1>8, <1>9
<1>. QED
  BY <1>10, <1>11 DEF next, name, r, Overwritten

-----------------------------------------------------------------------------
\* A directory in which one number is set.
LEMMA SetNumber ==
  ASSUME NEW d \in Directories, NEW n \in Numbers,
         NEW a \in Aliases \cup {Blank, Absent}
  PROVE  /\ [d EXCEPT ![n] = a] \in Directories
         /\ \A m \in Numbers : [d EXCEPT ![n] = a][m] # d[m] =>
              m = n /\ [d EXCEPT ![n] = a][m] = a
BY DEF Directories

\* A refused insert leaves a directory.
LEMMA DamagedDirectories ==
  ASSUME NEW d \in Directories, NEW n \in Numbers
  PROVE  Damaged(d, n) \subseteq Directories
<1>1. ASSUME NEW e \in Damaged(d, n) PROVE e \in Directories
  <2>1. CASE e = d
    BY <2>1
  <2>2. CASE e = [d EXCEPT ![n] = Blank]
    BY <2>2, SetNumber
  <2>3. CASE \E x \in (Aliases \cup {Blank}) \X Postfixes :
               e = [d EXCEPT ![n] = x[1], ![<<n[1], x[2]>>] = Absent]
    <3>1. PICK x \in (Aliases \cup {Blank}) \X Postfixes :
               e = [d EXCEPT ![n] = x[1], ![<<n[1], x[2]>>] = Absent]
      BY <2>3
    <3> DEFINE a    == x[1]
               last == <<n[1], x[2]>>
    <3>2. a \in Aliases \cup {Blank, Absent}
      OBVIOUS
    <3>3. last \in Numbers
      BY DEF Numbers
    <3> HIDE DEF a, last
    <3>4. e = [[d EXCEPT ![n] = a] EXCEPT ![last] = Absent]
      BY <3>1 DEF a, last
    <3> DEFINE f == [d EXCEPT ![n] = a]
    <3>5. f \in Directories
      BY <3>2, SetNumber
    <3> HIDE DEF f
    <3>6. [f EXCEPT ![last] = Absent] \in Directories
      BY <3>3, <3>5, SetNumber
    <3>. QED
      BY <3>4, <3>6 DEF f
  <2>. QED
    BY <1>1, <2>1, <2>2, <2>3 DEF Damaged
<1>. QED
  BY <1>1

\* The parts of an outcome.
LEMMA OutcomeParts ==
  \A d, status, found : /\ Outcome(d, status, found).dir = d
                        /\ Outcome(d, status, found).status = status
BY DEF Outcome

\* insert: answered ok, only the number asked for may be changed, to the alias.
LEMMA EnterDirectory ==
  ASSUME NEW d \in Directories, NEW nbr, NEW alias,
         NEW out \in Outcomes(d, [op |-> "enter", nbr |-> nbr, alias |-> alias])
  PROVE  /\ out.dir \in Directories /\ out.status \in Statuses
         /\ out.status = "ok" => \A n \in Numbers : out.dir[n] # d[n] =>
              n = <<nbr.prefix, nbr.postfix>> /\ out.dir[n] = alias
<1> DEFINE req == [op |-> "enter", nbr |-> nbr, alias |-> alias]
           key == <<nbr.prefix, nbr.postfix>>
<1>1. Outcomes(d, req) = Enter(d, req) /\ NumberOf(req) = key /\ req.alias = alias
  BY DEF Outcomes, NumberOf
<1> HIDE DEF req, key
<1>2. out \in Enter(d, req)
  BY <1>1 DEF req
<1>3. CASE key \notin Numbers
  <2>1. out = Outcome(d, "refused", {})
    BY <1>1, <1>2, <1>3 DEF Enter, Refusal
  <2>2. out.dir = d /\ out.status = "refused"
    BY <2>1, OutcomeParts
  <2>. QED
    BY <2>2 DEF Statuses
<1>4. CASE key \in Numbers /\ alias \in Aliases
  <2>1. out = Outcome([d EXCEPT ![key] = alias], "ok", {})
    BY <1>1, <1>2, <1>4 DEF Enter
  <2>2. out.dir = [d EXCEPT ![key] = alias] /\ out.status = "ok"
    BY <2>1, OutcomeParts
  <2>3. /\ out.dir \in Directories
        /\ \A m \in Numbers : out.dir[m] # d[m] => m = key /\ out.dir[m] = alias
    BY <1>4, <2>2, SetNumber
  <2>. QED
    BY <2>2, <2>3 DEF key, Statuses
<1>5. CASE key \in Numbers /\ alias \notin Aliases
  <2>1. PICK e \in Damaged(d, key) : out = Outcome(e, "refused", {})
    BY <1>1, <1>2, <1>5 DEF Enter
  <2>2. out.dir = e /\ out.status = "refused"
    BY <2>1, OutcomeParts
  <2>. QED
    BY <1>5, <2>2, DamagedDirectories DEF Statuses
<1>. QED
  BY <1>3, <1>4, <1>5

\* delete: only the number asked for may be changed, and has no alias then.
LEMMA DeleteDirectory ==
  ASSUME NEW d \in Directories, NEW nbr,
         NEW out \in Outcomes(d, [op |-> "delete", nbr |-> nbr])
  PROVE  /\ out.dir \in Directories /\ out.status \in Statuses
         /\ \A n \in Numbers : out.dir[n] # d[n] =>
              n = <<nbr.prefix, nbr.postfix>> /\ out.dir[n] = Absent
<1> DEFINE req == [op |-> "delete", nbr |-> nbr]
           key == <<nbr.prefix, nbr.postfix>>
<1>1. Outcomes(d, req) = Delete(d, req) /\ NumberOf(req) = key
  BY DEF Outcomes, NumberOf
<1> HIDE DEF req, key
<1>2. out \in Delete(d, req)
  BY <1>1 DEF req
<1>3. CASE key \in Numbers
  <2>1. out = Outcome([d EXCEPT ![key] = Absent], "ok", {})
    BY <1>1, <1>2, <1>3 DEF Delete
  <2>2. out.dir = [d EXCEPT ![key] = Absent] /\ out.status = "ok"
    BY <2>1, OutcomeParts
  <2>3. /\ out.dir \in Directories
        /\ \A m \in Numbers : out.dir[m] # d[m] => m = key /\ out.dir[m] = Absent
    BY <1>3, <2>2, SetNumber
  <2>. QED
    BY <2>2, <2>3 DEF key, Statuses
<1>4. CASE key \notin Numbers
  <2>1. out = Outcome(d, "ok", {}) \/ out = Outcome(d, "refused", {})
    BY <1>1, <1>2, <1>4 DEF Delete, Refusal
  <2>2. out.dir = d /\ out.status \in {"ok", "refused"}
    BY <2>1, OutcomeParts
  <2>. QED
    BY <2>2 DEF Statuses
<1>. QED
  BY <1>3, <1>4

\* The other calls leave the directory as it is.
Reads(nbr, keys) ==
  {[op |-> "search", nbr |-> nbr], [op |-> "block", nbr |-> nbr],
   [op |-> "range", nbr |-> nbr, keys |-> keys]}

LEMMA ReadsOnly ==
  ASSUME NEW d, NEW nbr, NEW keys, NEW req \in Reads(nbr, keys),
         NEW out \in Outcomes(d, req)
  PROVE  out.dir = d /\ out.status \in Statuses
<1>0. ASSUME NEW found, NEW status \in {"ok", "refused", "absent"},
             out = Outcome(d, status, found)
      PROVE  out.dir = d /\ out.status \in Statuses
  <2>1. out.dir = d /\ out.status = status
    BY <1>0, OutcomeParts
  <2>. QED
    BY <1>0, <2>1 DEF Statuses
<1>1. CASE req.op = "search"
  <2>1. out \in Lookup(d, req)
    BY <1>1 DEF Outcomes
  <2>2. \E found : \E status \in {"ok", "refused", "absent"} :
          out = Outcome(d, status, found)
    BY <2>1 DEF Lookup, Refusal
  <2>. QED
    BY <1>0, <2>2
<1>2. CASE req.op = "block"
  <2>1. out \in Block(d, req)
    BY <1>2 DEF Outcomes
  <2>2. \E found : \E status \in {"ok", "refused", "absent"} :
          out = Outcome(d, status, found)
    BY <2>1 DEF Block, Refusal
  <2>. QED
    BY <1>0, <2>2
<1>3. CASE req.op = "range"
  <2>1. out \in Range(d, req)
    BY <1>3 DEF Outcomes
  <2>2. \E found : \E status \in {"ok", "refused", "absent"} :
          out = Outcome(d, status, found)
    BY <2>1 DEF Range, Refusal
  <2>. QED
    BY <1>0, <2>2
<1>. QED
  BY <1>1, <1>2, <1>3 DEF Reads

-----------------------------------------------------------------------------
\* What a request may do when it is answered: be refused, log its session in,
\* or change the directory as its parameters say.
Refused(c) == \E http \in Nat, status \in Statuses : Refuse(c, http, status)

LogsIn(c) ==
  /\ logged_in' = [logged_in EXCEPT ![SessionOf[c]] = TRUE]
  /\ Reply(c, 200, "ok")
  /\ UNCHANGED <<files, fault, dir>>

NumberFor(c) == Param(conn[c].kvs, NumberKey(conn[c].msg))

AliasFor(c) == Param(conn[c].kvs, AliasKey(conn[c].msg))

Updates(c) ==
  /\ Gui(c) => LoggedIn(c)
  /\ NumberFor(c) # Nothing
  /\ \/ AliasFor(c) # Nothing /\ EnterCall(c, NumberFor(c), AliasFor(c))
     \/ NumberCall(c, "delete", NumberFor(c))

\* A call of the directory is answered, or stops the server.
Served(c, req) ==
  /\ \E out \in Outcomes(dir, req) : dir' = out.dir /\ Reply(c, 200, out.status)
  /\ UNCHANGED server

LEMMA CallEffect ==
  ASSUME NEW c, NEW req, Call(c, req)
  PROVE  \/ Served(c, req)
         \/ OutOfIndex(req) /\ Abort("get_index")
         \/ EmptyRange(dir, req) /\ Abort("get_range")
BY DEF Call, Served

LEMMA Refusals ==
  ASSUME NEW c
  PROVE  /\ Refuse(c, 400, "refused") => Refused(c)
         /\ Refuse(c, 200, "too short") => Refused(c)
         /\ Refuse(c, 200, "illegal") => Refused(c)
         /\ Refuse(c, 200, "ok") => Refused(c)
         /\ Refuse(c, 204, "ok") => Refused(c)
         /\ Refuse(c, 500, "ok") => Refused(c)
         /\ Refuse(c, 500, "empty") => Refused(c)
         /\ Refuse(c, 400, "ok") => Refused(c)
         /\ Refuse(c, 400, "empty") => Refused(c)
         /\ Refuse(c, 401, "empty") => Refused(c)
         /\ Refuse(c, 0, "none") => Refused(c)
<1>1. \A http \in Nat : \A status \in Statuses : Refuse(c, http, status) => Refused(c)
  BY DEF Refused
<1>2. 0 \in Nat /\ 200 \in Nat /\ 204 \in Nat /\ 400 \in Nat /\ 401 \in Nat /\ 500 \in Nat
  OBVIOUS
<1>3. /\ "ok" \in Statuses /\ "refused" \in Statuses /\ "too short" \in Statuses
      /\ "illegal" \in Statuses /\ "empty" \in Statuses /\ "none" \in Statuses
  BY DEF Statuses
<1>. QED
  BY <1>1, <1>2, <1>3

LEMMA ClientEffect ==
  ASSUME NEW c, ~Gui(c), NEW cmd, ClientCommand(c, cmd)
  PROVE  Refused(c) \/ Updates(c)
<1>1. NumberFor(c) = Param(conn[c].kvs, "number")
      /\ AliasFor(c) = Param(conn[c].kvs, "alias")
  BY DEF NumberFor, AliasFor, NumberKey, AliasKey, Gui
<1>2. ASSUME Insert(c) PROVE Refused(c) \/ Updates(c)
  BY <1>1, <1>2, Refusals DEF Insert, Checked, Updates
<1>3. ASSUME DeleteNumber(c) PROVE Refused(c) \/ Updates(c)
  BY <1>1, <1>3, Refusals DEF DeleteNumber, Checked, Updates
<1>4. ASSUME FileCommand(c) PROVE Refused(c)
  BY <1>4, Refusals DEF FileCommand
<1>5. Insert(c) \/ DeleteNumber(c) \/ FileCommand(c) \/ Refuse(c, 400, "refused")
  BY DEF ClientCommand
<1>. QED
  BY <1>2, <1>3, <1>4, <1>5, Refusals

LEMMA GuiEffect ==
  ASSUME NEW c, Gui(c), NEW cmd, GuiCommand(c, cmd)
  PROVE  Refused(c) \/ LogsIn(c) \/ Updates(c)
<1>1. NumberFor(c) = Param(conn[c].kvs, "[number]")
      /\ AliasFor(c) = Param(conn[c].kvs, "[alias]")
  BY DEF NumberFor, AliasFor, NumberKey, AliasKey, Gui
<1>2. ASSUME GuiUpdate(c, cmd) PROVE Refused(c) \/ Updates(c)
  BY <1>1, <1>2, Refusals DEF GuiUpdate, Updates
<1>3. ASSUME Edit(c) PROVE Refused(c)
  BY <1>3, Refusals DEF Edit
<1>4. ASSUME Login(c) PROVE Refused(c) \/ LogsIn(c)
  BY <1>4, Refusals DEF Login, LogsIn
<1>5. GuiUpdate(c, cmd) \/ Edit(c) \/ Login(c) \/ Refuse(c, 400, "refused")
  BY DEF GuiCommand
<1>. QED
  BY <1>2, <1>3, <1>4, <1>5, Refusals

\* handle_post_request.
LEMMA PostEffect ==
  ASSUME NEW c, HandlePost(c)
  PROVE  /\ conn[c].pc = "open" /\ conn[c].msg.method = "POST"
         /\ \/ /\ conn[c].msg.ctype = "multipart"
               /\ conn[c].sent = conn[c].msg.pieces
               /\ Refused(c)
            \/ /\ conn[c].msg.ctype = "form"
               /\ conn[c].sent = Len(conn[c].msg.body) /\ conn[c].kvs = << >>
               /\ Abort("get_key_value")
            \/ /\ conn[c].msg.ctype = "form"
               /\ Refused(c) \/ LogsIn(c) \/ Updates(c)
<1>1. CASE conn[c].msg.ctype = "multipart" /\ conn[c].sent = conn[c].msg.pieces
             /\ Refuse(c, 400, "ok")
  BY <1>1, Refusals DEF HandlePost
<1>2. CASE conn[c].msg.ctype = "form" /\ conn[c].sent = Len(conn[c].msg.body)
             /\ conn[c].kvs = << >> /\ Abort("get_key_value")
  BY <1>2 DEF HandlePost
<1>3. CASE conn[c].msg.ctype = "form" /\
             LET cmd == Command(c)
             IN  IF cmd = Nothing THEN Refuse(c, 400, "refused")
                 ELSE IF Gui(c) THEN GuiCommand(c, cmd) ELSE ClientCommand(c, cmd)
  <2>1. Refused(c) \/ LogsIn(c) \/ Updates(c)
    <3> DEFINE cmd == Command(c)
    <3> HIDE DEF cmd
    <3>1. \/ Refuse(c, 400, "refused")
          \/ Gui(c) /\ GuiCommand(c, cmd)
          \/ ~Gui(c) /\ ClientCommand(c, cmd)
      BY <1>3 DEF cmd
    <3>. QED
      BY <3>1, GuiEffect, ClientEffect, Refusals
  <2>. QED
    BY <1>3, <2>1 DEF HandlePost
<1>. QED
  BY <1>1, <1>2, <1>3 DEF HandlePost

\* handle_get_request.
ReadsDirectory(c) ==
  LET q == conn[c].msg.query
  IN  \/ NumberCall(c, "search", q.number)
      \/ NumberCall(c, "block", q.number)
      \/ q.cmd = "range" /\ Call(c, RangeOf(q))

LEMMA GetEffect ==
  ASSUME NEW c, HandleGet(c)
  PROVE  /\ conn[c].pc = "open" /\ conn[c].msg.method = "GET"
         /\ \/ Refused(c)
            \/ /\ conn[c].msg.query.cmd = "range" /\ conn[c].msg.query.length = Missing
               /\ Abort("all_digits")
            \/ ReadsDirectory(c)
            \/ AroundBegins(c, Nbr[conn[c].msg.query.number])
<1> DEFINE q      == conn[c].msg.query
           around == AroundBegins(c, Nbr[q.number])
           range  == Call(c, RangeOf(q))
           search == NumberCall(c, "search", q.number)
           block  == NumberCall(c, "block", q.number)
           bad    == BadQuery(q, Gui(c))
           nulled == q.length = Missing /\ Abort("all_digits")
<1>1. /\ conn[c].pc = "open" /\ conn[c].msg.method = "GET"
      /\ \/ Refuse(c, 401, "empty") \/ Refuse(c, 400, "empty")
         \/ q.cmd = "range" /\ nulled
         \/ /\ ~bad
            /\ CASE q.cmd = "alias"        -> search
                 [] q.cmd = "block"        -> block
                 [] q.cmd = "range"        -> range
                 [] q.cmd = "range_around" -> around
  BY DEF HandleGet
<1>2. ~bad => q.cmd \in {"alias", "block", "range", "range_around"}
  BY DEF BadQuery
<1>3. ReadsDirectory(c) <=> search \/ block \/ (q.cmd = "range" /\ range)
  BY DEF ReadsDirectory
<1> HIDE DEF q, around, range, search, block, bad, nulled
<1>4. \/ Refuse(c, 401, "empty") \/ Refuse(c, 400, "empty")
      \/ q.cmd = "range" /\ nulled
      \/ ReadsDirectory(c)
      \/ around
  <2>1. SUFFICES ASSUME ~bad, CASE q.cmd = "alias"        -> search
                                [] q.cmd = "block"        -> block
                                [] q.cmd = "range"        -> range
                                [] q.cmd = "range_around" -> around
                 PROVE  ReadsDirectory(c) \/ around
    BY <1>1
  <2>2. CASE q.cmd = "alias"
    BY <1>3, <2>1, <2>2
  <2>3. CASE q.cmd = "block"
    BY <1>3, <2>1, <2>3
  <2>4. CASE q.cmd = "range"
    BY <1>3, <2>1, <2>4
  <2>5. CASE q.cmd = "range_around"
    BY <2>1, <2>5
  <2>. QED
    BY <1>2, <2>1, <2>2, <2>3, <2>4, <2>5
<1>. QED
  BY <1>1, <1>4, Refusals DEF q, around, nulled

-----------------------------------------------------------------------------
\* What is kept of a request that is answered, or of none.
LEMMA NothingKept ==
  ASSUME NEW c, NEW saved
  PROVE  /\ NoRequestInfo \in Info /\ ConnOK(c, NoRequestInfo, saved)
         /\ \A http \in Nat, status \in Statuses :
              LET r == [NoRequestInfo EXCEPT !.pc = "replied", !.reply = <<http, status>>]
              IN  /\ r \in Info /\ ConnOK(c, r, saved)
                  /\ r.pc = "replied" /\ r.reply = <<http, status>>
<1>1. << >> \in Seq(Pairs)
  OBVIOUS
<1>2. NoRequestInfo \in Info
  BY <1>1 DEF NoRequestInfo, Info, Replies
<1>3. ConnOK(c, NoRequestInfo, saved)
  BY DEF ConnOK, NoRequestInfo
<1>4. ASSUME NEW http \in Nat, NEW status \in Statuses,
             NEW r, r = [NoRequestInfo EXCEPT !.pc = "replied", !.reply = <<http, status>>]
      PROVE  /\ r \in Info /\ ConnOK(c, r, saved)
             /\ r.pc = "replied" /\ r.reply = <<http, status>>
  <2> DEFINE answer == <<http, status>>
  <2>1. answer \in Replies
    BY DEF Replies
  <2> HIDE DEF answer
  <2>2. r = [NoRequestInfo EXCEPT !.pc = "replied", !.reply = answer]
    BY <1>4 DEF answer
  <2>3. /\ r \in Info /\ r.pc = "replied" /\ r.reply = answer /\ r.kvs = << >>
        /\ r.msg = << >>
    BY <1>1, <2>1, <2>2 DEF NoRequestInfo, Info
  <2>. QED
    BY <2>3 DEF ConnOK, answer
<1>. QED
  BY <1>2, <1>3, <1>4

\* The headers: a request is open with nothing of it taken, or is refused.
BeginsAs(r, msg, http) ==
  LET opened == [NoRequestInfo EXCEPT !.pc = "open", !.msg = msg]
  IN  r = opened \/ r = [opened EXCEPT !.pc = "replied", !.reply = <<http, "empty">>]

LEMMA BeginKeeps ==
  ASSUME NEW c \in Conns, NEW msg \in Clients[c], NEW saved, NEW http \in {503, 400, 500},
         NEW r, BeginsAs(r, msg, http)
  PROVE  r \in Info /\ ConnOK(c, r, saved)
<1> DEFINE opened == [NoRequestInfo EXCEPT !.pc = "open", !.msg = msg]
           answer == <<http, "empty">>
<1>1. msg \in Messages
  BY DEF Messages
<1>1a. NoRequestInfo \in Info
  BY NothingKept
<1>1b. /\ NoRequestInfo.sent = 0 /\ NoRequestInfo.rest = Nothing
       /\ NoRequestInfo.kvs = << >> /\ NoRequestInfo.failed = FALSE
  BY DEF NoRequestInfo
<1>2. /\ opened \in Info /\ opened.pc = "open" /\ opened.msg = msg /\ opened.sent = 0
      /\ opened.rest = Nothing /\ opened.kvs = << >> /\ opened.failed = FALSE
  <2>1. opened = [NoRequestInfo EXCEPT !.pc = "open", !.msg = msg]
    OBVIOUS
  <2> HIDE DEF opened
  <2>2. opened \in Info
    BY <1>1, <1>1a, <2>1 DEF Info
  <2>3. /\ opened.pc = "open" /\ opened.msg = msg
        /\ \A f \in {"sent", "rest", "kvs", "failed"} : opened[f] = NoRequestInfo[f]
    BY <1>1a, <2>1 DEF Info
  <2>. QED
    BY <1>1b, <2>2, <2>3
<1>3. answer \in Replies
  <2>1. http \in Nat /\ "empty" \in Statuses
    BY DEF Statuses
  <2>. QED
    BY <2>1 DEF Replies
<1>4. r = opened \/ r = [opened EXCEPT !.pc = "replied", !.reply = answer]
  BY DEF BeginsAs
<1> HIDE DEF opened, answer
<1>5. CASE r = opened
  <2>1. msg.ctype = "form" => FormKept(r)
    <3>1. SUFFICES ASSUME msg.ctype = "form" PROVE FormKept(r)
      OBVIOUS
    <3>2. msg.body \in Seq(STRING \X (Texts \cup {Nothing}))
      BY <1>1, <3>1, MessageAssumption
    <3>3. Len(msg.body) \in Nat /\ Len(<< >>) = 0 /\ MaxParams \in Nat
      BY <3>2, CountAssumption
    <3>4. \A i \in 1..0 : FALSE
      OBVIOUS
    <3>5. Faithful(<< >>, msg.body, r.whole)
      BY <3>3, <3>4 DEF Faithful, Has
    <3>. QED
      BY <1>2, <1>5, <3>3, <3>4, <3>5 DEF FormKept
  <2>2. msg.ctype = "multipart" => UploadKept(r, saved)
    BY <1>1, <1>2, <1>5, MessageAssumption DEF UploadKept
  <2>. QED
    BY <1>2, <1>5, <2>1, <2>2 DEF ConnOK
<1>6. CASE r = [opened EXCEPT !.pc = "replied", !.reply = answer]
  <2>1. r \in Info /\ r.pc = "replied" /\ r.msg = msg /\ r.kvs = << >>
    <3>0. opened \in Info
      BY <1>2
    <3>1. r \in Info
      BY <1>3, <1>6, <3>0 DEF Info
    <3>2. r.pc = "replied" /\ r.msg = opened.msg /\ r.kvs = opened.kvs
      BY <1>2, <1>6 DEF Info
    <3>. QED
      BY <1>2, <3>1, <3>2
  <2>. QED
    BY <2>1 DEF ConnOK
<1>. QED
  BY <1>4, <1>5, <1>6

\* A piece of a form is one of the pieces above, or its key is asserted.
LEMMA UploadPiece ==
  ASSUME conn \in [Conns -> Info], NEW c \in Conns, Upload(c)
  PROVE  LET r   == conn[c]
             nth == r.msg.body[r.sent + 1]
         IN  /\ r.pc = "open" /\ r.msg.ctype = "form" /\ r.sent < Len(r.msg.body)
             /\ \/ /\ UNCHANGED <<server, dir>> /\ Piece(r, conn'[c])
                   /\ conn' = [conn EXCEPT ![c] = conn'[c]]
                \/ /\ Abort("alloc_key_value") /\ ~r.failed
                   /\ nth[1] = Nothing /\ (nth[2] # Nothing \/ r.rest # Nothing)
<1> DEFINE r     == conn[c]
           key   == r.msg.body[r.sent + 1][1]
           value == r.msg.body[r.sent + 1][2]
           cuts  == IF value = Nothing THEN {} ELSE Cuts[value]
           stops == Abort("alloc_key_value")
           goes  == UNCHANGED <<server, dir>>
<1>1. /\ r.pc = "open" /\ r.msg.ctype = "form" /\ r.sent < Len(r.msg.body)
      /\ \/ /\ r.failed /\ goes
            /\ conn' = [conn EXCEPT ![c].sent = @ + 1]
         \/ /\ ~r.failed /\ r.rest = Nothing
            /\ \/ key = Nothing /\ value # Nothing /\ stops
               \/ /\ conn' = [conn EXCEPT ![c] = [IteratePost(r, key, value)
                                                    EXCEPT !.sent = @ + 1]]
                  /\ goes
         \/ /\ ~r.failed /\ r.rest = Nothing
            /\ \E cut \in cuts :
                 \/ key = Nothing /\ stops
                 \/ /\ conn' = [conn EXCEPT ![c] = [IteratePost(r, key, cut[1])
                                                EXCEPT !.rest = cut[2], !.whole = FALSE]]
                    /\ goes
         \/ /\ ~r.failed /\ r.rest # Nothing
            /\ \/ key = Nothing /\ stops
               \/ /\ conn' = [conn EXCEPT ![c] = [IteratePost(r, key, r.rest)
                                                EXCEPT !.sent = @ + 1, !.rest = Nothing]]
                  /\ goes
  <2> HIDE DEF r, key, value, cuts, goes, stops
  <2>1. Upload(c) <=>
          /\ r.pc = "open" /\ r.msg.method = "POST" /\ r.msg.ctype = "form"
          /\ r.sent < Len(r.msg.body)
          /\ \/ /\ r.failed
                /\ conn' = [conn EXCEPT ![c].sent = @ + 1] /\ goes
             \/ /\ ~r.failed /\ r.rest = Nothing
                /\ IF KeyAsserted(r, key, value) THEN stops
                   ELSE /\ conn' = [conn EXCEPT ![c] = [IteratePost(r, key, value)
                                                        EXCEPT !.sent = @ + 1]]
                        /\ goes
             \/ /\ ~r.failed /\ r.rest = Nothing
                /\ \E cut \in cuts :
                     IF KeyAsserted(r, key, cut[1]) THEN stops
                     ELSE /\ conn' = [conn EXCEPT ![c] = [IteratePost(r, key, cut[1])
                                                EXCEPT !.rest = cut[2], !.whole = FALSE]]
                          /\ goes
             \/ /\ ~r.failed /\ r.rest # Nothing
                /\ IF KeyAsserted(r, key, r.rest) THEN stops
                   ELSE /\ conn' = [conn EXCEPT ![c] = [IteratePost(r, key, r.rest)
                                                EXCEPT !.sent = @ + 1, !.rest = Nothing]]
                        /\ goes
    BY DEF Upload, r, key, value, cuts, goes, stops
  <2>2. /\ KeyAsserted(r, key, value) => key = Nothing /\ value # Nothing
        /\ \A v : KeyAsserted(r, key, v) => key = Nothing
    BY DEF KeyAsserted
  <2>. QED
    BY <2>1, <2>2
<1>2. ASSUME NEW q, conn' = [conn EXCEPT ![c] = q] PROVE conn'[c] = q
  BY <1>2
<1>3. CASE r.failed /\ goes /\ conn' = [conn EXCEPT ![c].sent = @ + 1]
  <2> DEFINE q == [r EXCEPT !.sent = @ + 1]
  <2>1. conn' = [conn EXCEPT ![c] = q] /\ conn'[c] = q
    BY <1>3
  <2>. QED
    BY <1>1, <1>3, <2>1 DEF Piece
<1>4. CASE ~r.failed /\ r.rest = Nothing /\ key = Nothing /\ value # Nothing /\ stops
  BY <1>1, <1>4
<1>5. CASE /\ ~r.failed /\ r.rest = Nothing /\ goes
           /\ conn' = [conn EXCEPT ![c] = [IteratePost(r, key, value)
                                                    EXCEPT !.sent = @ + 1]]
  BY <1>1, <1>2, <1>5 DEF Piece
<1>6. CASE /\ ~r.failed /\ r.rest = Nothing
           /\ \E cut \in cuts : key = Nothing /\ stops
  <2>1. value # Nothing
    BY <1>6
  <2>. QED
    BY <1>1, <1>6, <2>1
<1>7. CASE /\ ~r.failed /\ r.rest = Nothing
           /\ \E cut \in cuts :
                /\ conn' = [conn EXCEPT ![c] = [IteratePost(r, key, cut[1])
                                                EXCEPT !.rest = cut[2], !.whole = FALSE]]
                /\ goes
  BY <1>1, <1>2, <1>7 DEF Piece
<1>8. CASE ~r.failed /\ r.rest # Nothing /\ key = Nothing /\ stops
  BY <1>1, <1>8
<1>9. CASE /\ ~r.failed /\ r.rest # Nothing /\ goes
           /\ conn' = [conn EXCEPT ![c] = [IteratePost(r, key, r.rest)
                                                EXCEPT !.sent = @ + 1, !.rest = Nothing]]
  BY <1>1, <1>2, <1>9 DEF Piece
<1> HIDE DEF r, key, value, cuts, goes, stops
<1>. QED
  BY <1>1, <1>3, <1>4, <1>5, <1>6, <1>7, <1>8, <1>9

-----------------------------------------------------------------------------
\* What IInv says of the requests cn, with the files saved.
Conditions(cn, saved) ==
  /\ cn \in [Conns -> Info]
  /\ \A c \in Conns : ConnOK(c, cn[c], saved)

\* A parameter that a form gave.
LEMMA ParamTaken ==
  ASSUME NEW kvs \in Seq(Pairs), NEW body, NEW whole \in BOOLEAN,
         Faithful(kvs, body, whole), NEW key, Param(kvs, key) # Nothing
  PROVE  /\ Param(kvs, key) \in TakenFor(Param(body, key))
         /\ whole => Param(kvs, key) = Param(body, key)
<1>1. Has(kvs, key)
  BY ParamAbsent
<1>2. Faithful(kvs, body, FALSE)
  BY FaithfulWeaker
<1>. QED
  BY <1>1, <1>2 DEF Faithful, Taken

\* c sent what is known to end in this function.
StopKnown(c, function) ==
  LET r   == conn[c]
      msg == conn[c].msg
  IN  \/ /\ function = "get_key_value" /\ msg.ctype = "form"
         /\ msg.body = << >> \/ msg.body[1][2] = Nothing
      \/ /\ function = "alloc_key_value" /\ msg.ctype = "form"
         /\ \E i \in 1..Len(msg.body) : msg.body[i][1] = Nothing /\ msg.body[i][2] # Nothing
      \/ /\ function = "all_digits" /\ msg.method = "GET"
         /\ msg.query.cmd = "range" /\ msg.query.length = Missing
      \/ function = "get_index" /\ \E v \in NumbersOf(msg) : Nbr[v].prefix \in LowPrefixes
      \/ /\ function = "get_range" /\ msg.method = "GET"
         /\ msg.query.cmd = "range" /\ EmptyRange(dir, RangeOf(msg.query))
      \/ function = "search_entry_in_table" /\ r.pc = "around" /\ r.null

LEMMA StopKnownThen ==
  ASSUME NEW c, NEW function, conn' = conn, dir' = dir, fault' = function,
         StopKnown(c, function)
  PROVE  Stopping(c)'
BY DEF StopKnown, Stopping, EmptyRange, EntriesOf

LEMMA InitInvariant == Init => IInv
<1> SUFFICES ASSUME Init PROVE IInv
  OBVIOUS
<1>1. conn \in [Conns -> Info] /\ \A c \in Conns : ConnOK(c, conn[c], files)
  BY NothingKept DEF Init
<1>2. logged_in \in [{SessionOf[c] : c \in Conns} -> BOOLEAN]
  BY DEF Init
<1>3. files = [n \in Names |-> files[n]]
  BY DEF Init
<1>4. dir \in Directories
  BY DEF Init, Directories
<1>5. fault \in Faults /\ OnlyKnownStops
  BY DEF Init, OnlyKnownStops, Faults
<1>. QED
  BY <1>1, <1>2, <1>3, <1>4, <1>5 DEF IInv

\* Every step, one operation after the other.
LEMMA NextInvariant == IInv /\ Next => IInv'
<1> SUFFICES ASSUME IInv, Next PROVE IInv'
  OBVIOUS
<1>1. /\ Conditions(conn, files) /\ fault = "none" /\ dir \in Directories
      /\ logged_in \in [{SessionOf[c] : c \in Conns} -> BOOLEAN]
      /\ files = [n \in Names |-> files[n]]
  BY DEF IInv, Conditions, Next
<1>2. ASSUME Conditions(conn', files'), fault' = "none", dir' \in Directories,
             logged_in' \in [{SessionOf[c] : c \in Conns} -> BOOLEAN],
             files' = [n \in Names |-> files'[n]]
      PROVE  IInv'
  BY <1>2 DEF IInv, Conditions, OnlyKnownStops, Faults
<1>3. ASSUME NEW c \in Conns, NEW r \in Info, ConnOK(c, r, files),
             conn' = [conn EXCEPT ![c] = r], files' = files
      PROVE  Conditions(conn', files')
  BY <1>1, <1>3, OneConn DEF Conditions
<1>4. ASSUME NEW c \in Conns, NEW function \in Faults, Abort(function),
             conn[c].pc \in {"open", "around"}, StopKnown(c, function)
      PROVE  IInv'
  <2>1. /\ conn' = conn /\ files' = files /\ dir' = dir /\ logged_in' = logged_in
        /\ fault' = function
    BY <1>4 DEF Abort
  <2>2. Stopping(c)'
    BY <1>4, <2>1, StopKnownThen
  <2>3. OnlyKnownStops'
    BY <1>4, <2>1, <2>2 DEF OnlyKnownStops
  <2>. QED
    BY <2>1, <2>3 DEF IInv
<1>5. ASSUME NEW c \in Conns, NEW http \in Nat, NEW status \in Statuses,
             Reply(c, http, status)
      PROVE  files' = files => Conditions(conn', files')
  <2> DEFINE r == [NoRequestInfo EXCEPT !.pc = "replied", !.reply = <<http, status>>]
  <2>1. r \in Info /\ ConnOK(c, r, files)
    BY NothingKept
  <2>2. conn' = [conn EXCEPT ![c] = r]
    BY <1>5 DEF Reply
  <2> HIDE DEF r
  <2>. QED
    BY <1>3, <2>1, <2>2
<1>6. ASSUME NEW c \in Conns, Refused(c) PROVE IInv'
  <2>1. PICK http \in Nat, status \in Statuses : Refuse(c, http, status)
    BY <1>6 DEF Refused
  <2>2. /\ Reply(c, http, status) /\ files' = files /\ fault' = fault /\ dir' = dir
        /\ logged_in' = logged_in
    BY <2>1 DEF Refuse, server
  <2>3. Conditions(conn', files')
    BY <1>5, <2>2
  <2>. QED
    BY <1>1, <1>2, <2>2, <2>3
<1>7. ASSUME NEW c \in Conns, LogsIn(c) PROVE IInv'
  <2>1. /\ Reply(c, 200, "ok") /\ files' = files /\ fault' = fault /\ dir' = dir
        /\ logged_in' = [logged_in EXCEPT ![SessionOf[c]] = TRUE]
    BY <1>7 DEF LogsIn
  <2>2. 200 \in Nat /\ "ok" \in Statuses
    BY DEF Statuses
  <2>3. Conditions(conn', files')
    BY <1>5, <2>1, <2>2
  <2>4. logged_in' \in [{SessionOf[d] : d \in Conns} -> BOOLEAN]
    BY <1>1, <2>1
  <2>. QED
    BY <1>1, <1>2, <2>1, <2>3, <2>4
<1>8. ASSUME NEW c \in Conns, NEW req, Served(c, req),
             \A out \in Outcomes(dir, req) : out.dir \in Directories /\ out.status \in Statuses
      PROVE  IInv'
  <2>1. PICK out \in Outcomes(dir, req) : dir' = out.dir /\ Reply(c, 200, out.status)
    BY <1>8 DEF Served
  <2>2. files' = files /\ fault' = fault /\ logged_in' = logged_in
    BY <1>8 DEF Served, server
  <2>3. out.dir \in Directories /\ out.status \in Statuses /\ 200 \in Nat
    BY <1>8
  <2>4. Conditions(conn', files')
    BY <1>5, <2>1, <2>2, <2>3
  <2>. QED
    BY <1>1, <1>2, <2>1, <2>2, <2>3, <2>4
<1>8a. ASSUME NEW c \in Conns, conn[c].pc = "open", NEW v \in NumbersOf(conn[c].msg),
              NEW req, req.nbr = Nbr[v], Call(c, req),
              \A out \in Outcomes(dir, req) : out.dir \in Directories /\ out.status \in Statuses,
              EmptyRange(dir, req) => StopKnown(c, "get_range")
       PROVE  IInv'
  <2>1. CASE OutOfIndex(req) /\ Abort("get_index")
    <3>1. StopKnown(c, "get_index") /\ "get_index" \in Faults
      BY <1>8a, <2>1 DEF StopKnown, OutOfIndex, Faults
    <3>. QED
      BY <1>4, <1>8a, <2>1, <3>1
  <2>2. CASE EmptyRange(dir, req) /\ Abort("get_range")
    <3>1. "get_range" \in Faults
      BY DEF Faults
    <3>. QED
      BY <1>4, <1>8a, <2>2, <3>1
  <2>. QED
    BY <1>8, <1>8a, <2>1, <2>2, CallEffect
<1>9. ASSUME NEW c \in Conns, Updates(c), conn[c].pc = "open",
             conn[c].msg.method = "POST", conn[c].msg.ctype = "form"
      PROVE  IInv'
  <2>0. NumberFor(c) \in NumbersOf(conn[c].msg)
    <3>1. FormKept(conn[c]) /\ conn[c] \in Info
      BY <1>1, <1>9 DEF Conditions, ConnOK
    <3>2. NumberFor(c) \in TakenFor(Sent(conn[c].msg, NumberKey(conn[c].msg)))
      BY <1>9, <3>1, ParamTaken DEF FormKept, Updates, NumberFor, Sent, Info
    <3>. QED
      BY <1>9, <3>2 DEF NumbersOf
  <2>1. CASE EnterCall(c, NumberFor(c), AliasFor(c))
    <3> DEFINE nbr == Nbr[NumberFor(c)]
               req == [op |-> "enter", nbr |-> nbr, alias |-> AliasFor(c)]
    <3>1. Call(c, req) /\ req.nbr = Nbr[NumberFor(c)] /\ req.op = "enter"
      BY <2>1 DEF EnterCall
    <3>2. \A out \in Outcomes(dir, req) : out.dir \in Directories /\ out.status \in Statuses
      BY <1>1, EnterDirectory
    <3> HIDE DEF req
    <3>3. ~EmptyRange(dir, req)
      BY <3>1 DEF EmptyRange
    <3>. QED
      BY <1>8a, <1>9, <2>0, <3>1, <3>2, <3>3
  <2>2. CASE NumberCall(c, "delete", NumberFor(c))
    <3> DEFINE nbr == Nbr[NumberFor(c)]
               req == [op |-> "delete", nbr |-> nbr]
    <3>1. Call(c, req) /\ req.nbr = Nbr[NumberFor(c)] /\ req.op = "delete"
      BY <2>2 DEF NumberCall
    <3>2. \A out \in Outcomes(dir, req) : out.dir \in Directories /\ out.status \in Statuses
      BY <1>1, DeleteDirectory
    <3> HIDE DEF req
    <3>3. ~EmptyRange(dir, req)
      BY <3>1 DEF EmptyRange
    <3>. QED
      BY <1>8a, <1>9, <2>0, <3>1, <3>2, <3>3
  <2>. QED
    BY <1>9, <2>1, <2>2 DEF Updates
<1>10. ASSUME NEW c \in Conns, NEW msg \in Clients[c], Begin(c, msg) PROVE IInv'
  <2> DEFINE opened    == [NoRequestInfo EXCEPT !.pc = "open", !.msg = msg]
             refuse(h) == [opened EXCEPT !.pc = "replied", !.reply = <<h, "empty">>]
             a         == msg.url = "other"
             b         == ~a /\ msg.method = "POST" /\ msg.ctype = "none"
             p         == ~a /\ msg.method = "PUT"
             n         == ~a /\ msg.ctype = "no boundary"
             begun     == CASE a -> refuse(503)
                            [] b -> refuse(400)
                            [] p -> refuse(500)
                            [] n -> refuse(500)
                            [] OTHER -> opened
  <2>1. conn' = [conn EXCEPT ![c] = begun]
    BY <1>10 DEF Begin
  <2>2. \E http \in {503, 400, 500} : BeginsAs(begun, msg, http)
    <3>1. /\ \A h \in {503, 400, 500} : BeginsAs(refuse(h), msg, h)
          /\ BeginsAs(opened, msg, 400)
      BY DEF BeginsAs
    <3> HIDE DEF a, b, p, n, opened, refuse
    <3>2. begun \in {refuse(503), refuse(400), refuse(500), opened}
      OBVIOUS
    <3> HIDE DEF begun
    <3>. QED
      BY <3>1, <3>2
  <2> HIDE DEF begun
  <2>3. begun \in Info /\ ConnOK(c, begun, files)
    BY <2>2, BeginKeeps
  <2>4. files' = files /\ fault' = fault /\ logged_in' = logged_in /\ dir' = dir
    BY <1>10 DEF Begin, server
  <2>5. Conditions(conn', files')
    BY <1>3, <2>1, <2>3, <2>4
  <2>. QED
    BY <1>1, <1>2, <2>4, <2>5
<1>11. ASSUME NEW c \in Conns, Completed(c) PROVE IInv'
  <2>1. /\ files' = files /\ fault' = fault /\ logged_in' = logged_in /\ dir' = dir
        /\ conn' = [conn EXCEPT ![c] = NoRequestInfo]
    BY <1>11 DEF Completed, server
  <2>2. Conditions(conn', files')
    BY <1>3, <2>1, NothingKept
  <2>. QED
    BY <1>1, <1>2, <2>1, <2>2
<1>12. ASSUME NEW c \in Conns, Upload(c) PROVE IInv'
  <2> DEFINE r  == conn[c]
             r1 == conn'[c]
             nth == r.msg.body[r.sent + 1]
  <2>1. conn[c] \in Info /\ ConnOK(c, conn[c], files)
    BY <1>1 DEF Conditions
  <2>2. /\ r.pc = "open" /\ r.msg.ctype = "form" /\ r.sent < Len(r.msg.body)
        /\ \/ UNCHANGED <<server, dir>> /\ Piece(r, r1) /\ conn' = [conn EXCEPT ![c] = r1]
           \/ /\ Abort("alloc_key_value") /\ ~r.failed
              /\ nth[1] = Nothing /\ (nth[2] # Nothing \/ r.rest # Nothing)
    BY <1>1, <1>12, UploadPiece DEF Conditions
  <2>3. r.msg \in Messages /\ FormKept(r) /\ r.msg \in Clients[c]
    BY <2>1, <2>2 DEF ConnOK, Messages
  <2>4. r.msg.body \in Seq(STRING \X (Texts \cup {Nothing}))
    BY <2>2, <2>3, MessageAssumption
  <2>5. CASE UNCHANGED <<server, dir>> /\ Piece(r, r1) /\ conn' = [conn EXCEPT ![c] = r1]
    <3>1. r1 \in Info /\ r1.pc = r.pc /\ r1.msg = r.msg /\ FormKept(r1)
      BY <2>1, <2>2, <2>3, <2>4, <2>5, PieceKeeps
    <3>2. ConnOK(c, r1, files)
      BY <2>2, <2>3, <3>1 DEF ConnOK
    <3>3. files' = files /\ fault' = fault /\ logged_in' = logged_in /\ dir' = dir
      BY <2>5 DEF server
    <3>4. Conditions(conn', files')
      BY <1>3, <2>5, <3>1, <3>2, <3>3
    <3>. QED
      BY <1>1, <1>2, <3>3, <3>4
  <2>6. CASE /\ Abort("alloc_key_value") /\ ~r.failed
             /\ nth[1] = Nothing /\ (nth[2] # Nothing \/ r.rest # Nothing)
    <3>1. nth[2] # Nothing
      BY <2>3, <2>6 DEF FormKept
    <3>2. r.sent + 1 \in 1..Len(r.msg.body)
      BY <2>1, <2>2, <2>4 DEF Info
    <3>3. StopKnown(c, "alloc_key_value")
      BY <2>2, <2>6, <3>1, <3>2 DEF StopKnown
    <3>4. "alloc_key_value" \in Faults
      BY DEF Faults
    <3>. QED
      BY <1>4, <2>2, <2>6, <3>3, <3>4
  <2>. QED
    BY <2>2, <2>5, <2>6
<1>13. ASSUME NEW c \in Conns, SavePostedFile(c) PROVE IInv'
  <2> DEFINE r     == conn[c]
             name  == r.msg.name
             piece == <<r.msg.tag, r.sent + 1>>
             kept  == IF r.sent = 0 THEN << >> ELSE files[name]
  <2>1. r \in Info /\ ConnOK(c, r, files) /\ r.sent \in Nat
    BY <1>1 DEF Conditions, Info
  <2>2. /\ r.pc = "open" /\ r.msg.ctype = "multipart" /\ r.sent < r.msg.pieces
        /\ fault' = fault /\ logged_in' = logged_in /\ dir' = dir
    BY <1>13 DEF SavePostedFile
  <2>3. r.msg \in Messages /\ UploadKept(r, files) /\ r.msg \in Clients[c]
    BY <2>1, <2>2 DEF ConnOK, Messages
  <2>4. r.msg.pieces \in Nat
    BY <2>2, <2>3, MessageAssumption
  <2>5. CASE /\ r.failed \/ name = Nothing \/ r.msg.empty
             /\ conn' = [conn EXCEPT ![c].sent = @ + 1] /\ files' = files
    <3> DEFINE r1 == [r EXCEPT !.sent = @ + 1]
    <3>1. conn' = [conn EXCEPT ![c] = r1]
      BY <2>5
    <3>2. r1 \in Info
      BY <2>1 DEF Info
    <3>3. /\ r1.pc = r.pc /\ r1.msg = r.msg /\ r1.failed = r.failed /\ r1.kvs = r.kvs
          /\ r1.sent = r.sent + 1
      BY <2>1 DEF Info
    <3> HIDE DEF r, r1
    <3>4. UploadKept(r1, files)
      BY <2>1, <2>2, <2>4, <2>5, <3>3 DEF UploadKept
    <3>5. ConnOK(c, r1, files)
      BY <2>1, <2>2, <3>3, <3>4 DEF ConnOK
    <3>6. Conditions(conn', files')
      BY <1>3, <2>5, <3>1, <3>2, <3>5
    <3>. QED
      BY <1>1, <1>2, <2>2, <2>5, <3>6
  <2>6. ASSUME NEW ok \in BOOLEAN, NEW closed \in BOOLEAN, NEW content,
               Saved(c, ok, closed, content),
               ok /\ closed => content = Append(kept, piece), ~r.failed, name # Nothing
        PROVE  IInv'
    <3> DEFINE intact == closed /\ \A d \in Conns \ {c} : ~Uploading(d, name)
    <3>1. SavedAs(conn, c, ok, intact, conn') /\ files' = [files EXCEPT ![name] = content]
      BY <2>6 DEF Saved, Uploading, Sharing, SavedAs
    <3>2. intact \in BOOLEAN /\ (intact => closed)
      OBVIOUS
    <3> HIDE DEF intact
    <3>3. WrittenOf(conn[c], files, ok /\ intact, content)
      BY <2>6, <3>2 DEF WrittenOf
    <3>4. /\ FilesOf(files) /\ conn \in [Conns -> Info]
          /\ \A d \in Conns : ConnOK(d, conn[d], files)
      BY <1>1 DEF FilesOf, Conditions
    <3>5. Writing(conn[c])
      BY <2>2, <2>6 DEF Writing
    <3>6. Overwritten(files, conn[c].msg.name, content, files')
      BY <3>1 DEF Overwritten
    <3>7. conn' \in [Conns -> Info] /\ \A d \in Conns : ConnOK(d, conn'[d], files')
      BY <3>1, <3>3, <3>4, <3>5, <3>6, SavedKeeps
    <3>8. Conditions(conn', files')
      BY <3>7 DEF Conditions
    <3>9. files' = [n \in Names |-> files'[n]]
      BY <1>1, <3>1
    <3>. QED
      BY <1>1, <1>2, <2>2, <3>8, <3>9
  <2>7. \/ /\ r.failed \/ name = Nothing \/ r.msg.empty
           /\ conn' = [conn EXCEPT ![c].sent = @ + 1] /\ files' = files
        \/ /\ ~r.failed /\ name # Nothing
           /\ \/ Saved(c, TRUE, TRUE, Append(kept, piece))
              \/ Saved(c, TRUE, FALSE, kept)
              \/ Saved(c, FALSE, TRUE, kept)
              \/ Saved(c, FALSE, TRUE, files[name])
    BY <1>13 DEF SavePostedFile
  <2> HIDE DEF kept, piece, name, r
  <2>. QED
    BY <2>5, <2>6, <2>7
<1>14. ASSUME NEW c \in Conns, HandlePost(c) PROVE IInv'
  <2>1. CASE /\ conn[c].msg.ctype = "form" /\ conn[c].sent = Len(conn[c].msg.body)
             /\ conn[c].kvs = << >> /\ Abort("get_key_value")
    <3>1. conn[c].pc = "open"
      BY <1>14, PostEffect
    <3>2. conn[c].msg \in Clients[c] /\ FormKept(conn[c])
      BY <1>1, <2>1, <3>1 DEF Conditions, ConnOK
    <3>3. conn[c].msg.body \in Seq(STRING \X (Texts \cup {Nothing}))
      BY <2>1, <3>2, MessageAssumption DEF Messages
    <3>4. conn[c].msg.body = << >> \/ conn[c].msg.body[1][2] = Nothing
      BY <2>1, <3>2, <3>3 DEF FormKept
    <3>5. StopKnown(c, "get_key_value") /\ "get_key_value" \in Faults
      BY <2>1, <3>4 DEF StopKnown, Faults
    <3>. QED
      BY <1>4, <2>1, <3>1, <3>5
  <2>. QED
    BY <1>6, <1>7, <1>9, <1>14, <2>1, PostEffect
<1>15. ASSUME NEW c \in Conns, HandleGet(c) PROVE IInv'
  <2> DEFINE q == conn[c].msg.query
             v == q.number
  <2>0. conn[c].pc = "open" /\ conn[c].msg.method = "GET" /\ v \in NumbersOf(conn[c].msg)
    BY <1>15, GetEffect DEF NumbersOf
  <2>1. ASSUME ReadsDirectory(c) PROVE IInv'
    <3> DEFINE nbr    == Nbr[v]
               search == [op |-> "search", nbr |-> nbr]
               block  == [op |-> "block", nbr |-> nbr]
               range  == [op |-> "range", nbr |-> nbr, keys |-> q.length]
    <3>1. \A req \in Reads(nbr, q.length) : \A out \in Outcomes(dir, req) :
            out.dir \in Directories /\ out.status \in Statuses
      BY <1>1, ReadsOnly
    <3>2. /\ search \in Reads(nbr, q.length) /\ search.op = "search" /\ search.nbr = nbr
          /\ block \in Reads(nbr, q.length) /\ block.op = "block" /\ block.nbr = nbr
          /\ range \in Reads(nbr, q.length) /\ range.nbr = nbr /\ range = RangeOf(q)
      BY DEF Reads, RangeOf
    <3>3. Call(c, search) \/ Call(c, block) \/ (q.cmd = "range" /\ Call(c, range))
      BY <2>1 DEF ReadsDirectory, NumberCall, RangeOf
    <3> HIDE DEF search, block, range
    <3>4. ~EmptyRange(dir, search) /\ ~EmptyRange(dir, block)
      BY <3>2 DEF EmptyRange
    <3>5. q.cmd = "range" => (EmptyRange(dir, range) => StopKnown(c, "get_range"))
      BY <2>0, <3>2 DEF StopKnown
    <3>. QED
      BY <1>8a, <2>0, <3>1, <3>2, <3>3, <3>4, <3>5
  <2>2. CASE q.cmd = "range" /\ q.length = Missing /\ Abort("all_digits")
    <3>1. StopKnown(c, "all_digits") /\ "all_digits" \in Faults
      BY <2>0, <2>2 DEF StopKnown, Faults
    <3>. QED
      BY <1>4, <2>0, <2>2, <3>1
  <2>3. CASE AroundBegins(c, Nbr[v])
    <3> DEFINE nbr  == Nbr[v]
               null == \A p \in Postfixes : dir[<<nbr.prefix, p>>] = Absent
    <3>1. \/ nbr.prefix \in LowPrefixes /\ Abort("get_index")
          \/ Refuse(c, 500, "empty")
          \/ /\ conn' = [conn EXCEPT ![c].pc = "around", ![c].null = null]
             /\ UNCHANGED <<server, dir>>
      BY <2>3 DEF AroundBegins
    <3>2. CASE nbr.prefix \in LowPrefixes /\ Abort("get_index")
      <4>1. StopKnown(c, "get_index") /\ "get_index" \in Faults
        BY <2>0, <3>2 DEF StopKnown, Faults
      <4>. QED
        BY <1>4, <2>0, <3>2, <4>1
    <3>3. CASE /\ conn' = [conn EXCEPT ![c].pc = "around", ![c].null = null]
               /\ UNCHANGED <<server, dir>>
      <4>1. conn[c] \in Info /\ ConnOK(c, conn[c], files) /\ null \in BOOLEAN
        BY <1>1 DEF Conditions
      <4>2. conn[c].msg \in Clients[c] /\ conn[c].msg.ctype # "form"
        <5>1. conn[c].msg \in Clients[c]
          BY <2>0, <4>1 DEF ConnOK
        <5>. QED
          BY <2>0, <5>1, MessageAssumption DEF Messages
      <4> HIDE DEF null
      <4> DEFINE r == [conn[c] EXCEPT !.pc = "around", !.null = null]
      <4>3. r \in Info /\ r.pc = "around" /\ r.msg = conn[c].msg /\ r.kvs = conn[c].kvs
        BY <4>1 DEF Info
      <4>4. conn' = [conn EXCEPT ![c] = r]
        BY <1>1, <3>3 DEF Conditions
      <4> HIDE DEF r
      <4>5. ConnOK(c, r, files)
        BY <4>1, <4>2, <4>3 DEF ConnOK
      <4>6. files' = files /\ fault' = fault /\ logged_in' = logged_in /\ dir' = dir
        BY <3>3 DEF server
      <4>7. Conditions(conn', files')
        BY <1>3, <4>3, <4>4, <4>5, <4>6
      <4>. QED
        BY <1>1, <1>2, <4>6, <4>7
    <3>. QED
      BY <1>6, <3>1, <3>2, <3>3, Refusals
  <2>. QED
    BY <1>6, <1>15, <2>1, <2>2, <2>3, GetEffect
<1>16. ASSUME NEW c \in Conns, AroundEnds(c) PROVE IInv'
  <2>1. ASSUME NEW http \in {200, 204, 500}, Refuse(c, http, "ok") PROVE IInv'
    <3>1. http \in Nat /\ "ok" \in Statuses
      BY DEF Statuses
    <3>2. Refused(c)
      BY <2>1, <3>1 DEF Refused
    <3>. QED
      BY <1>6, <3>2
  <2>2. CASE conn[c].null /\ Abort("search_entry_in_table")
    <3>1. conn[c].pc = "around"
      BY <1>16 DEF AroundEnds
    <3>2. StopKnown(c, "search_entry_in_table") /\ "search_entry_in_table" \in Faults
      BY <2>2, <3>1 DEF StopKnown, Faults
    <3>. QED
      BY <1>4, <2>2, <3>1, <3>2
  <2>. QED
    BY <1>16, <2>1, <2>2 DEF AroundEnds
<1>17. PICK c \in Conns : \/ \E msg \in Clients[c] : Begin(c, msg)
                          \/ Upload(c) \/ SavePostedFile(c) \/ HandlePost(c)
                          \/ HandleGet(c) \/ AroundEnds(c) \/ Completed(c)
  BY DEF Next, Handle
<1>. QED
  BY <1>10, <1>11, <1>12, <1>13, <1>14, <1>15, <1>16, <1>17

\* What holds in every state.
THEOREM Invariant == Spec => []IInv
<1>1. ASSUME IInv, UNCHANGED vars PROVE IInv'
  <2>1. /\ conn' = conn /\ dir' = dir
        /\ files' = files /\ fault' = fault /\ logged_in' = logged_in
    BY <1>1 DEF vars, server
  <2>2. OnlyKnownStops' = OnlyKnownStops
    BY <2>1 DEF OnlyKnownStops, Stopping, EmptyRange
  <2>. QED
    BY <1>1, <2>1, <2>2 DEF IInv
<1>. QED
  BY <1>1, InitInvariant, NextInvariant, PTL DEF Spec

\* The types, and the bound of the array of pairs that insert_key_value keeps.
THEOREM TypesCorrect == Spec => []TypeOK
<1>1. ASSUME IInv PROVE TypeOK
  <2>1. ASSUME NEW c \in Conns
        PROVE  /\ conn[c].pc \in {"idle", "open", "around", "replied"}
               /\ conn[c].msg \in Clients[c] \cup {<< >>}
               /\ Len(conn[c].kvs) <= MaxParams
    <3>1. conn[c] \in Info /\ ConnOK(c, conn[c], files)
      BY <1>1 DEF IInv
    <3>2. conn[c].pc \in {"idle", "open", "around", "replied"}
      BY <3>1 DEF Info
    <3>3. conn[c].kvs = << >> => Len(conn[c].kvs) <= MaxParams
      BY CountAssumption
    <3>. QED
      BY <3>1, <3>2, <3>3 DEF ConnOK, FormKept
  <2>2. \A s \in DOMAIN logged_in : logged_in[s] \in BOOLEAN
    BY <1>1 DEF IInv
  <2>. QED
    BY <1>1, <2>1, <2>2 DEF IInv, TypeOK, Directories, Faults
<1>. QED
  BY <1>1, Invariant, PTL

\* iterate_post and get_key_value: the value found for a key is the one sent
\* first for it, or its first piece, however the form is cut and whatever of it
\* is refused.
THEOREM ParamsAreThoseSent == Spec => []ParamsFaithful
<1>1. ASSUME IInv PROVE ParamsFaithful
  <2>1. SUFFICES ASSUME NEW c \in Conns, NEW i \in 1..Len(conn[c].kvs)
                 PROVE  Param(conn[c].kvs, conn[c].kvs[i][1])
                          \in TakenFor(Sent(conn[c].msg, conn[c].kvs[i][1]))
    BY DEF ParamsFaithful
  <2>2. conn[c] \in Info /\ ConnOK(c, conn[c], files)
    BY <1>1 DEF IInv
  <2> DEFINE kvs == conn[c].kvs
             key == kvs[i][1]
  <2>3. kvs \in Seq(Pairs) /\ i \in 1..Len(kvs)
    BY <2>2 DEF Info
  <2>4. Has(kvs, key)
    BY <2>3 DEF Has
  <2>5. conn[c].pc = "open" /\ conn[c].msg.ctype = "form"
    <3>1. SUFFICES ASSUME kvs = << >> PROVE FALSE
      BY <2>2 DEF ConnOK
    <3>. QED
      BY <2>3, <3>1
  <2>6. Faithful(kvs, conn[c].msg.body, FALSE)
    BY <2>2, <2>3, <2>5, FaithfulWeaker DEF ConnOK, FormKept, Info
  <2>. QED
    BY <2>4, <2>6 DEF Faithful, Sent, Taken
<1>. QED
  BY <1>1, Invariant, PTL

\* The assertions of the handlers and of the index and the null pointer of
\* all_digits are met only by the requests that are known to.
THEOREM StopsKnown == Spec => []OnlyKnownStops
BY Invariant, PTL DEF IInv

-----------------------------------------------------------------------------
\* The request of c gets an answer.
LEMMA ReplySets ==
  ASSUME conn \in [Conns -> Info], NEW c \in Conns, NEW http \in Nat,
         NEW status \in Statuses, Reply(c, http, status)
  PROVE  /\ conn'[c].pc = "replied" /\ conn'[c].reply[2] = status
         /\ \A d \in Conns : d # c => conn'[d] = conn[d]
<1> DEFINE r == [NoRequestInfo EXCEPT !.pc = "replied", !.reply = <<http, status>>]
<1>1. r.pc = "replied" /\ r.reply = <<http, status>>
  BY NothingKept
<1>2. conn' = [conn EXCEPT ![c] = r]
  BY DEF Reply
<1> HIDE DEF r
<1>3. conn'[c] = r /\ \A d \in Conns : d # c => conn'[d] = conn[d]
  BY <1>2
<1>4. <<http, status>>[2] = status
  OBVIOUS
<1>. QED
  BY <1>1, <1>3, <1>4

\* The directory is changed by the forms of clients and of users who are logged
\* in, and as their parameters say.
LEMMA UpdatesInvariant == IInv /\ [Next]_vars => [UpdateStep]_vars
<1> SUFFICES ASSUME IInv, Next, dir' # dir PROVE UpdateStep
  BY DEF UpdateStep, vars
<1>1. conn \in [Conns -> Info] /\ dir \in Directories
      /\ \A c \in Conns : ConnOK(c, conn[c], files)
  BY DEF IInv
<1>0. \A function : ~Abort(function)
  BY DEF Abort
<1>2. ASSUME NEW c \in Conns
      PROVE  /\ ~Refused(c) /\ ~LogsIn(c) /\ ~Completed(c) /\ ~Upload(c)
             /\ ~SavePostedFile(c) /\ ~HandleGet(c) /\ ~AroundEnds(c)
             /\ \A msg \in Clients[c] : ~Begin(c, msg)
  <2>1. ~ReadsDirectory(c)
    <3>1. \A nbr, keys : \A req \in Reads(nbr, keys) : ~Call(c, req)
      BY <1>0, ReadsOnly, CallEffect DEF Served
    <3> DEFINE q   == conn[c].msg.query
               nbr == Nbr[q.number]
    <3>2. \A req \in Reads(nbr, q.length) : ~Call(c, req)
      BY <3>1
    <3>. QED
      BY <3>2 DEF ReadsDirectory, NumberCall, RangeOf, Reads
  <2>2. ~Refused(c) /\ ~LogsIn(c) /\ \A http, status : ~Refuse(c, http, status)
    BY DEF Refused, Refuse, LogsIn
  <2>3. \A nbr : ~AroundBegins(c, nbr)
    BY <1>0, <2>2 DEF AroundBegins
  <2>4. ~AroundEnds(c)
    BY <1>0, <2>2 DEF AroundEnds
  <2>5. ~Upload(c)
    BY <1>0, <1>1, UploadPiece
  <2>. QED
    BY <1>0, <2>1, <2>2, <2>3, <2>4, <2>5, GetEffect DEF Completed, SavePostedFile, Begin
<1>3. PICK c \in Conns : HandlePost(c)
  BY <1>2 DEF Next, Handle
<1>4. /\ conn[c].pc = "open" /\ conn[c].msg.method = "POST"
      /\ conn[c].msg.ctype = "form" /\ Updates(c)
  BY <1>0, <1>2, <1>3, PostEffect
<1> DEFINE msg  == conn[c].msg
           kvs  == conn[c].kvs
           nbr  == Nbr[NumberFor(c)]
<1>5. conn[c] \in Info /\ Faithful(kvs, msg.body, conn[c].whole)
  BY <1>1, <1>4 DEF ConnOK, FormKept
<1>6. kvs \in Seq(Pairs) /\ conn[c].whole \in BOOLEAN
  BY <1>5 DEF Info
<1>7. conn[c].whole => NumberFor(c) = Sent(msg, NumberKey(msg))
  BY <1>4, <1>5, <1>6, ParamTaken DEF Updates, NumberFor, Sent
<1>8. conn[c].whole /\ AliasFor(c) # Nothing => AliasFor(c) = Sent(msg, AliasKey(msg))
  BY <1>5, <1>6, ParamTaken DEF AliasFor, Sent
<1>9. msg.url = "gui" => LoggedIn(c)
  BY <1>4 DEF Updates, Gui
<1>10. ASSUME NEW status \in Statuses, Reply(c, 200, status),
              NEW taken, conn[c].whole => taken \in {Sent(msg, AliasKey(msg)), Absent},
              status = "ok" => \A n \in Numbers : dir'[n] # dir[n] =>
                n = <<nbr.prefix, nbr.postfix>> /\ dir'[n] = taken
       PROVE  UpdateStep
  <2>1. conn'[c].pc = "replied" /\ conn'[c].reply[2] = status
    BY <1>1, <1>10, ReplySets
  <2>2. conn[c].whole /\ status = "ok" => NumberChanged(msg) /\ AliasEntered(msg)
    <3>1. conn[c].whole => nbr = Nbr[Sent(msg, NumberKey(msg))]
      BY <1>7
    <3> HIDE DEF nbr, msg
    <3>. QED
      BY <1>10, <3>1 DEF NumberChanged, AliasEntered
  <2>. QED
    BY <1>4, <1>9, <2>1, <2>2 DEF UpdateStep
<1>11. CASE AliasFor(c) # Nothing /\ EnterCall(c, NumberFor(c), AliasFor(c))
  <2> DEFINE alias == AliasFor(c)
             req   == [op |-> "enter", nbr |-> nbr, alias |-> alias]
  <2>0. Call(c, req)
    BY <1>11 DEF EnterCall
  <2>1. PICK out \in Outcomes(dir, req) : dir' = out.dir /\ Reply(c, 200, out.status)
    <3> HIDE DEF req
    <3>. QED
      BY <1>0, <2>0, CallEffect DEF Served
  <2>2. /\ out.status \in Statuses
        /\ out.status = "ok" => \A n \in Numbers : dir'[n] # dir[n] =>
             n = <<nbr.prefix, nbr.postfix>> /\ dir'[n] = alias
    BY <1>1, <2>1, EnterDirectory
  <2>3. conn[c].whole => alias \in {Sent(msg, AliasKey(msg)), Absent}
    BY <1>8, <1>11
  <2> HIDE DEF alias, msg, nbr
  <2>. QED
    BY <1>10, <2>1, <2>2, <2>3
<1>12. CASE NumberCall(c, "delete", NumberFor(c))
  <2> DEFINE req == [op |-> "delete", nbr |-> nbr]
  <2>0. Call(c, req)
    BY <1>12 DEF NumberCall
  <2>1. PICK out \in Outcomes(dir, req) : dir' = out.dir /\ Reply(c, 200, out.status)
    <3> HIDE DEF req
    <3>. QED
      BY <1>0, <2>0, CallEffect DEF Served
  <2>2. /\ out.status \in Statuses
        /\ \A n \in Numbers : dir'[n] # dir[n] =>
             n = <<nbr.prefix, nbr.postfix>> /\ dir'[n] = Absent
    BY <1>1, <2>1, DeleteDirectory
  <2>3. conn[c].whole => Absent \in {Sent(msg, AliasKey(msg)), Absent}
    OBVIOUS
  <2> HIDE DEF msg, nbr
  <2>. QED
    BY <1>10, <2>1, <2>2, <2>3
<1>. QED
  BY <1>4, <1>11, <1>12 DEF Updates

\* handle_post_request, handle_create and handle_remove: an update is that of
\* one request, gated by the login, with the number and the alias it sent.
THEOREM UpdatesAreAsked == Spec => UpdatesAsAsked
BY Invariant, UpdatesInvariant, PTL DEF Spec, UpdatesAsAsked

-----------------------------------------------------------------------------
\* An upload is answered when all its pieces were delivered.
LEMMA UploadsInvariant == IInv /\ [Next]_vars => [UploadStep]_vars
<1> SUFFICES ASSUME IInv, Next, NEW c \in Conns,
                    conn[c].pc = "open", conn'[c].pc = "replied",
                    conn[c].msg.ctype = "multipart", conn[c].msg.name # Nothing,
                    ~conn[c].msg.empty, ~conn[c].failed, conn[c].intact
             PROVE  files[conn[c].msg.name] =
                      [i \in 1..conn[c].msg.pieces |-> <<conn[c].msg.tag, i>>]
  BY DEF UploadStep, vars
<1>1. conn \in [Conns -> Info] /\ \A d \in Conns : ConnOK(d, conn[d], files)
  BY DEF IInv
<1>2. conn[c].msg \in Messages /\ UploadKept(conn[c], files)
  BY <1>1 DEF ConnOK, Messages
<1>3. conn[c].msg.method # "GET" /\ conn[c].msg.pieces \in Nat \ {0}
  BY <1>2, MessageAssumption
<1>4. PICK d \in Conns : \/ \E msg \in Clients[d] : Begin(d, msg)
                         \/ Upload(d) \/ SavePostedFile(d) \/ HandlePost(d)
                         \/ HandleGet(d) \/ AroundEnds(d) \/ Completed(d)
  BY DEF Next, Handle
<1>5. ASSUME NEW r, conn' = [conn EXCEPT ![d] = r] PROVE d = c /\ r.pc = "replied"
  BY <1>1, <1>5
<1>5a. \A function : ~Abort(function)
  BY DEF Abort
<1>5b. ASSUME NEW http, NEW status, Reply(d, http, status) PROVE d = c
  BY <1>1, <1>5b DEF Reply
<1>6. ~ \E msg \in Clients[d] : Begin(d, msg)
  BY <1>5 DEF Begin
<1>7. ~Upload(d)
  <2>1. SUFFICES ASSUME Upload(d) PROVE FALSE
    OBVIOUS
  <2>2. conn[d].msg.ctype = "form" /\ conn' = [conn EXCEPT ![d] = conn'[d]]
    BY <1>1, <1>5a, <2>1, UploadPiece
  <2>. QED
    BY <1>5, <2>2
<1>8. ~SavePostedFile(d)
  <2>1. SUFFICES ASSUME SavePostedFile(d) PROVE FALSE
    OBVIOUS
  <2>2. conn[c] \in Info /\ conn[d] \in Info /\ conn[d].pc = "open"
    BY <1>1, <2>1 DEF SavePostedFile
  <2>3. CASE conn' = [conn EXCEPT ![d].sent = @ + 1]
    <3>1. conn'[c].pc = conn[c].pc
      BY <1>1, <2>2, <2>3 DEF Info
    <3>. QED
      BY <3>1
  <2>4. ASSUME NEW ok, NEW closed, NEW content, Saved(d, ok, closed, content) PROVE FALSE
    <3>1. conn'[c].pc = conn[c].pc
      BY <1>1, <2>2, <2>4 DEF Saved, Info
    <3>. QED
      BY <3>1
  <2>. QED
    BY <2>1, <2>3, <2>4 DEF SavePostedFile
<1>9. ~Completed(d)
  BY <1>5 DEF Completed, NoRequestInfo
<1>10. ~HandleGet(d) /\ ~AroundEnds(d)
  <2>1. SUFFICES ASSUME HandleGet(d) \/ AroundEnds(d), d # c PROVE FALSE
    BY <1>3 DEF HandleGet, AroundEnds
  <2>2. \A http, status : ~Reply(d, http, status)
    BY <1>5b, <2>1
  <2>3. \A nbr : ~AroundBegins(d, nbr)
    <3>1. SUFFICES ASSUME NEW null,
                          conn' = [conn EXCEPT ![d].pc = "around", ![d].null = null]
                   PROVE  FALSE
      BY <1>5a, <2>2 DEF AroundBegins, Refuse
    <3>2. conn'[c] = conn[c]
      BY <1>1, <2>1, <3>1
    <3>. QED
      BY <3>2
  <2>4. \A req : ~Call(d, req)
    BY <1>5a, <2>2, CallEffect DEF Served
  <2>. QED
    BY <1>5a, <2>1, <2>2, <2>3, <2>4, GetEffect
       DEF AroundEnds, Refused, Refuse, ReadsDirectory, NumberCall
<1>11. CASE HandlePost(d)
  <2>1. d = c
    <3>1. \A req : Call(d, req) => d = c
      BY <1>5a, <1>5b, CallEffect DEF Served
    <3>. QED
      BY <1>5a, <1>5b, <1>11, <3>1, PostEffect
         DEF Refused, Refuse, LogsIn, Updates, EnterCall, NumberCall
  <2>2. conn[c].sent = conn[c].msg.pieces
    BY <1>11, <2>1, PostEffect
  <2>. QED
    BY <1>2, <1>3, <2>2 DEF UploadKept, PiecesTo
<1>. QED
  BY <1>4, <1>6, <1>7, <1>8, <1>9, <1>10, <1>11

\* save_posted_file: an upload that is not empty and met no failure, reported
\* or not, nor another upload to its file leaves its pieces there, all of
\* them, in order, and nothing else.
THEOREM UploadsAreWhole == Spec => UploadsWhole
BY Invariant, UploadsInvariant, PTL DEF Spec, UploadsWhole
=============================================================================
