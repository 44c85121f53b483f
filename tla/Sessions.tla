------------------------------ MODULE Sessions ------------------------------
(***************************************************************************)
(* The HTTP sessions of sessions.c: found by cookie in a hash table, used  *)
(* by the threads of the connections (answer_to_request and                *)
(* request_completed of server.c), removed by the checkpoint thread when   *)
(* they were not accessed for a while.                                     *)
(*                                                                         *)
(* The mutex of the table covers a lookup, an insert and a whole walk of   *)
(* sessions_expire, but no access to a session.  Time is the ages of       *)
(* things, up to one more than the time-out; a walk takes less than the    *)
(* second in which the code counts.  ref_cnt has no value here, because no *)
(* code reads it; its updates are accesses to the session like others.  An *)
(* access to a freed session ends the run in fault.                        *)
(***************************************************************************)
EXTENDS HashTable

CONSTANTS
  Conns,      \* connections, a thread each
  Timeout,    \* session_time_out
  NoSession

\* A session id is a key of the table.  Ids do not repeat, and it does not
\* matter which one a new session gets: they are taken in order.
Ids == Keys

ASSUME IdsAssumption == Ids \subseteq Nat

ASSUME TimeoutAssumption == Timeout \in Nat
ASSUME NoSessionAssumption == NoSession \notin Ids

VARIABLES
  sessions_table,
  state,       \* of a session: "unused", "live" or "freed"
  age,         \* of a session: time since last_access
  logged_in, cookie_sent,
  conn,        \* what each connection is doing
  walk,        \* sessions_expire: whether it runs and where it is
  last_run,    \* time since it last ran
  fault

data == <<age, logged_in, cookie_sent>>
table == <<sessions_table, state>>
timer == <<walk, last_run>>
vars == <<table, data, conn, timer, fault>>

Ages == 0..(Timeout + 1)
Older(a) == IF a <= Timeout THEN a + 1 ELSE a

\* A request: its cookie, its session, what it asks for, whether the GUI let
\* it through, and the time since it last touched its session.
NoRequest == [pc |-> "idle", cookie |-> NoSession, session |-> NoSession,
              op |-> "rest", granted |-> FALSE, since |-> 0]

\* A walk is at a place in a bucket; doomed is what it is about to remove.
NoWalk == [on |-> FALSE, bucket |-> 0, place |-> 1, doomed |-> NoSession]

Init ==
  /\ sessions_table = HTNew
  /\ state = [s \in Ids |-> "unused"]
  /\ age = [s \in Ids |-> 0]
  /\ logged_in = [s \in Ids |-> FALSE]
  /\ cookie_sent = [s \in Ids |-> FALSE]
  /\ conn = [c \in Conns |-> NoRequest]
  /\ walk = NoWalk
  /\ last_run = 0
  /\ fault = "none"

-----------------------------------------------------------------------------
Fresh == {s \in Ids : state[s] = "unused" /\ \A r \in Ids : r < s => state[r] # "unused"}

Become(c, request) == conn' = [conn EXCEPT ![c] = request]

\* An access to the session of a request: what it does, or the fault.
Access(c, Step) ==
  /\ IF state[conn[c].session] = "freed"
     THEN fault' = "freed session used" /\ UNCHANGED <<data, conn>>
     ELSE Step /\ UNCHANGED fault
  /\ UNCHANGED <<table, timer>>

\* A request arrives, with a cookie the server once sent or without one.
Begin(c, op) ==
  /\ conn[c].pc = "idle"
  /\ \E cookie \in {s \in Ids : cookie_sent[s]} \cup {NoSession} :
       Become(c, [NoRequest EXCEPT !.pc = "open", !.cookie = cookie, !.op = op])
  /\ UNCHANGED <<table, data, timer, fault>>

\* sessions_get: the session of the cookie, if the table has it.
Found(c) == IF conn[c].cookie = NoSession THEN {}
            ELSE HTLookup(sessions_table, conn[c].cookie)

Lookup(c) ==
  /\ conn[c].pc = "open" /\ ~walk.on
  /\ \E s \in Found(c) : Become(c, [conn[c] EXCEPT !.pc = "got", !.session = s])
  /\ UNCHANGED <<table, data, timer, fault>>

\* mutant: malloc instead of calloc
CreateUncleared(c) ==
  /\ conn[c].pc = "open" /\ ~walk.on /\ Found(c) = {}
  /\ \E s \in Fresh, flag \in BOOLEAN :
       /\ state' = [state EXCEPT ![s] = "live"]
       /\ sessions_table' = HTInsert(sessions_table, s, s)
       /\ logged_in' = [logged_in EXCEPT ![s] = flag]
       /\ Become(c, [conn[c] EXCEPT !.pc = "got", !.session = s])
  /\ UNCHANGED <<age, cookie_sent, timer, fault>>

\* Or a fresh session, cleared, which is put into the table.
Create(c) ==
  /\ conn[c].pc = "open" /\ ~walk.on /\ Found(c) = {}
  /\ \E s \in Fresh :
       /\ state' = [state EXCEPT ![s] = "live"]
       /\ sessions_table' = HTInsert(sessions_table, s, s)
       /\ Become(c, [conn[c] EXCEPT !.pc = "got", !.session = s])
  /\ UNCHANGED <<data, timer, fault>>

\* mutant: last_access is only set when the session is created
TouchForgotten(c) ==
  /\ conn[c].pc \in {"got", "attached"}
  /\ Access(c, Become(c, [conn[c] EXCEPT !.pc = "attached", !.since = 0])
               /\ UNCHANGED data)

\* The session is counted and touched, by every part of an upload again.  The
\* mutex of the table has been free since the lookup.
Touch(c) ==
  /\ conn[c].pc \in {"got", "attached"}
  /\ Access(c, /\ age' = [age EXCEPT ![conn[c].session] = 0]
               /\ Become(c, [conn[c] EXCEPT !.pc = "attached", !.since = 0])
               /\ UNCHANGED <<logged_in, cookie_sent>>)

\* The handlers: a login, a GUI request behind check_logged_in, or another
\* one, which does not look at the session.
HandleLogin(c) ==
  /\ conn[c].pc = "attached" /\ conn[c].op = "login"
  /\ Access(c, /\ logged_in' = [logged_in EXCEPT ![conn[c].session] = TRUE]
               /\ Become(c, [conn[c] EXCEPT !.pc = "handled", !.op = "rest"])
               /\ UNCHANGED <<age, cookie_sent>>)

HandleGui(c) ==
  /\ conn[c].pc = "attached" /\ conn[c].op = "gui"
  /\ Access(c, /\ Become(c, [conn[c] EXCEPT !.pc = "handled", !.op = "rest",
                                            !.granted = logged_in[conn[c].session]])
               /\ UNCHANGED data)

HandleRest(c) ==
  /\ conn[c].pc = "attached" /\ conn[c].op = "rest"
  /\ Become(c, [conn[c] EXCEPT !.pc = "handled", !.op = "rest"])
  /\ UNCHANGED <<table, data, timer, fault>>

\* The response, with the cookie when it was not sent yet.
Answer(c) ==
  /\ conn[c].pc = "handled"
  /\ Access(c, /\ cookie_sent' = [cookie_sent EXCEPT ![conn[c].session] = TRUE]
               /\ Become(c, [conn[c] EXCEPT !.pc = "answered"])
               /\ UNCHANGED <<age, logged_in>>)

\* request_completed: after the answer, or because the connection broke.
Complete(c) ==
  /\ conn[c].pc \in {"attached", "answered"}
  /\ Access(c, Become(c, NoRequest) /\ UNCHANGED data)

CompleteEarly(c) ==
  /\ conn[c].pc = "open"
  /\ Become(c, NoRequest)
  /\ UNCHANGED <<table, data, timer, fault>>

-----------------------------------------------------------------------------
\* sessions_expire, by the checkpoint thread once in a time-out: HT_iterate
\* over all elements, bucket by bucket ...
ExpireBegin ==
  /\ ~walk.on /\ last_run > Timeout
  /\ walk' = [NoWalk EXCEPT !.on = TRUE]
  /\ UNCHANGED <<table, data, conn, last_run, fault>>

InChain == /\ walk.on /\ walk.bucket < Size
           /\ walk.place <= Len(sessions_table[walk.bucket])

ExpireBucket ==
  /\ walk.on /\ walk.bucket < Size /\ ~InChain
  /\ walk' = [walk EXCEPT !.bucket = @ + 1, !.place = 1]
  /\ UNCHANGED <<table, data, conn, last_run, fault>>

Visited == sessions_table[walk.bucket][walk.place].data

\* mutant: the first session that has not expired ends the walk
ExpireCheckStops ==
  /\ InChain /\ walk.doomed = NoSession
  /\ walk' = IF age[Visited] > Timeout THEN [walk EXCEPT !.doomed = Visited]
             ELSE [walk EXCEPT !.bucket = Size]
  /\ UNCHANGED <<table, data, conn, last_run, fault>>

\* ... with expiration_call_back ...
ExpireCheck ==
  /\ InChain /\ walk.doomed = NoSession
  /\ walk' = IF age[Visited] > Timeout THEN [walk EXCEPT !.doomed = Visited]
             ELSE [walk EXCEPT !.place = @ + 1]
  /\ UNCHANGED <<table, data, conn, last_run, fault>>

\* ... and what it makes of the answer HT_DELETE_KEY, whatever other threads
\* did to the session since.  The next element is then at its place.  Of a
\* freed session only the cookie is left, in the client.
ExpireFree ==
  /\ walk.doomed # NoSession
  /\ sessions_table' = HTUnlink(sessions_table, walk.bucket, walk.place)
  /\ state' = [state EXCEPT ![walk.doomed] = "freed"]
  /\ age' = [age EXCEPT ![walk.doomed] = 0]
  /\ logged_in' = [logged_in EXCEPT ![walk.doomed] = FALSE]
  /\ walk' = [walk EXCEPT !.doomed = NoSession]
  /\ UNCHANGED <<cookie_sent, conn, last_run, fault>>

ExpireEnd ==
  /\ walk.on /\ walk.bucket = Size
  /\ walk' = NoWalk
  /\ last_run' = 0
  /\ UNCHANGED <<table, data, conn, fault>>

Expire == ExpireBegin \/ ExpireBucket \/ ExpireCheck \/ ExpireFree \/ ExpireEnd

Attached(c) == conn[c].pc \in {"attached", "handled", "answered"}

Tick ==
  /\ ~walk.on
  /\ age' = [s \in Ids |-> IF state[s] = "live" THEN Older(age[s]) ELSE age[s]]
  /\ conn' = [c \in Conns |-> IF Attached(c) THEN [conn[c] EXCEPT !.since = Older(@)]
                                             ELSE conn[c]]
  /\ last_run' = Older(last_run)
  /\ UNCHANGED <<table, logged_in, cookie_sent, walk, fault>>

Work(c) ==
  \/ Lookup(c) \/ Create(c) \/ Touch(c)
  \/ HandleLogin(c) \/ HandleGui(c) \/ HandleRest(c)
  \/ Answer(c) \/ Complete(c) \/ CompleteEarly(c)

Next ==
  /\ fault = "none"
  /\ \/ \E c \in Conns : Work(c) \/ \E op \in {"login", "gui", "rest"} : Begin(c, op)
     \/ Expire
     \/ Tick

Spec == Init /\ [][Next]_vars

\* Time passes and the checkpoint thread runs; no client needs to do anything.
FairSpec == Spec /\ WF_vars(fault = "none" /\ Tick) /\ WF_vars(fault = "none" /\ Expire)

-----------------------------------------------------------------------------
Requests ==
  [pc : {"idle", "open", "got", "attached", "handled", "answered"},
   cookie : Ids \cup {NoSession}, session : Ids \cup {NoSession},
   op : {"login", "gui", "rest"}, granted : BOOLEAN, since : Ages]

\* Types only; a request that got past sessions_get has a session.
TypeOK ==
  /\ state \in [Ids -> {"unused", "live", "freed"}]
  /\ age \in [Ids -> Ages]
  /\ logged_in \in [Ids -> BOOLEAN] /\ cookie_sent \in [Ids -> BOOLEAN]
  /\ conn \in [Conns -> Requests]
  /\ \A c \in Conns : conn[c].pc \notin {"idle", "open"} => conn[c].session \in Ids
  /\ walk \in [on : BOOLEAN, bucket : 0..Size, place : Nat \ {0},
               doomed : Ids \cup {NoSession}]
  /\ last_run \in Ages

(***************************************************************************)
(* The table holds the live sessions and no others, each once and in its   *)
(* bucket, however creations and walks of sessions_expire alternate: no    *)
(* cookie leads to freed memory, and no session is forgotten.              *)
(***************************************************************************)
TableHoldsLive ==
  /\ ChainsSound(sessions_table)
  /\ TableData(sessions_table) = {s \in Ids : state[s] = "live"}

(***************************************************************************)
(* sessions_expire condemns no session on which a request works, unless    *)
(* that request took longer than the time-out since it last touched it.    *)
(* With several connections on one session the youngest access counts.     *)
(***************************************************************************)
TouchedSessionsKept ==
  [][\A c \in Conns : walk'.doomed = conn[c].session /\ walk'.doomed # walk.doomed
                      /\ Attached(c)
       => conn[c].since > Timeout]_vars

(***************************************************************************)
(* The GUI lets no request through that came without the cookie of the     *)
(* session it works on: neither a first request nor one whose session has  *)
(* expired.                                                                *)
(***************************************************************************)
GateNeedsCookie ==
  \A c \in Conns : conn[c].granted => conn[c].cookie = conn[c].session

(***************************************************************************)
(* A session that no request refers to any more is removed in the end,     *)
(* wherever it is in its bucket (unless the server broke down).            *)
(***************************************************************************)
InUse(s) == \E c \in Conns : s \in {conn[c].session, conn[c].cookie}

IdleSessionsExpire ==
  \A s \in Ids : []<>(state[s] # "live" \/ InUse(s) \/ fault # "none")

-----------------------------------------------------------------------------
\* sessions.h: ref_cnt is the "reference counter of number of connections using
\* this session": a session that a connection uses is not freed.
NoFreedSessionUsed == fault = "none"
=============================================================================
