------------------------------ MODULE WebServer ------------------------------
(***************************************************************************)
(* The life of HTTP requests in server.c.  libmicrohttpd runs a thread per *)
(* connection and calls answer_to_request with the headers, with each      *)
(* piece of a body, and at the end of it; iterate_post gets what is in a   *)
(* piece, request_completed is called when the request is over.            *)
(*                                                                         *)
(* The numbers are kept by a directory; what a request does to it, and     *)
(* which one stops the server, is in DirectoryRequests.  Sessions live on  *)
(* (module Sessions has their end), and range_around only begins and ends  *)
(* here: RangeAround has what it does between.  Texts are told apart by    *)
(* what the handlers test: length, digits, what they are as a number.      *)
(* Memory does not run out.                                                *)
(***************************************************************************)
EXTENDS DirectoryRequests, Sequences, FiniteSets

CONSTANTS
  Conns,      \* connections, a thread each
  SessionOf,  \* the session whose cookie each connection sends
  Clients,    \* the HTTP requests the client of each connection sends
  MaxParams,  \* MAX_NBR_PARAMS
  Texts,      \* the values of parameters
  Short,      \* texts of 1 to 5 digits
  Letters,    \* texts of 6 characters or more, not all digits
  Nbr,        \* what each text is as a number: prefix and postfix
  Cuts,       \* the two pieces a text can fall into: <<first, rest>>
  Missing,    \* the length of a range that is not in the query,
  NotDigits,  \* one with a letter,
  TooLong     \* one that makes the number too long

Nothing == ""  \* a parameter that has no value, or (but for lengths) is not there

Messages == UNION {Clients[c] : c \in Conns}

ASSUME CountAssumption == MaxParams \in Nat \ {0}
ASSUME TextAssumption ==
  /\ Nothing \notin Texts
  /\ \A v \in Texts : Cuts[v] \subseteq Texts \X Texts

\* The content type is looked at for a POST only; a form is its pairs; a part
\* is reported in one piece at least, an empty file in one without data.
ASSUME MessageAssumption ==
  \A m \in Messages :
    /\ m.method = "GET" => m.ctype = "none"
    /\ m.ctype = "form" => m.body \in Seq(STRING \X (Texts \cup {Nothing}))
    /\ m.ctype = "multipart" => m.pieces \in Nat \ {0}

VARIABLES
  conn,       \* the request of each connection
  logged_in,  \* of each session
  files,      \* the saved file of each name
  fault,      \* "none", or the function that stopped the server
  dir         \* the directory of numbers

server == <<logged_in, files, fault>>
vars   == <<conn, server, dir>>

(***************************************************************************)
(* What con_cls, its post-processor and MHD know of a request: how many    *)
(* parameters or parts have been delivered, the rest of one that was cut,  *)
(* the pairs recorded, whether iterate_post refused one; null: the table   *)
(* pointer which range_around read may be NULL.  The other fields are      *)
(* history.  whole: no value of the form was cut.  intact: no other        *)
(* connection wrote to the file of the upload meanwhile, and fclose did    *)
(* not fail.                                                               *)
(***************************************************************************)
NoRequestInfo == [pc |-> "idle", msg |-> << >>, sent |-> 0, rest |-> Nothing,
                  kvs |-> << >>, failed |-> FALSE, null |-> FALSE, whole |-> TRUE,
                  intact |-> TRUE, reply |-> << >>]

Names == {m.name : m \in {n \in Messages : n.ctype = "multipart"}} \ {Nothing}

Init ==
  /\ conn = [c \in Conns |-> NoRequestInfo]
  /\ logged_in = [s \in {SessionOf[c] : c \in Conns} |-> FALSE]
  /\ files = [n \in Names |-> << >>]
  /\ fault = "none"
  /\ dir = [n \in Numbers |-> Absent]

\* The reply: HTTP status, and the status in the body.  What is kept of the
\* request until it is completed is not read again.
Reply(c, http, status) ==
  conn' = [conn EXCEPT ![c] = [NoRequestInfo EXCEPT !.pc = "replied",
                                                    !.reply = <<http, status>>]]

Refuse(c, http, status) == Reply(c, http, status) /\ UNCHANGED <<server, dir>>

Abort(function) == fault' = function /\ UNCHANGED <<conn, logged_in, files, dir>>

-----------------------------------------------------------------------------
\* answer_to_request with the headers: nothing is kept of what is refused at
\* once.  For a multipart body without a boundary there is no post-processor.
Begin(c, msg) ==
  /\ conn[c].pc = "idle"
  /\ LET opened == [NoRequestInfo EXCEPT !.pc = "open", !.msg = msg]
         refuse(http) == [opened EXCEPT !.pc = "replied", !.reply = <<http, "empty">>]
     IN  conn' = [conn EXCEPT ![c] =
           CASE msg.url = "other"                            -> refuse(503)
             [] msg.url # "other" /\ msg.method = "POST" /\ msg.ctype = "none"
                                                             -> refuse(400)
             [] msg.url # "other" /\ msg.method = "PUT"      -> refuse(500)
             [] msg.url # "other" /\ msg.ctype = "no boundary"
                                                             -> refuse(500)
             [] OTHER                                        -> opened]
  /\ UNCHANGED <<server, dir>>

\* request_completed, after the reply or when the connection breaks down.
Completed(c) ==
  /\ conn[c].pc # "idle"
  /\ conn' = [conn EXCEPT ![c] = NoRequestInfo]
  /\ UNCHANGED <<server, dir>>

-----------------------------------------------------------------------------
\* iterate_post for one pair: MHD_NO for an empty value and for one too many.
\* alloc_key_value asserts that the key of a pair to be recorded is not empty.
IteratePostSkipsEmpty(r, key, v) ==  \* mutant: MHD_YES for an empty value
  IF v = Nothing THEN r
  ELSE IF Len(r.kvs) = MaxParams THEN [r EXCEPT !.failed = TRUE]
  ELSE [r EXCEPT !.kvs = Append(@, <<key, v>>)]

IteratePostStartsOver(r, key, v) ==  \* mutant: the pairs are given up
  IF v = Nothing \/ Len(r.kvs) = MaxParams
  THEN [r EXCEPT !.failed = TRUE, !.kvs = << >>]
  ELSE [r EXCEPT !.kvs = Append(@, <<key, v>>)]

IteratePostUnbounded(r, key, v) ==  \* mutant: the array may be full
  IF v = Nothing THEN [r EXCEPT !.failed = TRUE]
  ELSE [r EXCEPT !.kvs = Append(@, <<key, v>>)]

IteratePost(r, key, v) ==
  IF v = Nothing \/ Len(r.kvs) = MaxParams
  THEN [r EXCEPT !.failed = TRUE]
  ELSE [r EXCEPT !.kvs = Append(@, <<key, v>>)]

KeyAsserted(r, key, v) == key = Nothing /\ v # Nothing /\ Len(r.kvs) < MaxParams

(***************************************************************************)
(* answer_to_request with a piece of a form, which MHD_post_process splits *)
(* into pairs.  A value across two pieces is reported in two parts with    *)
(* the same key; the offset that tells them apart is ignored.  After an    *)
(* MHD_NO the post-processor reports no more, and nobody looks.            *)
(***************************************************************************)
Upload(c) ==
  LET r     == conn[c]
      key   == r.msg.body[r.sent + 1][1]
      value == r.msg.body[r.sent + 1][2]
      cuts  == IF value = Nothing THEN {} ELSE Cuts[value]
      records(v, next) ==
        IF KeyAsserted(r, key, v) THEN Abort("alloc_key_value")
        ELSE conn' = [conn EXCEPT ![c] = next] /\ UNCHANGED <<server, dir>>
  IN  /\ r.pc = "open" /\ r.msg.method = "POST" /\ r.msg.ctype = "form"
      /\ r.sent < Len(r.msg.body)
      /\ \/ /\ r.failed
            /\ conn' = [conn EXCEPT ![c].sent = @ + 1] /\ UNCHANGED <<server, dir>>
         \/ /\ ~r.failed /\ r.rest = Nothing
            /\ records(value, [IteratePost(r, key, value) EXCEPT !.sent = @ + 1])
         \/ /\ ~r.failed /\ r.rest = Nothing
            /\ \E cut \in cuts :
                 records(cut[1], [IteratePost(r, key, cut[1])
                                    EXCEPT !.rest = cut[2], !.whole = FALSE])
         \/ /\ ~r.failed /\ r.rest # Nothing
            /\ records(r.rest, [IteratePost(r, key, r.rest)
                                  EXCEPT !.sent = @ + 1, !.rest = Nothing])

\* A file is written and closed.  Other uploads to it are not intact any more,
\* nor is this one beside them, or if the close failed.
Uploading(c, name) ==
  conn[c].pc = "open" /\ conn[c].msg.ctype = "multipart" /\ conn[c].msg.name = name

Saved(c, ok, closed, content) ==
  LET name   == conn[c].msg.name
      intact == closed /\ \A d \in Conns \ {c} : ~Uploading(d, name)
  IN  /\ conn' = [d \in Conns |->
           IF d = c THEN [conn[c] EXCEPT !.sent = @ + 1, !.failed = ~ok,
                                         !.intact = @ /\ intact]
           ELSE IF Uploading(d, name) THEN [conn[d] EXCEPT !.intact = FALSE]
           ELSE conn[d]]
      /\ files' = [files EXCEPT ![name] = content]

\* mutant: the file is always opened to append
SavePostedFileAppends(c) ==
  LET r     == conn[c]
      piece == <<r.msg.tag, r.sent + 1>>
  IN  /\ r.pc = "open" /\ r.msg.ctype = "multipart" /\ r.sent < r.msg.pieces
      /\ ~r.failed /\ r.msg.name # Nothing /\ ~r.msg.empty
      /\ Saved(c, TRUE, TRUE, Append(files[r.msg.name], piece))
      /\ UNCHANGED <<logged_in, fault, dir>>

(***************************************************************************)
(* A piece of an uploaded file: save_posted_file opens the file anew for   *)
(* every piece, "w" for the first one and "a" for the others, and closes   *)
(* it.  The open can fail, or the write, and then no further piece is      *)
(* reported.  When the close fails, which writes what is still in the      *)
(* buffer, a message is logged and no more.  A part without a file name is *)
(* not saved, and a piece without data does not even open the file.        *)
(***************************************************************************)
SavePostedFile(c) ==
  LET r     == conn[c]
      piece == <<r.msg.tag, r.sent + 1>>
      kept  == IF r.sent = 0 THEN << >> ELSE files[r.msg.name]
      opens == ~r.failed /\ r.msg.name # Nothing /\ ~r.msg.empty
  IN  /\ r.pc = "open" /\ r.msg.ctype = "multipart" /\ r.sent < r.msg.pieces
      /\ \/ ~opens /\ conn' = [conn EXCEPT ![c].sent = @ + 1] /\ UNCHANGED files
         \/ opens /\ Saved(c, TRUE, TRUE, Append(kept, piece))
         \/ opens /\ Saved(c, TRUE, FALSE, kept)
         \/ opens /\ Saved(c, FALSE, TRUE, kept)
         \/ opens /\ Saved(c, FALSE, TRUE, files[r.msg.name])
      /\ UNCHANGED <<logged_in, fault, dir>>

-----------------------------------------------------------------------------
\* handle_post_request, at the end of the body.

\* get_key_value: the first pair with the key.
Param(kvs, key) ==
  LET at == {i \in 1..Len(kvs) : kvs[i][1] = key}
  IN  IF at = {} THEN Nothing ELSE kvs[CHOOSE i \in at : \A j \in at : i <= j][2]

Gui(c)      == conn[c].msg.url = "gui"
LoggedIn(c) == logged_in[SessionOf[c]]

Command(c) ==
  LET cmd == Param(conn[c].kvs, "cmd")
  IN  IF Gui(c) /\ cmd = Nothing THEN Param(conn[c].kvs, "action") ELSE cmd

\* A call of the directory, whose status is the reply's, unless an assertion of
\* the index fails.
Call(c, req) ==
  \/ /\ Survives(dir, req)
     /\ \E out \in Outcomes(dir, req) : dir' = out.dir /\ Reply(c, 200, out.status)
     /\ UNCHANGED server
  \/ OutOfIndex(req) /\ Abort("get_index")
  \/ EmptyRange(dir, req) /\ Abort("get_range")

EnterCall(c, number, alias) ==
  Call(c, [op |-> "enter", nbr |-> Nbr[number], alias |-> alias])

NumberCall(c, op, number) == Call(c, [op |-> op, nbr |-> Nbr[number]])

\* What the commands of clients check; the GUI's go to the directory as they are.
Checked(c, values, call) ==
  CASE Nothing \in values              -> Refuse(c, 400, "refused")
    [] Nothing \notin values /\ values \cap Short # {}
                                       -> Refuse(c, 200, "too short")
    [] values \cap (Short \cup {Nothing}) = {} /\ values \cap Letters # {}
                                       -> Refuse(c, 200, "illegal")
    [] OTHER                           -> call

Insert(c) ==
  LET number == Param(conn[c].kvs, "number")
      alias  == Param(conn[c].kvs, "alias")
  IN  Checked(c, {number, alias}, EnterCall(c, number, alias))

DeleteNumber(c) ==
  LET number == Param(conn[c].kvs, "number")
  IN  Checked(c, {number}, NumberCall(c, "delete", number))

\* dump_file and restore_file only look at their file name.
FileCommand(c) ==
  IF Param(conn[c].kvs, "file_name") = Nothing THEN Refuse(c, 400, "refused")
                                               ELSE Refuse(c, 200, "ok")

Login(c) ==
  IF Nothing \in {Param(conn[c].kvs, "username"), Param(conn[c].kvs, "password")}
  THEN Refuse(c, 400, "refused")
  ELSE /\ logged_in' = [logged_in EXCEPT ![SessionOf[c]] = TRUE]
       /\ Reply(c, 200, "ok")
       /\ UNCHANGED <<files, fault, dir>>

GuiUpdateUngated(c, cmd) ==  \* mutant: handle_create does not ask for a login
  LET number == Param(conn[c].kvs, "[number]")
      alias  == Param(conn[c].kvs, "[alias]")
  IN  IF Nothing \in {number, alias} THEN Refuse(c, 400, "empty")
      ELSE IF cmd = "create" THEN EnterCall(c, number, alias)
      ELSE NumberCall(c, "delete", number)

\* handle_create and handle_remove.
GuiUpdate(c, cmd) ==
  LET number == Param(conn[c].kvs, "[number]")
      alias  == Param(conn[c].kvs, "[alias]")
  IN  IF ~LoggedIn(c) THEN Refuse(c, 401, "empty")
      ELSE IF Nothing \in {number, alias} THEN Refuse(c, 400, "empty")
      ELSE IF cmd = "create" THEN EnterCall(c, number, alias)
      ELSE NumberCall(c, "delete", number)

\* handle_edit has no reply for a user who is logged in: MHD closes the
\* connection.
Edit(c) ==
  IF ~LoggedIn(c) THEN Refuse(c, 401, "empty") ELSE Refuse(c, 0, "none")

GuiCommand(c, cmd) ==
  CASE cmd \in {"create", "remove"} -> GuiUpdate(c, cmd)
    [] cmd = "edit"                 -> Edit(c)
    [] cmd = "login"                -> Login(c)
    [] OTHER                        -> Refuse(c, 400, "refused")

ClientCommand(c, cmd) ==
  CASE cmd = "insert"                       -> Insert(c)
    [] cmd = "delete"                       -> DeleteNumber(c)
    [] cmd \in {"dump_file", "restore_file"} -> FileCommand(c)
    [] OTHER                                -> Refuse(c, 400, "refused")

HandlePostFormsOnly(c) ==  \* mutant: an upload is not answered
  LET r == conn[c]
  IN  /\ r.pc = "open" /\ r.msg.method = "POST"
      /\ r.msg.ctype = "form" /\ r.sent = Len(r.msg.body)
      /\ \/ r.kvs = << >> /\ Abort("get_key_value")
         \/ /\ r.kvs # << >>
            /\ LET cmd == Command(c)
               IN  IF cmd = Nothing THEN Refuse(c, 400, "refused")
                   ELSE IF Gui(c) THEN GuiCommand(c, cmd) ELSE ClientCommand(c, cmd)

\* Without a single pair the assertion of get_key_value fails.  An upload is
\* answered with 400, however it went.
HandlePost(c) ==
  LET r == conn[c]
  IN  /\ r.pc = "open" /\ r.msg.method = "POST"
      /\ \/ /\ r.msg.ctype = "multipart" /\ r.sent = r.msg.pieces
            /\ Refuse(c, 400, "ok")
         \/ /\ r.msg.ctype = "form" /\ r.sent = Len(r.msg.body) /\ r.kvs = << >>
            /\ Abort("get_key_value")
         \/ /\ r.msg.ctype = "form" /\ r.sent = Len(r.msg.body) /\ r.kvs # << >>
            /\ LET cmd == Command(c)
               IN  IF cmd = Nothing THEN Refuse(c, 400, "refused")
                   ELSE IF Gui(c) THEN GuiCommand(c, cmd) ELSE ClientCommand(c, cmd)

-----------------------------------------------------------------------------
\* handle_get_request.

(***************************************************************************)
(* The query refused with 400 before anything is looked up.  The length of *)
(* a range is tested for digits before it is tested to be there, and an    *)
(* empty one passes.                                                       *)
(***************************************************************************)
BadQuery(q, gui) ==
  \/ q.cmd = Nothing \/ q.number \in Short \cup {Nothing}
  \/ gui /\ q.cmd # "range_around"
  \/ q.cmd \notin {"alias", "block", "range", "range_around"}
  \/ q.number \in Letters
  \/ q.cmd = "range" /\ q.length \in {NotDigits, TooLong}
  \/ q.cmd = "range_around" /\ \E k \in {q.nbr_before, q.nbr_after} :
                                 k \in {Nothing, "letters", "0"}

RangeOf(q) == [op |-> "range", nbr |-> Nbr[q.number], keys |-> q.length]

\* nlkup_get_range_around: fails before its first lock, or reads the pointer to
\* the table, which is NULL only if the block has no number.
AroundBegins(c, nbr) ==
  LET number == <<nbr.prefix, nbr.postfix>>
      null   == \A p \in Postfixes : dir[<<nbr.prefix, p>>] = Absent
  IN  \/ nbr.prefix \in LowPrefixes /\ Abort("get_index")
      \/ nbr.prefix \notin LowPrefixes /\ number \notin Numbers /\ Refuse(c, 500, "empty")
      \/ /\ nbr.prefix \notin LowPrefixes /\ number \in Numbers
         /\ conn' = [conn EXCEPT ![c].pc = "around", ![c].null = null]
         /\ UNCHANGED <<server, dir>>

\* It returns after a while, or asserts that the pointer was not NULL.
AroundEnds(c) ==
  /\ conn[c].pc = "around"
  /\ \/ \E http \in {200, 204, 500} : Refuse(c, http, "ok")
     \/ conn[c].null /\ Abort("search_entry_in_table")

HandleGet(c) ==
  LET q       == conn[c].msg.query
      barred  == Gui(c) /\ q.cmd = "range_around" /\ ~LoggedIn(c)
                   /\ q.number \notin Short \cup {Nothing}
      nulled  == q.cmd = "range" /\ q.length = Missing /\ ~Gui(c)
                   /\ q.number \notin Short \cup Letters \cup {Nothing}
  IN  /\ conn[c].pc = "open" /\ conn[c].msg.method = "GET"
      /\ \/ barred /\ Refuse(c, 401, "empty")
         \/ nulled /\ Abort("all_digits")
         \/ ~barred /\ ~nulled /\ BadQuery(q, Gui(c)) /\ Refuse(c, 400, "empty")
         \/ /\ ~barred /\ ~nulled /\ ~BadQuery(q, Gui(c))
            /\ CASE q.cmd = "alias"        -> NumberCall(c, "search", q.number)
                 [] q.cmd = "block"        -> NumberCall(c, "block", q.number)
                 [] q.cmd = "range"        -> Call(c, RangeOf(q))
                 [] q.cmd = "range_around" -> AroundBegins(c, Nbr[q.number])

-----------------------------------------------------------------------------
Handle(c) == HandlePost(c) \/ HandleGet(c) \/ AroundEnds(c)

Next ==
  /\ fault = "none"
  /\ \E c \in Conns :
       \/ \E msg \in Clients[c] : Begin(c, msg)
       \/ Upload(c) \/ SavePostedFile(c)
       \/ Handle(c)
       \/ Completed(c)

Spec == Init /\ [][Next]_vars

(***************************************************************************)
(* A thread with a request to handle runs and gets the lock of its slot at *)
(* last, since whoever holds it goes on, but for calls of range_around     *)
(* that wait for one another: a single one waits for nobody for ever (see  *)
(* RangeAround).  Nothing is assumed of the clients.                       *)
(***************************************************************************)
MayWaitForEver == Cardinality({c \in Conns : conn[c].pc = "around"}) > 1

FairSpec ==
  Spec /\ \A c \in Conns : SF_vars(fault = "none" /\ ~MayWaitForEver /\ Handle(c))

-----------------------------------------------------------------------------
\* Types, and the size of the array of pairs.
TypeOK ==
  /\ \A c \in Conns :
       /\ conn[c].pc \in {"idle", "open", "around", "replied"}
       /\ conn[c].msg \in Clients[c] \cup {<< >>}
       /\ Len(conn[c].kvs) <= MaxParams
  /\ \A s \in DOMAIN logged_in : logged_in[s] \in BOOLEAN
  /\ dir \in [Numbers -> Aliases \cup {Blank, Absent}]
  /\ fault \in {"none", "get_key_value", "alloc_key_value", "all_digits",
                "get_index", "get_range", "search_entry_in_table"}

\* The first value a client sent for a key, and what the server may take for
\* it: the value, or the first piece of it.
Sent(msg, key) == Param(msg.body, key)

TakenFor(v) == IF v = Nothing THEN {} ELSE {v} \cup {cut[1] : cut \in Cuts[v]}

(***************************************************************************)
(* However a form is cut into pieces, and though the end of it may have    *)
(* been refused, what a handler finds under a key is what the client sent  *)
(* first under that key, or the first piece of it: never the value of      *)
(* another pair, nor one of an earlier request of the connection.          *)
(***************************************************************************)
ParamsFaithful ==
  \A c \in Conns : LET r == conn[c] IN
    \A i \in 1..Len(r.kvs) : LET key == r.kvs[i][1] IN
      Param(r.kvs, key) \in TakenFor(Sent(r.msg, key))

NumberKey(msg) == IF msg.url = "gui" THEN "[number]" ELSE "number"
AliasKey(msg)  == IF msg.url = "gui" THEN "[alias]" ELSE "alias"

(***************************************************************************)
(* The directory changes only in the step that answers a form, by one      *)
(* request; what is answered ok concerned the number sent and set it to    *)
(* the alias sent, if no value of the form was cut; the GUI's forms need a *)
(* login, through whichever connection of the session it came.             *)
(***************************************************************************)
NumberChanged(msg) ==
  LET nbr == Nbr[Sent(msg, NumberKey(msg))]
  IN  \A n \in Numbers : dir'[n] # dir[n] => n = <<nbr.prefix, nbr.postfix>>

AliasEntered(msg) ==
  \A n \in Numbers : dir'[n] # dir[n] => dir'[n] \in {Sent(msg, AliasKey(msg)), Absent}

UpdateStep ==
  dir' # dir =>
    \E c \in Conns : LET msg == conn[c].msg IN
      /\ conn[c].pc = "open" /\ conn'[c].pc = "replied" /\ msg.method = "POST"
      /\ msg.url = "gui" => LoggedIn(c)
      /\ conn[c].whole /\ conn'[c].reply[2] = "ok"
           => NumberChanged(msg) /\ AliasEntered(msg)

UpdatesAsAsked == [][UpdateStep]_vars

(***************************************************************************)
(* When an upload of which every piece was written ends, and nobody else   *)
(* wrote to the file meanwhile, the file has every piece of it in order,   *)
(* and nothing of earlier uploads, broken off or not.  This is not so for  *)
(* an empty upload, which leaves the earlier file, nor when a close failed *)
(* unreported.                                                             *)
(***************************************************************************)
UploadStep ==
  \A c \in Conns : LET r == conn[c] IN
    /\ r.pc = "open" /\ conn'[c].pc = "replied"
    /\ r.msg.ctype = "multipart" /\ r.msg.name # Nothing /\ ~r.msg.empty
    /\ ~r.failed /\ r.intact
    => files[r.msg.name] = [i \in 1..r.msg.pieces |-> <<r.msg.tag, i>>]

UploadsWhole == [][UploadStep]_vars

(***************************************************************************)
(* What stops the server: a form without pairs or with an empty first      *)
(* value, one with a value under an empty key, a range without a length, a *)
(* prefix like 0xxxxx, a range without numbers, range_around where there   *)
(* were no numbers.  No other request does, nor requests together.         *)
(***************************************************************************)
NumbersOf(msg) ==
  IF msg.method = "GET" THEN {msg.query.number} ELSE TakenFor(Sent(msg, NumberKey(msg)))

Stopping(c) ==
  LET r   == conn[c]
      msg == conn[c].msg
  IN  \/ /\ fault = "get_key_value" /\ msg.ctype = "form"
         /\ msg.body = << >> \/ msg.body[1][2] = Nothing
      \/ /\ fault = "alloc_key_value" /\ msg.ctype = "form"
         /\ \E i \in 1..Len(msg.body) : msg.body[i][1] = Nothing /\ msg.body[i][2] # Nothing
      \/ /\ fault = "all_digits" /\ msg.method = "GET"
         /\ msg.query.cmd = "range" /\ msg.query.length = Missing
      \/ fault = "get_index" /\ \E v \in NumbersOf(msg) : Nbr[v].prefix \in LowPrefixes
      \/ /\ fault = "get_range" /\ msg.method = "GET"
         /\ msg.query.cmd = "range" /\ EmptyRange(dir, RangeOf(msg.query))
      \/ fault = "search_entry_in_table" /\ r.pc = "around" /\ r.null

OnlyKnownStops ==
  fault # "none" => \E c \in Conns : conn[c].pc \in {"open", "around"} /\ Stopping(c)

(***************************************************************************)
(* Every request that was delivered to its end is answered, or its         *)
(* connection breaks down, if the server does not stop and calls of        *)
(* range_around do not stay together for ever: nothing else holds a        *)
(* request up, nor what other clients leave unfinished.                    *)
(***************************************************************************)
Delivered(c) ==
  LET r == conn[c]
  IN  \/ r.pc = "around"
      \/ r.pc = "open" /\ r.msg.method = "GET"
      \/ r.pc = "open" /\ r.msg.ctype = "form" /\ r.sent = Len(r.msg.body)
      \/ r.pc = "open" /\ r.msg.ctype = "multipart" /\ r.sent = r.msg.pieces

RequestsAnswered ==
  []<>(~MayWaitForEver) =>
    \A c \in Conns : Delivered(c) ~> (conn[c].pc \in {"idle", "replied"} \/ fault # "none")
=============================================================================
