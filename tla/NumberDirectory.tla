--------------------------- MODULE NumberDirectory ---------------------------
(***************************************************************************)
(* What the server promises its clients: a map from numbers to aliases,    *)
(* one request at a time.  No tables, slots, sorting or memory.            *)
(* NumberIndex implements it.                                              *)
(***************************************************************************)
EXTENDS DirectoryRequests

CONSTANTS
  Requests,  \* records: op, nbr, and an alias or the keys of a range
  NoRequest

VARIABLES
  dir,     \* the alias of each number
  asked,   \* the last request
  answer,  \* what it was answered: a status, and the data found
  stopped  \* whether a request ended the server

vars == <<dir, asked, answer, stopped>>

Init ==
  /\ dir = [n \in Numbers |-> Absent]
  /\ asked = NoRequest
  /\ answer = <<"ok", {}>>
  /\ stopped = FALSE

Serve(req) ==
  /\ Survives(dir, req)
  /\ asked' = req
  /\ \E out \in Outcomes(dir, req) :
       answer' = <<out.status, out.found>> /\ dir' = out.dir
  /\ UNCHANGED stopped

Stop(req) ==
  /\ Stops(dir, req)
  /\ stopped' = TRUE
  /\ UNCHANGED <<dir, asked, answer>>

Next == ~stopped /\ \E req \in Requests : Serve(req) \/ Stop(req)

Spec == Init /\ [][Next]_vars
=============================================================================
