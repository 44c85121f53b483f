-------------------------- MODULE DirectoryRequests --------------------------
(***************************************************************************)
(* What each request does to a directory of numbers, as readme.md tells    *)
(* the clients: the directories it may leave and the answers it may get.   *)
(***************************************************************************)
EXTENDS Integers

CONSTANTS
  Blocks,       \* the number blocks, each "started with a 6 digit prefix"
  LowPrefixes,  \* other prefixes, which no request survives
  Postfixes,    \* the rest of a number, ordered
  BadLengths,   \* lengths of a range that give no keys
  Aliases,
  Unreadable,   \* aliases a lookup finds as Blank
  Blank,        \* the alias of no digits, which no client sends
  Absent        \* of a number without an alias

Numbers == Blocks \X Postfixes

NumberOf(req) == <<req.nbr.prefix, req.nbr.postfix>>

Outcome(d, status, found) == [dir |-> d, status |-> status, found |-> found]

Refusal(d) == {Outcome(d, "refused", {})}

EntriesOf(d, block, wanted) ==
  {<<p, d[<<block, p>>]>> : p \in {q \in wanted : d[<<block, q>>] # Absent}}

(***************************************************************************)
(* An alias that cannot be stored is refused, but a number with an alias   *)
(* may be left with Blank, and one without may get Blank or an alias of    *)
(* its block, in exchange for the last number of the block.  readme.md     *)
(* does not say so.                                                        *)
(***************************************************************************)
IsLast(d, block, p) ==
  /\ d[<<block, p>>] # Absent
  /\ \A q \in Postfixes : q > p => d[<<block, q>>] = Absent

Damaged(d, n) ==
  IF d[n] # Absent
  THEN {d, [d EXCEPT ![n] = Blank]}
  ELSE {d} \cup {[d EXCEPT ![n] = x[1], ![<<n[1], x[2]>>] = Absent] :
         x \in {y \in (Aliases \cup {Blank}) \X Postfixes :
                  /\ IsLast(d, n[1], y[2]) /\ n[2] < y[2]
                  /\ y[1] = Blank \/ \E p \in Postfixes : d[<<n[1], p>>] = y[1]}}

\* insert: "enter a new alias for a given number, possibly overwriting".
Enter(d, req) ==
  LET n == NumberOf(req)
  IN  IF n \notin Numbers THEN Refusal(d)
      ELSE IF req.alias \in Aliases
      THEN {Outcome([d EXCEPT ![n] = req.alias], "ok", {})}
      ELSE {Outcome(e, "refused", {}) : e \in Damaged(d, n)}

\* delete: "delete a number's alias"; deleting an absent one is no error.
Delete(d, req) ==
  LET n == NumberOf(req)
  IN  IF n \in Numbers THEN {Outcome([d EXCEPT ![n] = Absent], "ok", {})}
                       ELSE {Outcome(d, "ok", {})} \cup Refusal(d)

\* lookup: "given a number, retrieve its alias if any", as far as it can be
\* read; a block or a range has it as it is.
Readable(al) == IF al \in Unreadable THEN Blank ELSE al

Lookup(d, req) ==
  LET n == NumberOf(req)
  IN  IF n \in Numbers
      THEN {IF d[n] # Absent THEN Outcome(d, "ok", {Readable(d[n])})
                             ELSE Outcome(d, "absent", {})}
      ELSE {Outcome(d, "absent", {})} \cup Refusal(d)

\* retrieve block: "all aliases for a number block".
Block(d, req) ==
  LET block == req.nbr.prefix
  IN  IF block \in Blocks THEN {Outcome(d, "ok", EntriesOf(d, block, Postfixes))}
                          ELSE Refusal(d)

Between(req) == {p \in Postfixes : req.keys[1] <= p /\ p <= req.keys[2]}

\* A range is answered with all of its entries, or with none.
Range(d, req) ==
  LET block == req.nbr.prefix
  IN  IF req.keys \in BadLengths \/ block \notin Blocks
      THEN Refusal(d)
      ELSE {Outcome(d, "ok", EntriesOf(d, block, Between(req))), Outcome(d, "ok", {})}

(***************************************************************************)
(* What stops the server instead: a prefix like 0xxxxx, and a range        *)
(* without numbers.  In a block without any number the range may stop it   *)
(* or not; in another block it does.  readme.md does not say so.           *)
(***************************************************************************)
Asked(req) == req.op = "range" => req.keys \notin BadLengths

OutOfIndex(req) == Asked(req) /\ req.nbr.prefix \in LowPrefixes

EmptyRange(d, req) ==
  /\ req.op = "range" /\ Asked(req) /\ req.nbr.prefix \in Blocks
  /\ EntriesOf(d, req.nbr.prefix, Between(req)) = {}

Stops(d, req) == OutOfIndex(req) \/ EmptyRange(d, req)

Survives(d, req) ==
  /\ ~OutOfIndex(req)
  /\ EmptyRange(d, req) => EntriesOf(d, req.nbr.prefix, Postfixes) = {}

Outcomes(d, req) ==
  CASE req.op = "enter"  -> Enter(d, req)
    [] req.op = "delete" -> Delete(d, req)
    [] req.op = "search" -> Lookup(d, req)
    [] req.op = "block"  -> Block(d, req)
    [] req.op = "range"  -> Range(d, req)
=============================================================================
