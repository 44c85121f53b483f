------------------------ MODULE NumberIndexRefinement ------------------------
(***************************************************************************)
(* NumberIndex implements NumberDirectory: a slot's table is the part of   *)
(* the directory with that prefix, and a reply is the answer without the   *)
(* status codes and the order of the entries.                              *)
(***************************************************************************)
EXTENDS NumberIndex

CONSTANT Absent

ASSUME AbsentAssumption == Absent \notin Stored

AliasAt(t, p) ==
  LET at == {i \in DOMAIN t.ents : t.ents[i].postfix = p}
  IN  IF at = {} THEN Absent ELSE t.ents[CHOOSE i \in at : TRUE].alias

DirOf == [n \in Slots \X Postfixes |-> AliasAt(index_table[n[1]], n[2])]

StatusOf(status) ==
  CASE status = SUCCESS       -> "ok"
    [] status = FAILURE       -> "refused"
    [] status = NO_SUCH_ENTRY -> "absent"

FoundIn(r) ==
  IF r.request.op = "search" /\ r.status = SUCCESS THEN {r.alias}
                                                   ELSE Bindings(r.table)

Directory == INSTANCE NumberDirectory WITH
  Blocks     <- Slots,
  Aliases    <- Packable,
  Unreadable <- WideAliases,
  Blank      <- EmptyAlias,
  dir        <- DirOf,
  asked      <- reply.request,
  answer     <- <<StatusOf(reply.status), FoundIn(reply)>>,
  stopped    <- aborted # "none"

(***************************************************************************)
(* Every step of the index is one of the directory's, or changes nothing a *)
(* client can see: accepted requests do what readme.md says, refused ones  *)
(* change nothing, and only the requests named there stop the server.  The *)
(* directory says where this falls short of readme.md: the damage of       *)
(* refused inserts (Damaged), aliases of 16 digits (Readable), ranges that *)
(* are answered with none.                                                 *)
(***************************************************************************)
ImplementsDirectory == Directory!Spec
=============================================================================
