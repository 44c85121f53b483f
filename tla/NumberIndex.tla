----------------------------- MODULE NumberIndex -----------------------------
(***************************************************************************)
(* The prefix index of nlkup.c and the five requests the server answers    *)
(* from it: insert, delete, lookup, block and range.  Each runs from       *)
(* lock_table to unlock_table of one slot and touches no other, so it is   *)
(* one step here.  Module RangeAround has the request that takes several   *)
(* locks.                                                                  *)
(***************************************************************************)
EXTENDS LookupTbl

CONSTANTS
  Slots,            \* the slots of index_table, one per prefix of 6 digits
  IllegalPrefixes,  \* prefixes get_index answers with an error code
  LowPrefixes,      \* prefixes below INDEX_OFFSET, where it asserts
  BadPostfixes,     \* postfixes compress_to_buf refuses
  RangeKeys,        \* <<lo, hi>>: the number extended with 0s and with 9s
  BadLengths        \* lengths of a range that give no keys: empty or negative

ASSUME PrefixAssumption ==
  /\ Slots \cap (IllegalPrefixes \cup LowPrefixes) = {}
  /\ IllegalPrefixes \cap LowPrefixes = {}
ASSUME KeyAssumption ==
  /\ BadPostfixes \cap Int = {}
  /\ RangeKeys \subseteq Int \X Int
  /\ \A keys \in RangeKeys : keys[1] <= keys[2]
  /\ BadLengths \cap RangeKeys = {}

SUCCESS       == 0
FAILURE       == -1
NO_SUCH_ENTRY == -5

AnyPrefix == Slots \cup IllegalPrefixes \cup LowPrefixes
Numbers  == [prefix : AnyPrefix, postfix : Postfixes \cup BadPostfixes]

EnterRequest  == [op : {"enter"}, nbr : Numbers, alias : AliasInputs]
NumberRequest == [op : {"delete", "search", "block"}, nbr : Numbers]
RangeRequest  == [op : {"range"}, nbr : [prefix : AnyPrefix],
                  keys : RangeKeys \cup BadLengths]
NoRequest     == [op |-> "none"]
Requests      == EnterRequest \cup NumberRequest \cup RangeRequest

VARIABLES
  index_table,  \* the table of each slot
  reply,        \* the last request and what it was answered
  aborted       \* "none", or the function whose assertion stopped the server

vars == <<index_table, reply, aborted>>

Reply == [request : Requests \cup {NoRequest},
          status  : {SUCCESS, FAILURE, NO_SUCH_ENTRY},
          alias   : Stored,
          table   : Table]

\* Types only: an index is a table per slot, a reply is well formed.
TypeOK ==
  /\ index_table \in [Slots -> Table]
  /\ reply \in Reply
  /\ aborted \in {"none", "get_index", "get_range"}

-----------------------------------------------------------------------------
Respond(req, status, alias, table) ==
  reply' = [request |-> req, status |-> status, alias |-> alias, table |-> table]

\* A request answered with its status alone.
Answer(req, status) == Respond(req, status, EmptyAlias, NullTable)

\* init_index: every slot holds the NULL pointer.
Init ==
  /\ index_table = [s \in Slots |-> NullTable]
  /\ reply = [request |-> NoRequest, status |-> SUCCESS,
              alias |-> EmptyAlias, table |-> NullTable]
  /\ aborted = "none"

(***************************************************************************)
(* get_index: a prefix that is no positive number fails the request before *)
(* any lock; a positive one below INDEX_OFFSET fails the assertion.  The   *)
(* length of a range is looked at before.                                  *)
(***************************************************************************)
LengthAccepted(req) == req.op = "range" => req.keys \in RangeKeys

RefusePrefix(req) ==
  /\ req.nbr.prefix \in IllegalPrefixes /\ LengthAccepted(req)
  /\ Answer(req, FAILURE)
  /\ UNCHANGED <<index_table, aborted>>

AbortOnPrefix(req) ==
  /\ req.nbr.prefix \in LowPrefixes /\ LengthAccepted(req)
  /\ aborted' = "get_index"
  /\ UNCHANGED <<index_table, reply>>

(***************************************************************************)
(* enter_entry.  An empty table is allocated for a NULL slot before the    *)
(* postfix is packed, so a refused postfix leaves it behind.               *)
(***************************************************************************)
Opened(t) == IF IsNull(t) THEN EmptyTable ELSE t

EnterStatus(al) == IF al \in Packable THEN SUCCESS ELSE FAILURE

EnterEntry(req) ==
  LET slot == req.nbr.prefix
      p    == req.nbr.postfix
      t    == Opened(index_table[slot])
  IN  /\ req.op = "enter" /\ slot \in Slots
      /\ \/ /\ p \in BadPostfixes
            /\ index_table' = [index_table EXCEPT ![slot] = t]
            /\ Answer(req, FAILURE)
         \/ /\ p \in Postfixes
            /\ \E r \in SearchResults(t.ents, p) :
                 index_table' = [index_table EXCEPT ![slot] =
                                   EnterAt(t, r, p, req.alias)]
            /\ Answer(req, EnterStatus(req.alias))
      /\ UNCHANGED aborted

(***************************************************************************)
(* delete_entry: no table or no such entry is success; a postfix that      *)
(* cannot be packed is an error only when there is a table to search.      *)
(***************************************************************************)
DeleteEntry(req) ==
  LET slot == req.nbr.prefix
      p    == req.nbr.postfix
      t    == index_table[slot]
  IN  /\ req.op = "delete" /\ slot \in Slots
      /\ \/ /\ IsNull(t)
            /\ Answer(req, SUCCESS)
            /\ UNCHANGED index_table
         \/ /\ ~IsNull(t) /\ p \in BadPostfixes
            /\ Answer(req, FAILURE)
            /\ UNCHANGED index_table
         \/ /\ ~IsNull(t) /\ p \in Postfixes
            /\ \E r \in SearchResults(t.ents, p) :
                 index_table' = IF r < 0 THEN index_table
                                ELSE [index_table EXCEPT ![slot] = DeleteAt(t, r)]
            /\ Answer(req, SUCCESS)
      /\ UNCHANGED aborted

(***************************************************************************)
(* search_entry: the alias is unpacked into a buffer of 15 digits and a    *)
(* terminator.  A wider one leaves the zeroed buffer as it was, and the    *)
(* status is SUCCESS all the same.                                         *)
(***************************************************************************)
Decompress(al) == IF al \in WideAliases THEN EmptyAlias ELSE al

SearchEntry(req) ==
  LET slot == req.nbr.prefix
      p    == req.nbr.postfix
      t    == index_table[slot]
  IN  /\ req.op = "search" /\ slot \in Slots
      /\ \/ /\ IsNull(t)
            /\ Answer(req, NO_SUCH_ENTRY)
         \/ /\ ~IsNull(t) /\ p \in BadPostfixes
            /\ Answer(req, FAILURE)
         \/ /\ ~IsNull(t) /\ p \in Postfixes
            /\ \E r \in SearchResults(t.ents, p) :
                 IF r < 0
                 THEN Answer(req, NO_SUCH_ENTRY)
                 ELSE Respond(req, SUCCESS, Decompress(t.ents[r + 1].alias),
                              NullTable)
      /\ UNCHANGED <<index_table, aborted>>

\* nlkup_get_block: a copy of the whole table of the prefix.
GetBlock(req) ==
  /\ req.op = "block" /\ req.nbr.prefix \in Slots
  /\ Respond(req, SUCCESS, EmptyAlias, index_table[req.nbr.prefix])
  /\ UNCHANGED <<index_table, aborted>>

(***************************************************************************)
(* nlkup_get_range: the entries between two keys, located by two searches. *)
(* The three assertions on the indices come before the copy.  The server   *)
(* lets no key of more than 15 digits through (CHECK_RANGE_POSTFIX_LENGTH),*)
(* so both keys can be packed; it does let through a length of no digits,  *)
(* or one that atoi makes negative, which is refused here at once.         *)
(***************************************************************************)
RangeAsserts(t, from, to) ==
  /\ from >= 0 /\ from < Len(t.ents)
  /\ to >= 0 /\ to < Len(t.ents)
  /\ from <= to

GetRange(req) ==
  LET t == index_table[req.nbr.prefix]
  IN  /\ req.op = "range"
      /\ \/ /\ req.keys \in BadLengths
            /\ Answer(req, FAILURE)
            /\ UNCHANGED aborted
         \/ /\ req.keys \in RangeKeys /\ req.nbr.prefix \in Slots
            /\ IsNull(t)
            /\ Answer(req, SUCCESS)
            /\ UNCHANGED aborted
         \/ /\ req.keys \in RangeKeys /\ req.nbr.prefix \in Slots
            /\ ~IsNull(t)
            /\ \E lo \in SearchResults(t.ents, req.keys[1]),
                  hi \in SearchResults(t.ents, req.keys[2]) :
                 LET from == RangeStart(lo)
                     to   == RangeEnd(hi)
                 IN  IF RangeAsserts(t, from, to)
                     THEN /\ Respond(req, SUCCESS, EmptyAlias,
                                     CopyRange(t, from, to))
                          /\ UNCHANGED aborted
                     ELSE /\ aborted' = "get_range"
                          /\ UNCHANGED reply
      /\ UNCHANGED index_table

Next ==
  /\ aborted = "none"
  /\ \E req \in Requests :
       \/ RefusePrefix(req)
       \/ AbortOnPrefix(req)
       \/ EnterEntry(req)
       \/ DeleteEntry(req)
       \/ SearchEntry(req)
       \/ GetBlock(req)
       \/ GetRange(req)

Spec == Init /\ [][Next]_vars

-----------------------------------------------------------------------------
(***************************************************************************)
(* Every table of the index ascends strictly, whatever mixture of          *)
(* accepted, refused and half-done inserts and deletes has been made: the  *)
(* binary search stays meaningful and no number is stored twice.           *)
(***************************************************************************)
TablesAscending == \A s \in Slots : Ascending(index_table[s].ents)

(***************************************************************************)
(* An array is never overrun and never keeps more than one spare block:    *)
(* the assertions of enter_entry, shift_table_up, grow_table and           *)
(* shrink_table rest on it.  A block may stay spare: a refused insert      *)
(* grows a full table and adds nothing.                                    *)
(***************************************************************************)
CapacityKept == \A s \in Slots : SpareBlock(index_table[s])

(***************************************************************************)
(* An insert answered with SUCCESS binds its number to its alias and       *)
(* leaves every other number of every prefix as it was, and a delete       *)
(* answered with SUCCESS removes its number and nothing else.              *)
(***************************************************************************)
EnterExact(req) ==
  LET s == req.nbr.prefix
      p == req.nbr.postfix
  IN  Bindings(index_table'[s]) =
        (Bindings(index_table[s]) \ BindingsOf(index_table[s], p))
          \cup {<<p, req.alias>>}

DeleteExact(req) ==
  LET s == req.nbr.prefix
      t == index_table[s]
  IN  Bindings(index_table'[s]) = Bindings(t) \ BindingsOf(t, req.nbr.postfix)

OthersKept(slot) == \A s \in Slots \ {slot} : index_table'[s] = index_table[s]

AcceptedStep ==
  aborted' = "none" /\ reply'.status = SUCCESS =>
    LET req == reply'.request
    IN  CASE req.op = "enter"  -> EnterExact(req) /\ OthersKept(req.nbr.prefix)
          [] req.op = "delete" -> DeleteExact(req) /\ OthersKept(req.nbr.prefix)
          [] OTHER             -> UNCHANGED index_table

AcceptedUpdatesExact == [][AcceptedStep]_vars

(***************************************************************************)
(* How far the damage of a refused insert reaches: it stays in the table   *)
(* of its prefix, which keeps its length, and besides its own number only  *)
(* the largest postfix of that table can be lost.  The code writes the     *)
(* shifted entries before it packs the alias.                              *)
(***************************************************************************)
RefusedStep ==
  reply'.status = FAILURE /\ reply'.request.op = "enter" =>
    LET req == reply'.request
        s   == req.nbr.prefix
    IN  /\ OthersKept(s)
        /\ s \in Slots =>
             LET old == index_table[s].ents
                 new == index_table'[s].ents
             IN  /\ Len(new) = Len(old)
                 /\ \A i \in 1..(Len(old) - 1) :
                      \/ old[i].postfix = req.nbr.postfix
                      \/ old[i] \in ToSet(new)

RefusedInsertBounded == [][RefusedStep]_vars

InRange(slot, keys) ==
  {e \in ToSet(index_table[slot].ents) : keys[1] <= e.postfix /\ e.postfix <= keys[2]}

(***************************************************************************)
(* A range answered with SUCCESS has, in order, all numbers between its    *)
(* keys or none, and has them unless they are one or two (RangeComplete).  *)
(* A refused one has none.                                                 *)
(***************************************************************************)
RangeReply == aborted = "none" /\ reply.request.op = "range"

RangeExact ==
  RangeReply =>
    LET ents == reply.table.ents
    IN  /\ reply.status = FAILURE => ents = << >>
        /\ reply.status = SUCCESS =>
             LET found == InRange(reply.request.nbr.prefix, reply.request.keys)
             IN  /\ Ascending(ents) /\ ToSet(ents) \in {found, {}}
                 /\ Cardinality(found) > 2 => ToSet(ents) = found

(***************************************************************************)
(* The assertions of nlkup_get_range fail for a range without numbers in a *)
(* prefix that has a table, and for no other range, whatever the searches  *)
(* for its ends return and whatever tables refused inserts left behind.    *)
(***************************************************************************)
RangeAssertsExact ==
  \A slot \in Slots, keys \in RangeKeys : LET t == index_table[slot] IN
    ~IsNull(t) =>
      \A lo \in SearchResults(t.ents, keys[1]), hi \in SearchResults(t.ents, keys[2]) :
        RangeAsserts(t, RangeStart(lo), RangeEnd(hi)) <=> InRange(slot, keys) # {}

-----------------------------------------------------------------------------
(* What the documentation says, and the code does not do. *)

(***************************************************************************)
(* readme.md: "insert: enter a new alias for a given number, possibly      *)
(* overwriting a previous entry": an insert concerns its own number only.  *)
(***************************************************************************)
InsertStep ==
  reply'.request.op = "enter" /\ reply'.request.nbr.prefix \in Slots =>
    LET s == reply'.request.nbr.prefix
        p == reply'.request.nbr.postfix
    IN  \A q \in Postfixes \ {p} :
          BindingsOf(index_table'[s], q) = BindingsOf(index_table[s], q)

InsertTouchesItsNumberOnly == [][InsertStep]_vars

(***************************************************************************)
(* nlkup.c: "copying [from..to] from origin table": both ends belong to a  *)
(* range, so one that is answered with SUCCESS has all of its numbers,     *)
(* however few.  copy_lkup_tbl_range takes one or two for an empty range.  *)
(***************************************************************************)
RangeComplete ==
  RangeReply /\ reply.status = SUCCESS =>
    ToSet(reply.table.ents) = InRange(reply.request.nbr.prefix, reply.request.keys)
=============================================================================
