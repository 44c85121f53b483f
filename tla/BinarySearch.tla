---------------------------- MODULE BinarySearch ----------------------------
(***************************************************************************)
(* The loop of search_entry_in_table (nlkup.c), one iteration per step, on *)
(* any table and key.  NumberIndex uses its result, SearchResults of       *)
(* LookupTbl; here is why the loop delivers it.                            *)
(***************************************************************************)
EXTENDS LookupTbl

CONSTANTS
  Searches  \* <<entries, postfix>>: the tables and keys searched

ASSUME SearchesAssumption ==
  Searches \subseteq {ents \in Seq(Entry) : Ascending(ents)} \X Int

VARIABLES
  ents, key,         \* the arguments
  left, right, mid,  \* the part still to search, and its middle
  cmp,               \* what compare_entry last said
  pc,                \* "loop" or "done"
  result

vars == <<ents, key, left, right, mid, cmp, pc, result>>

\* compare_entry.
Compare(p, q) == CASE p < q -> -1 [] p = q -> 0 [] p > q -> 1

\* An empty table is answered with -1 before the loop.
Init ==
  /\ \E s \in Searches : ents = s[1] /\ key = s[2]
  /\ left = 0 /\ right = Len(ents) - 1
  /\ mid = 0 /\ cmp = 0
  /\ pc = IF Len(ents) = 0 THEN "done" ELSE "loop"
  /\ result = IF Len(ents) = 0 THEN -1 ELSE 0

\* One turn of the while loop.
Probe ==
  /\ pc = "loop" /\ left <= right
  /\ mid' = (left + right) \div 2
  /\ cmp' = Compare(ents[mid' + 1].postfix, key)
  /\ left'  = IF cmp' < 0 THEN mid' + 1 ELSE left
  /\ right' = IF cmp' > 0 THEN mid' - 1 ELSE right
  /\ pc'     = IF cmp' = 0 THEN "done" ELSE "loop"
  /\ result' = IF cmp' = 0 THEN mid' ELSE result
  /\ UNCHANGED <<ents, key>>

\* mutant: the side of the last comparison is forgotten
NotFoundAtMid ==
  /\ pc = "loop" /\ left > right
  /\ result' = -mid - 1
  /\ pc' = "done"
  /\ UNCHANGED <<ents, key, left, right, mid, cmp>>

\* The loop is over: -insertion point - 1, one further when the last entry
\* probed is smaller than the key.
NotFound ==
  /\ pc = "loop" /\ left > right
  /\ result' = IF cmp < 0 THEN -mid - 2 ELSE -mid - 1
  /\ pc' = "done"
  /\ UNCHANGED <<ents, key, left, right, mid, cmp>>

Next == Probe \/ NotFound

Spec == Init /\ [][Next]_vars

-----------------------------------------------------------------------------
\* Types only.
TypeOK ==
  /\ ents \in Seq(Entry) /\ key \in Int
  /\ left \in Nat /\ right \in Int /\ mid \in Int /\ result \in Int
  /\ cmp \in {-1, 0, 1} /\ pc \in {"loop", "done"}

(***************************************************************************)
(* The result is the index of the key, or -k-1 for its insertion point k,  *)
(* although the code computes k from the last mid and cmp and not from     *)
(* left: off by one and an insert would break the order.                   *)
(***************************************************************************)
ResultCorrect == pc = "done" => result \in SearchResults(ents, key)

(***************************************************************************)
(* What the loop keeps: everything below left is smaller than the key,     *)
(* everything above right is larger, and the last mid is next to the gap   *)
(* on the side cmp tells.                                                  *)
(***************************************************************************)
Bracket ==
  /\ Ascending(ents)
  /\ left <= right + 1 /\ right < Len(ents)
  /\ \A i \in 1..left : ents[i].postfix < key
  /\ \A i \in (right + 2)..Len(ents) : ents[i].postfix > key
  /\ pc = "loop" /\ left > right => cmp # 0
  /\ cmp < 0 => left = mid + 1
  /\ cmp > 0 => right = mid - 1
=============================================================================
