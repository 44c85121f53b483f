------------------------------ MODULE HashTable ------------------------------
(***************************************************************************)
(* The chained hash table of hashtable.c: an array of buckets, each a list *)
(* of elements with a key and its data.  Every operation runs under the    *)
(* table's mutex, so it is an operator on the whole table here; only       *)
(* HT_iterate, whose callback reads what other threads write without the   *)
(* mutex, is left to its caller, element by element.                        *)
(***************************************************************************)
EXTENDS Integers, SequencesExt

CONSTANTS
  Size,  \* the number of buckets
  Keys,
  Hash   \* the bucket of each key

ASSUME SizeAssumption == Size \in Nat \ {0}

Buckets == 0..(Size - 1)

ASSUME HashAssumption == Hash \in [Keys -> Buckets]

\* HT_new.
HTNew == [b \in Buckets |-> << >>]

\* The places of a key in its bucket.
Places(tbl, key) == {i \in 1..Len(tbl[Hash[key]]) : tbl[Hash[key]][i].key = key}

\* HT_lookup: the data found first, or none for NULL.
HTLookup(tbl, key) ==
  {tbl[Hash[key]][i].data :
     i \in {i \in Places(tbl, key) : \A j \in Places(tbl, key) : i <= j}}

\* HT_insert without overwriting: at the head of the list, unless the key is
\* there.
HTInsert(tbl, key, data) ==
  IF Places(tbl, key) # {} THEN tbl
  ELSE [tbl EXCEPT ![Hash[key]] = <<[key |-> key, data |-> data]>> \o @]

\* mutant: always the head of the list is unlinked
HTUnlinkHead(tbl, b, i) == [tbl EXCEPT ![b] = Tail(@)]

\* What HT_iterate does to an element whose callback answers HT_DELETE_KEY: it
\* is unlinked and freed, the others stay in their order.
HTUnlink(tbl, b, i) == [tbl EXCEPT ![b] = RemoveAt(@, i)]

\* What the table promises: every key is in its own bucket, and once.
ChainsSound(tbl) ==
  \A b \in Buckets :
    /\ \A i \in 1..Len(tbl[b]) : Hash[tbl[b][i].key] = b
    /\ \A i, j \in 1..Len(tbl[b]) : tbl[b][i].key = tbl[b][j].key => i = j

TableData(tbl) == UNION {{tbl[b][i].data : i \in 1..Len(tbl[b])} : b \in Buckets}
=============================================================================
