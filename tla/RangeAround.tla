----------------------------- MODULE RangeAround -----------------------------
(***************************************************************************)
(* nlkup_get_range_around: the numbers next to a given number, within and  *)
(* across prefixes.  It is the one request that keeps a slot locked while  *)
(* it locks others, and that reads table pointers before it locks them, so *)
(* it is modelled lock by lock, beside inserts and deletes, which hold one *)
(* lock from start to end and are one step each, but for the delete of a   *)
(* last entry.                                                             *)
(*                                                                         *)
(* A table is an object of the heap: delete_entry frees it with its last   *)
(* entry, and malloc may hand the same address out again.  A dereference   *)
(* of a null or freed pointer, a failed assertion and an access past the   *)
(* array end the run in fault; a length read from freed memory without the *)
(* lock may be anything.  Aliases are left out: entries are numbers, and   *)
(* every one of them can be unpacked.                                      *)
(***************************************************************************)
EXTENDS Integers, Sequences, FiniteSets

CONSTANTS
  LastSlot,     \* the slots of index_table are 0..LastSlot
  Postfixes,    \* as ranks, see LookupTbl
  TextLess(_, _), \* strcasecmp on two postfixes
  BadPostfixes, \* postfixes compress_to_buf refuses
  Readers,      \* threads that serve range_around requests
  MaxCount,     \* the largest nbr_before and nbr_after asked for
  Updaters,     \* threads that insert and delete
  NULL

ASSUME SlotAssumption == LastSlot \in Nat /\ MaxCount \in Nat \ {0}
ASSUME RankAssumption ==
  /\ Postfixes \subseteq Int /\ IsFiniteSet(Postfixes)
  /\ BadPostfixes \cap Int = {}

\* Different postfixes are different texts.
ASSUME TextAssumption ==
  \A p, q, u \in Postfixes :
    /\ ~TextLess(p, p)
    /\ TextLess(p, q) /\ TextLess(q, u) => TextLess(p, u)
    /\ TextLess(p, q) \/ TextLess(q, p) \/ p = q
ASSUME NullAssumption == NULL \notin Int

Slots    == 0..LastSlot
TableIds == 0..(LastSlot + 1)  \* addresses: one more than there are slots

\* The server asks for at least one number on each side.
Requests == [slot : Slots, postfix : Postfixes \cup BadPostfixes,
             before : 1..MaxCount, after : 1..MaxCount]

VARIABLES
  ptr,     \* index_table[slot].table
  heap,    \* the postfixes of the table at an address
  allocated, \* the addresses in use
  deletes, \* the delete of a last entry each updater is in
  locked,  \* the slots whose mutex is locked
  robbed,  \* history: the slots unlocked by a call that had not locked them
  torn,    \* history: an insert or delete came into the middle of a delete
  call,    \* the call each reader is in
  fault    \* "none", or what ended the server

index   == <<ptr, heap, allocated>>
history == <<robbed, torn>>
vars    == <<index, deletes, locked, history, call, fault>>

\* The delete of a last entry frees the table, clears the pointer of its slot,
\* and writes to the freed table.
NoDelete == [at |-> "none", slot |-> 0, t |-> 0]

\* A call: where it is, its arguments and its local variables.
NoCall == [pc |-> "idle", nbr |-> << >>, start |-> << >>, t |-> NULL, cur |-> 0,
           pos |-> 0, before |-> 0, after |-> 0, asked |-> << >>, data |-> << >>]

\* A set in ascending order: an element is behind all those smaller than it.
InOrder(S, Less(_, _)) ==
  [i \in 1..Cardinality(S) |->
     CHOOSE x \in S : Cardinality({y \in S : Less(y, x)}) = i - 1]

\* The postfixes at an address, in the order of the table.
Entries(t) == InOrder(heap[t], <)
Live(t)  == t \in allocated
Freed(t) == t # NULL /\ ~Live(t)

Table(slot) == IF ptr[slot] = NULL THEN << >> ELSE Entries(ptr[slot])

\* The slot a call keeps locked from one step to the next, if any.
Copying == {"copy", "before", "lockBefore", "after", "lockAfter"}
Holds(r) == IF call[r].pc \in Copying THEN {call[r].start[1]} ELSE {}

Init ==
  /\ \E dir \in [Slots -> SUBSET Postfixes] :
       /\ ptr  = [s \in Slots |-> IF dir[s] = {} THEN NULL ELSE s]
       /\ heap = [t \in TableIds |-> IF t \in Slots THEN dir[t] ELSE {}]
       /\ allocated = {s \in Slots : dir[s] # {}}
  /\ deletes = [u \in Updaters |-> NoDelete]
  /\ locked = {} /\ robbed = {} /\ torn = FALSE
  /\ call = [r \in Readers |-> NoCall]
  /\ fault = "none"

\* lock_table waits until the slot's mutex is free.
Free(slot) == slot \notin locked

Fail(what) == fault' = what /\ UNCHANGED <<index, deletes, locked, history, call>>

-----------------------------------------------------------------------------
\* Inserts and deletes, each in one critical section.

\* The addresses malloc may return for a table.
FreeTables == {t \in TableIds : ~Live(t)}

\* The deletes of a last entry in the slot.
DeletesIn(slot) ==
  {u \in Updaters : deletes[u].at # "none" /\ deletes[u].slot = slot}

\* The lock is taken, which a delete in the slot has lost if there is one.
Locks(slot) ==
  /\ Free(slot)
  /\ torn' = (torn \/ DeletesIn(slot) # {})
  /\ UNCHANGED robbed

Content(slot) == IF ptr[slot] = NULL THEN {} ELSE heap[ptr[slot]]

\* enter_entry leaves S in the slot's table, which it allocates if need be.
Fill(slot, S) ==
  /\ Locks(slot)
  /\ \/ /\ ptr[slot] = NULL
        /\ \E t \in FreeTables :
             /\ ptr' = [ptr EXCEPT ![slot] = t]
             /\ heap' = [heap EXCEPT ![t] = S]
             /\ allocated' = allocated \cup {t}
     \/ /\ ptr[slot] # NULL /\ Live(ptr[slot])
        /\ heap' = [heap EXCEPT ![ptr[slot]] = S]
        /\ UNCHANGED <<ptr, allocated>>
  /\ UNCHANGED <<deletes, locked, call, fault>>

Enter(slot, p) == Fill(slot, Content(slot) \cup {p})

\* All of a set but its greatest element.
ButGreatest(S) == {p \in S : \E q \in S : p < q}

\* An alias that cannot be packed: a new postfix is in its place already, the
\* length is not raised, and so the last entry is behind the end.
EnterHalf(slot, p) ==
  Fill(slot, IF p \in Content(slot) THEN Content(slot)
             ELSE ButGreatest(Content(slot) \cup {p}))

\* A postfix that cannot be packed: nothing is entered, but a table is allocated.
EnterRefused(slot) == Fill(slot, Content(slot))

Delete(slot, p) ==
  /\ Locks(slot)
  /\ ptr[slot] # NULL /\ Live(ptr[slot])
  /\ p \in heap[ptr[slot]] /\ {p} # heap[ptr[slot]]
  /\ heap' = [heap EXCEPT ![ptr[slot]] = @ \ {p}]
  /\ UNCHANGED <<ptr, allocated, deletes, locked, call, fault>>

\* mutant: the slot is not locked
DeleteLastUnlocked(u, slot, p) ==
  /\ ptr[slot] # NULL /\ Live(ptr[slot]) /\ heap[ptr[slot]] = {p}
  /\ deletes' = [deletes EXCEPT ![u] =
                   [at |-> "freed", slot |-> slot, t |-> ptr[slot]]]
  /\ allocated' = allocated \ {ptr[slot]}
  /\ UNCHANGED <<ptr, heap, locked, history, call, fault>>

\* The last entry takes its table with it: mem_free(t) comes first ...
DeleteLast(u, slot, p) ==
  /\ Locks(slot)
  /\ ptr[slot] # NULL /\ Live(ptr[slot]) /\ heap[ptr[slot]] = {p}
  /\ deletes' = [deletes EXCEPT ![u] =
                   [at |-> "freed", slot |-> slot, t |-> ptr[slot]]]
  /\ allocated' = allocated \ {ptr[slot]}
  /\ locked' = locked \cup {slot}
  /\ UNCHANGED <<ptr, heap, call, fault>>

\* mutant: the pointer to the freed table stays
ClearNothing(u) ==
  /\ deletes[u].at = "freed"
  /\ deletes' = [deletes EXCEPT ![u].at = "cleared"]
  /\ UNCHANGED <<index, locked, history, call, fault>>

\* ... then the pointer to it is cleared ...
ClearPointer(u) ==
  /\ deletes[u].at = "freed"
  /\ ptr' = [ptr EXCEPT ![deletes[u].slot] = NULL]
  /\ deletes' = [deletes EXCEPT ![u].at = "cleared"]
  /\ UNCHANGED <<heap, allocated, locked, history, call, fault>>

\* ... and its table_len and table_sz are set to 0, whosever it is by now.
Wipe(u) ==
  /\ deletes[u].at = "cleared"
  /\ heap' = [heap EXCEPT ![deletes[u].t] = {}]
  /\ deletes' = [deletes EXCEPT ![u] = NoDelete]
  /\ locked' = locked \ {deletes[u].slot}
  /\ UNCHANGED <<ptr, allocated, history, call, fault>>

\* An insert or delete in the middle of a delete may meet the freed table.
UseFreed(slot) ==
  /\ Free(slot) /\ Freed(ptr[slot])
  /\ Fail("freed table used")

Update(u) ==
  \/ /\ deletes[u] = NoDelete
     /\ \E slot \in Slots :
          \/ \E p \in Postfixes :
               \/ Enter(slot, p) \/ EnterHalf(slot, p)
               \/ Delete(slot, p) \/ DeleteLast(u, slot, p)
          \/ BadPostfixes # {} /\ EnterRefused(slot)
          \/ UseFreed(slot)
  \/ ClearPointer(u) \/ Wipe(u)

-----------------------------------------------------------------------------
\* The steps of a call.

\* The call goes on as c; take and release are the slots it locks and unlocks.
Continue(r, c, take, release) ==
  /\ call' = [call EXCEPT ![r] = c]
  /\ locked' = (locked \cup take) \ release
  /\ UNCHANGED <<index, deletes, history, fault>>

\* The table pointer is read before the slot is locked.
Begin(r, req) ==
  /\ call[r].pc = "idle" /\ req.postfix \in Postfixes
  /\ Continue(r, [NoCall EXCEPT !.pc = "search",
                    !.nbr = <<req.slot, req.postfix>>,
                    !.asked = <<req.before, req.after>>,
                    !.before = req.before, !.after = req.after,
                    !.cur = req.slot, !.t = ptr[req.slot]], {}, {})

\* A postfix that cannot be packed: the slot is unlocked, though this call
\* never locked it, and the call fails.
BeginRefused(r, req) ==
  /\ call[r].pc = "idle" /\ req.postfix \in BadPostfixes
  /\ locked' = locked \ {req.slot}
  /\ robbed' = robbed \cup ({req.slot} \cap locked)
  /\ UNCHANGED <<index, deletes, torn, call, fault>>

\* The number of smaller postfixes in a table: the index of p, or where it
\* would be inserted.
Below(t, p) == Cardinality({q \in heap[t] : q < p})

\* The slot is locked, the table read before is searched.  A number that is
\* stored is where the copy starts, with the lock kept; otherwise the slot
\* is unlocked and the search for a neighbour starts at the insertion point.
Search(r) ==
  LET c == call[r]
      p == c.nbr[2]
  IN  /\ c.pc = "search" /\ Free(c.cur)
      /\ \/ /\ c.t = NULL
            /\ Fail("null table searched")
         \/ /\ Freed(c.t)
            /\ Fail("freed table used")
         \/ /\ c.t # NULL /\ Live(c.t) /\ p \in heap[c.t]
            /\ Continue(r, [c EXCEPT !.pc = "copy",
                              !.start = <<c.cur, Below(c.t, p)>>],
                        {c.cur}, {})
         \/ /\ c.t # NULL /\ Live(c.t) /\ p \notin heap[c.t]
            /\ Continue(r, [c EXCEPT !.pc = "nearest",
                              !.pos = Below(c.t, p)], {}, {})

\* find_nearest_table_entry, upwards: the first entry of a further table,
\* or the entry after the position.
NearestInTable(len, pos) ==
  CASE len = 0                       -> -1
    [] len > 0 /\ pos < 0            -> 0
    [] len > 0 /\ pos >= 0           -> IF pos + 1 <= len - 1 THEN pos + 1 ELSE -1

(***************************************************************************)
(* One turn of find_nearest_entry: lock a slot and look for an entry, keep *)
(* the lock when there is one, else go one slot up.  The index is compared *)
(* with the size of the array only after the slot there was used, so the   *)
(* search upwards never reports failure and the one downwards never runs.  *)
(***************************************************************************)
Nearest(r) ==
  LET c == call[r]
      e == NearestInTable(Len(Table(c.cur)), c.pos)
  IN  /\ c.pc = "nearest"
      /\ \/ /\ c.cur > LastSlot
            /\ Fail("slot past the index")
         \/ /\ c.cur \in Slots /\ Free(c.cur) /\ ptr[c.cur] = NULL
            /\ Fail("null table read")
         \/ /\ c.cur \in Slots /\ Free(c.cur) /\ Freed(ptr[c.cur])
            /\ Fail("freed table used")
         \/ /\ c.cur \in Slots /\ Free(c.cur) /\ ptr[c.cur] # NULL
            /\ Live(ptr[c.cur]) /\ e >= 0
            /\ Continue(r, [c EXCEPT !.pc = "copy", !.start = <<c.cur, e>>],
                        {c.cur}, {})
         \/ /\ c.cur \in Slots /\ Free(c.cur) /\ ptr[c.cur] # NULL
            /\ Live(ptr[c.cur]) /\ e < 0
            /\ Continue(r, [c EXCEPT !.cur = @ + 1, !.pos = -1], {}, {})

\* copy_table_data: the entries from..to of the slot's present table, cut to
\* the table and to the room left in the result.
Lesser(a, b) == IF a < b THEN a ELSE b

\* mutant: start_idx < end_idx
CopiedShort(c, slot, from, to, data) ==
  LET ents == Table(slot)
      part == SubSeq(ents, from + 1, to)
  IN  IF from > to \/ ents = << >> THEN data
      ELSE data \o [i \in 1..Len(part) |-> <<slot, part[i]>>]

Copied(c, slot, from, to, data) ==
  LET ents == Table(slot)
      last == Len(ents) - 1
      room == c.asked[1] + c.asked[2] + 1 - Len(data)
      part == SubSeq(ents, Lesser(from, last) + 1, Lesser(to, last) + 1)
      nbrs == [i \in 1..Lesser(Len(part), room) |-> <<slot, part[i]>>]
  IN  IF from > to \/ ents = << >> THEN data ELSE data \o nbrs

\* mutant: the second part begins at the start entry again
CopyStartTwice(r) ==
  LET c     == call[r]
      slot  == c.start[1]
      e     == c.start[2]
      len   == Len(Table(slot))
      first == IF c.before < e THEN e - c.before ELSE 0
      last  == IF c.after < len - (e + 1) THEN e + c.after ELSE len - 1
  IN  /\ c.pc = "copy"
      /\ CASE ptr[slot] = NULL -> Fail("null table read")
           [] Freed(ptr[slot])  -> Fail("freed table used")
           [] OTHER -> Continue(r, [c EXCEPT !.pc = "before", !.cur = slot - 1,
                !.before = @ - (e - first),
                !.after = @ - (last - e),
                !.data = Copied(c, slot, e, last,
                                Copied(c, slot, first, e, << >>))], {}, {})

\* copy_range_data in the start table: up to nbr_before entries, the start
\* itself, up to nbr_after entries.
CopyStart(r) ==
  LET c     == call[r]
      slot  == c.start[1]
      e     == c.start[2]
      len   == Len(Table(slot))
      first == IF c.before < e THEN e - c.before ELSE 0
      last  == IF c.after < len - (e + 1) THEN e + c.after ELSE len - 1
  IN  /\ c.pc = "copy"
      /\ CASE ptr[slot] = NULL -> Fail("null table read")
           [] Freed(ptr[slot])  -> Fail("freed table used")
           [] OTHER -> Continue(r, [c EXCEPT !.pc = "before", !.cur = slot - 1,
                !.before = @ - (e - first),
                !.after = @ - (last - e),
                !.data = Copied(c, slot, e + 1, last,
                                Copied(c, slot, first, e, << >>))], {}, {})

\* A further table is looked at without its lock, and skipped when empty.
MayBeEmpty(slot)   == Table(slot) = << >> \/ Freed(ptr[slot])
MayBeEntered(slot) == Table(slot) # << >> \/ Freed(ptr[slot])

\* mutant: continue without tbl_idx--
PeekBeforeStuck(r) ==
  LET c == call[r]
  IN  /\ c.pc = "before"
      /\ \/ /\ c.before > 0 /\ c.cur >= 0 /\ MayBeEmpty(c.cur)
            /\ Continue(r, c, {}, {})
         \/ /\ c.before > 0 /\ c.cur >= 0 /\ MayBeEntered(c.cur)
            /\ Continue(r, [c EXCEPT !.pc = "lockBefore", !.t = ptr[c.cur]], {}, {})
         \/ /\ ~(c.before > 0 /\ c.cur >= 0)
            /\ Continue(r, [c EXCEPT !.pc = "after", !.cur = c.start[1] + 1], {}, {})

PeekBefore(r) ==
  LET c == call[r]
  IN  /\ c.pc = "before"
      /\ \/ /\ c.before > 0 /\ c.cur >= 0 /\ MayBeEmpty(c.cur)
            /\ Continue(r, [c EXCEPT !.cur = @ - 1], {}, {})
         \/ /\ c.before > 0 /\ c.cur >= 0 /\ MayBeEntered(c.cur)
            /\ Continue(r, [c EXCEPT !.pc = "lockBefore", !.t = ptr[c.cur]], {}, {})
         \/ /\ ~(c.before > 0 /\ c.cur >= 0)
            /\ Continue(r, [c EXCEPT !.pc = "after", !.cur = c.start[1] + 1], {}, {})

\* Locked now, its length is read through the pointer found before.
LockBefore(r) ==
  LET c     == call[r]
      len   == Cardinality(heap[c.t])
      first == IF len < c.before THEN 0 ELSE len - c.before
  IN  /\ c.pc = "lockBefore" /\ Free(c.cur)
      /\ \/ /\ Freed(c.t) \/ Freed(ptr[c.cur])
            /\ Fail("freed table used")
         \/ /\ Live(c.t) /\ ~Freed(ptr[c.cur])
            /\ Continue(r, [c EXCEPT !.pc = "before", !.cur = @ - 1,
                  !.before = @ - (len - first),
                  !.data = Copied(c, c.cur, first, len - 1, @)], {}, {})

\* Behind the last table the start slot is unlocked and the result sorted,
\* as text and so not in the order of the table: 12 comes before 7 here.
Alphabetical(m, n) == m[1] < n[1] \/ (m[1] = n[1] /\ TextLess(m[2], n[2]))

\* The place of what comes i-th: i - 1 come before it, of equal ones the first.
Place(data, i) ==
  CHOOSE k \in DOMAIN data :
    Cardinality({l \in DOMAIN data : \/ Alphabetical(data[l], data[k])
                                     \/ ~Alphabetical(data[k], data[l]) /\ l < k}) = i - 1

Sorted(data) == [i \in DOMAIN data |-> data[Place(data, i)]]

\* mutant: the start slot stays locked when there is no further table
PeekAfterKeepsLock(r) ==
  LET c == call[r]
  IN  /\ c.pc = "after"
      /\ \/ /\ c.after > 0 /\ c.cur <= LastSlot /\ MayBeEmpty(c.cur)
            /\ Continue(r, [c EXCEPT !.cur = @ + 1], {}, {})
         \/ /\ c.after > 0 /\ c.cur <= LastSlot /\ MayBeEntered(c.cur)
            /\ Continue(r, [c EXCEPT !.pc = "lockAfter", !.t = ptr[c.cur]], {}, {})
         \/ /\ ~(c.after > 0 /\ c.cur <= LastSlot)
            /\ Continue(r, [c EXCEPT !.pc = "answered",
                              !.data = Sorted(@)], {}, {})

PeekAfter(r) ==
  LET c == call[r]
  IN  /\ c.pc = "after"
      /\ \/ /\ c.after > 0 /\ c.cur <= LastSlot /\ MayBeEmpty(c.cur)
            /\ Continue(r, [c EXCEPT !.cur = @ + 1], {}, {})
         \/ /\ c.after > 0 /\ c.cur <= LastSlot /\ MayBeEntered(c.cur)
            /\ Continue(r, [c EXCEPT !.pc = "lockAfter", !.t = ptr[c.cur]], {}, {})
         \/ /\ ~(c.after > 0 /\ c.cur <= LastSlot)
            /\ Continue(r, [c EXCEPT !.pc = "answered",
                              !.data = Sorted(@)], {}, {c.start[1]})

LockAfter(r) ==
  LET c    == call[r]
      len  == Cardinality(heap[c.t])
      last == IF c.after - 1 >= len THEN len - 1 ELSE c.after - 1
  IN  /\ c.pc = "lockAfter" /\ Free(c.cur)
      /\ \/ /\ Freed(c.t) \/ Freed(ptr[c.cur])
            /\ Fail("freed table used")
         \/ /\ Live(c.t) /\ ~Freed(ptr[c.cur])
            /\ Continue(r, [c EXCEPT !.pc = "after", !.cur = @ + 1,
                  !.after = @ - (last + 1),
                  !.data = Copied(c, c.cur, 0, last, @)], {}, {})

\* The reply is sent.
Return(r) ==
  /\ call[r].pc = "answered"
  /\ Continue(r, NoCall, {}, {})

Work(r) ==
  \/ Search(r) \/ Nearest(r) \/ CopyStart(r)
  \/ PeekBefore(r) \/ LockBefore(r)
  \/ PeekAfter(r) \/ LockAfter(r)
  \/ Return(r)

Next ==
  /\ fault = "none"
  /\ \/ \E r \in Readers : Work(r)
     \/ \E r \in Readers, req \in Requests : Begin(r, req) \/ BeginRefused(r, req)
     \/ \E u \in Updaters : Update(u)

Spec == Init /\ [][Next]_vars

\* Threads that can run do run; no request needs to arrive.  A mutex that
\* is freed again and again is taken in the end, which is strong fairness.
FairSpec ==
  /\ Spec
  /\ \A r \in Readers : SF_vars(fault = "none" /\ Work(r))
  /\ \A u \in Updaters : WF_vars(fault = "none" /\ (ClearPointer(u) \/ Wipe(u)))

-----------------------------------------------------------------------------
\* Types; the counts left can exceed those asked for: when the index found in
\* a recycled table lies behind the end of the slot's own one, copy_range_data
\* subtracts a negative number.
TypeOK ==
  /\ ptr \in [Slots -> TableIds \cup {NULL}]
  /\ heap \in [TableIds -> SUBSET Postfixes]
  /\ allocated \subseteq TableIds
  /\ deletes \in [Updaters -> [at : {"none", "freed", "cleared"}, slot : Slots, t : TableIds]]
  /\ locked \subseteq Slots /\ robbed \subseteq Slots
  /\ \A r \in Readers : /\ call[r].before \in 0..(MaxCount + Cardinality(Postfixes))
                        /\ call[r].after \in 0..(MaxCount + Cardinality(Postfixes))
                        /\ call[r].cur \in -1..(LastSlot + 1)

\* A delete has freed the slot's table and not yet cleared the pointer to it.
Dangling(slot) == \E u \in DeletesIn(slot) : deletes[u].at = "freed"

(***************************************************************************)
(* Two slots point to the same table only in between mem_free(t) and       *)
(* table = NULL of a delete_entry of one of them, whatever is freed and    *)
(* allocated between the steps of the calls; unless an insert or delete    *)
(* came into the middle of a delete, when a table can be freed twice.      *)
(***************************************************************************)
TablesDisjoint ==
  ~torn =>
    \A s, u \in Slots :
      ptr[s] # NULL /\ s # u /\ ptr[s] = ptr[u] => Dangling(s) \/ Dangling(u)

(***************************************************************************)
(* nlkup.h: the mutex of a slot is its "thread-safety": no two calls, nor  *)
(* a call and a delete, nor two deletes are in the critical section of one *)
(* slot, and nothing comes into the middle of a delete, unless a refused   *)
(* range_around has unlocked the slot.                                     *)
(***************************************************************************)
MutualExclusion ==
  /\ \A slot \in Slots \ robbed :
       /\ \A r, q \in Readers : r # q => slot \notin Holds(r) \cap Holds(q)
       /\ \A r \in Readers : slot \in Holds(r) => DeletesIn(slot) = {}
       /\ \A u, v \in DeletesIn(slot) : u = v
  /\ torn => robbed # {}

\* The delete of another slot sets the table's length to 0 after freeing it.
WipedLate(slot) ==
  /\ Table(slot)' = << >>
  /\ \E u \in Updaters \ DeletesIn(slot) :
       deletes[u].at = "cleared" /\ deletes[u].t = ptr[slot] /\ deletes'[u] = NoDelete

(***************************************************************************)
(* While a call keeps its start slot, that slot's table does not change,   *)
(* so the index found there stays the index of the entry.  It can change   *)
(* in three ways only: a delete still writes to memory it freed, which     *)
(* malloc gave to this slot; a refused range_around unlocked this slot; or *)
(* an insert or delete came into the middle of a delete.                   *)
(***************************************************************************)
StartTableStable ==
  [][\A r \in Readers : \A slot \in Holds(r) :
       Table(slot)' = Table(slot) \/ WipedLate(slot) \/ slot \in robbed \/ torn']_vars

(***************************************************************************)
(* With inserts and deletes all around, and with tables freed and their     *)
(* addresses used again between two steps of the call, a reply still holds *)
(* no number twice, is in order, and is not longer than the array          *)
(* allocated for it.                                                       *)
(***************************************************************************)
ReplyWellFormed ==
  \A r \in Readers : LET c == call[r] IN c.pc = "answered" =>
    /\ \A i, j \in 1..Len(c.data) : i < j => Alphabetical(c.data[i], c.data[j])
    /\ Len(c.data) <= c.asked[1] + c.asked[2] + 1

\* A single range_around among inserts and deletes always ends, in a reply
\* or in the end of the server.
RequestEnds ==
  \A r \in Readers : call[r].pc # "idle" ~> (call[r].pc = "idle" \/ fault # "none")

\* The slots a call waits for, if they are locked.
WaitsFor(r) ==
  IF call[r].pc \in {"search", "nearest", "lockBefore", "lockAfter"}
  THEN {call[r].cur} ELSE {}

Blocked(r) == WaitsFor(r) \cap locked # {}

\* Readers of which each waits for a slot that another of them keeps.
CircularWait ==
  \E circle \in SUBSET Readers \ {{}} :
    \A r \in circle : \E q \in circle \ {r} : WaitsFor(r) \cap Holds(q) # {}

(***************************************************************************)
(* nlkup_get_range_around locks further slots while it keeps its start     *)
(* slot, which "avoids need for global locking".  Calls can do so in       *)
(* opposite directions and wait for each other, two of them or more; this  *)
(* is the only way for calls to be stuck.  None waits for itself, and no   *)
(* lock is left behind, by a call that ended or by a delete, which others  *)
(* would wait for.                                                         *)
(***************************************************************************)
StuckOnlyInCircle ==
  (\E r \in Readers : Blocked(r)) =>
    \/ \E q \in Readers : call[q].pc # "idle" /\ ~Blocked(q)
    \/ \E u \in Updaters : deletes[u] # NoDelete
    \/ CircularWait
=============================================================================
