------------------------------ MODULE LookupTbl ------------------------------
(***************************************************************************)
(* One lookup table of nlkup: the sorted array of (postfix, alias) entries *)
(* that a slot of the prefix index points to (LkupTbl of nlkup.h, the      *)
(* static helpers of nlkup.c).                                             *)
(*                                                                         *)
(* A postfix is an integer: its rank in the order of compare_entry, which  *)
(* compares the packed bytes, the length byte first.  A table is a record  *)
(* of its used entries and of table_sz, the number of entries its array    *)
(* has room for; table_len is the length of the used part.                 *)
(***************************************************************************)
EXTENDS Integers, SequencesExt

CONSTANTS
  BlkSize,      \* DEF_LKUP_BLK_SIZE: entries added or removed at a time
  Postfixes,    \* the postfixes compress_to_buf packs, as ranks
  Aliases,      \* aliases of at most 15 digits
  WideAliases,  \* 16 digits: packed into ALIAS_LENGTH bytes, too long to unpack
  LongAliases,  \* over 16 digits: refused before the destination is written
  BadAliases,   \* with a non-digit: refused after the destination is wiped
  EmptyAlias    \* the alias of no digits, what a wiped destination holds

\* The aliases compress_to_buf accepts.
Packable == Aliases \cup WideAliases

\* The values the alias field of an entry can hold.
Stored == Packable \cup {EmptyAlias}

AliasInputs == Packable \cup LongAliases \cup BadAliases

ASSUME BlkSizeAssumption == BlkSize \in Nat \ {0}
ASSUME PostfixAssumption == Postfixes \subseteq Int
ASSUME AliasAssumption ==
  /\ Stored \cap (LongAliases \cup BadAliases) = {}
  /\ LongAliases \cap BadAliases = {}
  /\ Aliases \cap WideAliases = {}
  /\ EmptyAlias \notin Packable

Entry == [postfix : Postfixes, alias : Stored]
Table == [ents : Seq(Entry), sz : Nat]

(***************************************************************************)
(* The slot's NULL pointer.  An allocated table always has room for an     *)
(* entry, so sz = 0 tells the two apart.                                   *)
(***************************************************************************)
NullTable == [ents |-> << >>, sz |-> 0]
EmptyTable == [ents |-> << >>, sz |-> BlkSize]

IsNull(t) == t.sz = 0

(***************************************************************************)
(* What a table promises: its postfixes strictly ascend, which is what the *)
(* binary search needs and what makes a number occur once.                 *)
(***************************************************************************)
Ascending(ents) ==
  \A i, j \in 1..Len(ents) : i < j => ents[i].postfix < ents[j].postfix

\* The used part fits the array, with at most one block to spare.
SpareBlock(t) ==
  IF IsNull(t) THEN t.ents = << >>
               ELSE Len(t.ents) <= t.sz /\ t.sz <= Len(t.ents) + BlkSize

\* What a table says, as a set of (postfix, alias).
Bindings(t) == {<<t.ents[i].postfix, t.ents[i].alias>> : i \in DOMAIN t.ents}

BindingsOf(t, p) == {b \in Bindings(t) : b[1] = p}

(***************************************************************************)
(* The results search_entry_in_table may return for postfix p: the index   *)
(* (from 0) of p's entry, or -k-1 where k is the insertion point, with the *)
(* smaller postfixes below it and the larger ones from it on.  Module      *)
(* BinarySearch has the loop itself, and shows that it returns one of      *)
(* these on every ascending table.                                         *)
(***************************************************************************)
Found(ents, p, r) == r \in 0..(Len(ents) - 1) /\ ents[r + 1].postfix = p

InsertionPoint(ents, p, k) ==
  /\ k \in 0..Len(ents)
  /\ \A i \in 1..k : ents[i].postfix < p
  /\ \A i \in (k + 1)..Len(ents) : ents[i].postfix > p

SearchResults(ents, p) ==
  {r \in (-Len(ents) - 1)..(Len(ents) - 1) :
     IF r >= 0 THEN Found(ents, p, r) ELSE InsertionPoint(ents, p, -r - 1)}

-----------------------------------------------------------------------------
(***************************************************************************)
(* What an alias field holds after compress_to_buf, given what it held:    *)
(* an alias too long for the field returns before the memset, a non-digit  *)
(* is met after it.                                                        *)
(***************************************************************************)
CompressAliasUnchecked(al, old) == al  \* mutant: the return code is ignored

CompressAlias(al, old) ==
  CASE al \in Packable    -> al
    [] al \in LongAliases -> old
    [] al \in BadAliases  -> EmptyAlias

(***************************************************************************)
(* The new-key path of enter_entry at insertion point k: make room (the    *)
(* array grows when full), shift the upper part up, write the postfix,     *)
(* pack the alias in place.  When the alias is refused the function        *)
(* returns before table_len++, so the last of the shifted entries stays    *)
(* out of the used part.                                                   *)
(***************************************************************************)
GrownSizeLate(t) == IF Len(t.ents) > t.sz THEN t.sz + BlkSize ELSE t.sz  \* mutant

GrownSize(t) == IF Len(t.ents) >= t.sz THEN t.sz + BlkSize ELSE t.sz

\* mutant: shift_table_up starts one entry too high
InsertNewAbove(t, k, p, al) ==
  [ents |-> InsertAt(t.ents, (IF k < Len(t.ents) THEN k + 2 ELSE k + 1),
                     [postfix |-> p, alias |-> CompressAlias(al, EmptyAlias)]),
   sz   |-> GrownSize(t)]

\* mutant: table_len++ before the alias is packed
InsertNewCounted(t, k, p, al) ==
  [ents |-> InsertAt(t.ents, k + 1,
                     [postfix |-> p, alias |-> CompressAlias(al, EmptyAlias)]),
   sz   |-> GrownSize(t)]

InsertNew(t, k, p, al) ==
  LET old     == IF k < Len(t.ents) THEN t.ents[k + 1].alias ELSE EmptyAlias
      shifted == InsertAt(t.ents, k + 1,
                          [postfix |-> p, alias |-> CompressAlias(al, old)])
  IN  [ents |-> IF al \in Packable THEN shifted
                                   ELSE SubSeq(shifted, 1, Len(t.ents)),
       sz   |-> GrownSize(t)]

OverwriteSkipped(t, r, al) == t  \* mutant: a duplicate is left as it is

\* The duplicate path of enter_entry: the alias of entry r is packed over.
Overwrite(t, r, al) ==
  [ents |-> [t.ents EXCEPT ![r + 1].alias =
               CompressAlias(al, t.ents[r + 1].alias)],
   sz   |-> t.sz]

\* enter_entry once the search returned r.
EnterAt(t, r, p, al) ==
  IF r < 0 THEN InsertNew(t, -r - 1, p, al) ELSE Overwrite(t, r, al)

(***************************************************************************)
(* delete_entry of the entry at r: the last entry takes the table with it, *)
(* otherwise the upper part is shifted down and a whole spare block is     *)
(* given back (shrink_table).                                              *)
(***************************************************************************)
ShrunkSizeNever(sz, len) == sz  \* mutant: shrink_table is not called

ShrunkSize(sz, len) == IF sz - len >= BlkSize THEN sz - BlkSize ELSE sz

\* mutant: shift_table_down keeps the entry and drops the next one
DeleteAtNext(t, r) ==
  IF Len(t.ents) = 1
  THEN NullTable
  ELSE [ents |-> RemoveAt(t.ents, (IF r + 2 <= Len(t.ents) THEN r + 2 ELSE r + 1)),
        sz   |-> ShrunkSize(t.sz, Len(t.ents) - 1)]

DeleteAt(t, r) ==
  IF Len(t.ents) = 1
  THEN NullTable
  ELSE [ents |-> RemoveAt(t.ents, r + 1),
        sz   |-> ShrunkSize(t.sz, Len(t.ents) - 1)]

(***************************************************************************)
(* copy_lkup_tbl_range: the entries from..to (from 0) in a table of their  *)
(* own, or nothing when to - 1 <= from.                                    *)
(***************************************************************************)
CopyRange(t, from, to) ==
  IF to - 1 <= from
  THEN NullTable
  ELSE [ents |-> SubSeq(t.ents, from + 1, to + 1), sz |-> to - from + 1]

\* Found search results keep their index; a missing key of a range is moved
\* to the nearest entry inside the range (nlkup_get_range).
RangeStart(r) == IF r < 0 THEN -r - 1 ELSE r
RangeEndAbove(r) == IF r < 0 THEN -r - 1 ELSE r  \* mutant: the insertion point itself
RangeEnd(r)   == IF r < 0 THEN -r - 2 ELSE r

=============================================================================
