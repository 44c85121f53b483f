------------------------------ MODULE Snapshot ------------------------------
(***************************************************************************)
(* What is in a checkpoint: the checkpoint thread dumps the index slot by  *)
(* slot, each under its lock, while other threads update it (dump_all_fn   *)
(* of utils.c); the server starts from the file dump.bin (restore_all_fn), *)
(* which an operator made from such a dump.  Dumps fail, the server stops  *)
(* or breaks down in the middle of one, and stdio may have written less    *)
(* than the program did.                                                   *)
(*                                                                         *)
(* The content of a table is one value; its header, with its length, and   *)
(* its entries are written apart, so a file could mix two contents.  Two   *)
(* things get past the lock of a slot: the last writes of delete_entry to  *)
(* a table it has freed, which may be another slot's by then, and          *)
(* nlkup_get_range_around, which frees a lock it does not have.  That one  *)
(* also keeps the lock of its start while it waits for others: module      *)
(* RangeAround has how, and that it may be for ever.                       *)
(*                                                                         *)
(* A part of a block is as good as none, since restore_table refuses it. A *)
(* file does not change once its dump is over, so it is enough that the    *)
(* operator copies it while it is there in progress, all of it or a part.  *)
(***************************************************************************)
EXTENDS Integers, SequencesExt

CONSTANTS
  NSlots,   \* INDEX_SIZE - INDEX_OFFSET
  Tables,   \* the contents a table can have
  NoTable,  \* a slot without numbers: no table, or an empty one
  Torn,     \* what is read when header and entries do not fit
  MaxCalls  \* a bound: deletes and range calls that have a lock at once

ASSUME NSlotsAssumption == NSlots \in Nat /\ MaxCalls \in Nat
ASSUME TablesAssumption == {NoTable, Torn} \cap Tables = {} /\ NoTable # Torn

Slots == 1..NSlots
Contents == Tables \cup {NoTable, Torn}

VARIABLES
  server,
  index_table,
  locked,     \* the slots whose mutex is held
  kept,       \* those that a range call is going to free
  deleting,   \* those where a delete has freed the table and not ended
  reused,     \* whose tables were allocated since, for each of these
  dump,       \* the dump in progress
  held,       \* what each slot held since that dump began
  dump_bin

vars == <<server, index_table, locked, kept, deleting, reused, dump, held, dump_bin>>
others == <<kept, deleting, reused>>

NotHeld == [i \in Slots |-> {}]
\* spoilt: the slots that were not locked all the time between header and
\* entries, or whose table was written to without their lock.
NoDump == [on |-> FALSE, blocks |-> << >>, half |-> FALSE, header |-> NoTable,
           spoilt |-> {}]
NoIndex == [i \in Slots |-> NoTable]

Block(header, entries) == [header |-> header, entries |-> entries]

Init ==
  /\ server = "down"
  /\ index_table = NoIndex
  /\ locked = {} /\ kept = {} /\ deleting = {} /\ reused = NotHeld
  /\ dump = NoDump
  /\ held = NotHeld
  \* What the slots held while it was written is not in the file; properties
  \* are about it.
  /\ \E first \in [Slots -> Tables \cup {NoTable}] :
       dump_bin = [blocks |-> [i \in Slots |-> Block(first[i], first[i])],
                   held |-> [i \in Slots |-> {first[i]}], spoilt |-> {}]

-----------------------------------------------------------------------------
\* mutant: an update does not wait for the lock
UnlockedAlways(i) == i \in Slots

Unlocked(i) == i \notin locked

\* The slot which is being dumped.
Pos == Len(dump.blocks) + 1

Holds(i, t) == held' = [held EXCEPT ![i] = IF dump.on THEN @ \cup {t} ELSE @]

\* The dump, when something happened to slots that their locks are to prevent.
Disturbed(slots) ==
  IF dump.half THEN [dump EXCEPT !.spoilt = @ \cup (slots \cap {Pos})] ELSE dump

\* An insert of another thread, or a delete that leaves other numbers.
Update(i, t) ==
  /\ server = "up" /\ Unlocked(i)
  /\ index_table' = [index_table EXCEPT ![i] = t]
  /\ Holds(i, t)
  /\ reused' = [j \in Slots |-> IF j \in deleting /\ index_table[i] = NoTable
                                THEN reused[j] \cup {i} ELSE reused[j]]
  /\ UNCHANGED <<server, locked, kept, deleting, dump, dump_bin>>

CallsBounded == Cardinality(kept) + Cardinality(deleting) < MaxCalls

\* delete_entry of the last number: the table is freed ...
DeleteLast(i) ==
  /\ server = "up" /\ Unlocked(i) /\ CallsBounded /\ index_table[i] # NoTable
  /\ index_table' = [index_table EXCEPT ![i] = NoTable]
  /\ Holds(i, NoTable)
  /\ locked' = locked \cup {i} /\ deleting' = deleting \cup {i}
  /\ reused' = [reused EXCEPT ![i] = {}]
  /\ UNCHANGED <<server, kept, dump, dump_bin>>

\* ... and then its length set to 0, under no lock but that of the slot it
\* was in, before this one is freed.
DeleteEnds(i) ==
  /\ i \in deleting
  /\ deleting' = deleting \ {i} /\ locked' = locked \ {i}
  /\ reused' = [reused EXCEPT ![i] = {}]
  /\ \/ dump' = Disturbed({i}) /\ UNCHANGED <<index_table, held>>
     \/ \E j \in reused[i] \ {i} :
          /\ index_table' = [index_table EXCEPT ![j] = NoTable]
          /\ Holds(j, NoTable)
          /\ dump' = Disturbed({i, j})
  /\ UNCHANGED <<server, kept, dump_bin>>

\* A range call locks the slot of its start, or one of its window, ...
Keep(i) ==
  /\ server = "up" /\ Unlocked(i) /\ CallsBounded
  /\ locked' = locked \cup {i} /\ kept' = kept \cup {i}
  /\ UNCHANGED <<server, index_table, deleting, reused, dump, held, dump_bin>>

\* ... and frees it.
Free(i) ==
  /\ i \in kept
  /\ locked' = locked \ {i} /\ kept' = kept \ {i}
  /\ dump' = Disturbed({i})
  /\ UNCHANGED <<server, index_table, deleting, reused, held, dump_bin>>

\* A range call with a number that cannot be packed frees a slot which it
\* did not lock.
FreeUnlocked(i) ==
  /\ server = "up" /\ i \in locked
  /\ locked' = locked \ {i}
  /\ dump' = Disturbed({i})
  /\ UNCHANGED <<server, index_table, kept, deleting, reused, held, dump_bin>>

DumpBegin ==
  /\ server = "up" /\ ~dump.on
  /\ dump' = [NoDump EXCEPT !.on = TRUE]
  /\ held' = [i \in Slots |-> {index_table[i]}]
  /\ UNCHANGED <<server, index_table, locked, others, dump_bin>>

Dumping == dump.on /\ Pos \in Slots

\* dump_table: a slot without a table is written at once ...
DumpEmpty ==
  /\ Dumping /\ ~dump.half /\ Pos \notin locked /\ index_table[Pos] = NoTable
  /\ dump' = [dump EXCEPT !.blocks = Append(@, Block(NoTable, NoTable))]
  /\ UNCHANGED <<server, index_table, locked, others, held, dump_bin>>

\* ... the header of a table before ...
DumpHeader ==
  /\ Dumping /\ ~dump.half /\ Pos \notin locked
  /\ locked' = locked \cup {Pos}
  /\ dump' = [dump EXCEPT !.half = TRUE, !.header = index_table[Pos]]
  /\ UNCHANGED <<server, index_table, others, held, dump_bin>>

\* ... its entries, all under its lock.
DumpEntries ==
  /\ Dumping /\ dump.half
  /\ locked' = locked \ {Pos}
  /\ dump' = [dump EXCEPT !.blocks = Append(@, Block(dump.header, index_table[Pos])),
                          !.half = FALSE, !.header = NoTable]
  /\ UNCHANGED <<server, index_table, others, held, dump_bin>>

\* mutant: the error path of dump_table leaves its slot locked
DumpFailsLocked ==
  /\ Dumping /\ (Pos \in locked => dump.half)
  /\ dump' = NoDump /\ held' = NotHeld
  /\ UNCHANGED <<server, index_table, locked, others, dump_bin>>

\* A write fails: the lock is freed, the file is closed and stays as it is.
DumpFails ==
  /\ Dumping /\ (Pos \in locked => dump.half)
  /\ locked' = locked \ {Pos}
  /\ dump' = NoDump /\ held' = NotHeld
  /\ UNCHANGED <<server, index_table, others, dump_bin>>

\* fclose, successful or not.
DumpEnd ==
  /\ dump.on /\ Pos \notin Slots
  /\ dump' = NoDump /\ held' = NotHeld
  /\ UNCHANGED <<server, index_table, locked, others, dump_bin>>

\* What reached the disk of a dump in progress: some prefix.  That is
\* also what remains of it when it breaks off, or when fclose fails.
OnDisk ==
  {[blocks |-> SubSeq(dump.blocks, 1, n),
    held   |-> [i \in Slots |-> IF i <= n THEN held[i] \cap {dump.blocks[i].entries} ELSE {}],
    spoilt |-> {i \in dump.spoilt : i <= n}] : n \in 0..Len(dump.blocks)}

\* An operator takes a checkpoint file for dump.bin.
Copy ==
  /\ dump.on
  /\ \E f \in OnDisk : dump_bin' = f
  /\ UNCHANGED <<server, index_table, locked, others, dump, held>>

\* The server stops, or breaks down.
Stop ==
  /\ server = "up"
  /\ server' = "down"
  /\ index_table' = NoIndex /\ dump' = NoDump /\ held' = NotHeld
  /\ locked' = {} /\ kept' = {} /\ deleting' = {} /\ reused' = NotHeld
  /\ UNCHANGED dump_bin

\* restore_table reads as many entries as the header says: of a block that
\* does not fit it makes some table, or the server does not come up.
Restored(block) == IF block.header = block.entries THEN block.entries ELSE Torn

\* mutant: that a table could not be read is ignored
StartAnyway ==
  /\ server = "down"
  /\ server' = "up"
  /\ index_table' = [i \in Slots |-> IF i <= Len(dump_bin.blocks)
                                     THEN Restored(dump_bin.blocks[i]) ELSE NoTable]
  /\ UNCHANGED <<locked, others, dump, held, dump_bin>>

\* nlkup_init: the server starts with all tables of dump.bin or not at all.
Start ==
  /\ server = "down" /\ Len(dump_bin.blocks) = NSlots
  /\ server' = "up"
  /\ index_table' = [i \in Slots |-> Restored(dump_bin.blocks[i])]
  /\ UNCHANGED <<locked, others, dump, held, dump_bin>>

Dump == DumpEmpty \/ DumpHeader \/ DumpEntries \/ DumpFails \/ DumpEnd

Next ==
  \/ \E i \in Slots, t \in Tables : Update(i, t)
  \/ \E i \in Slots : \/ DeleteLast(i) \/ DeleteEnds(i)
                      \/ Keep(i) \/ Free(i) \/ FreeUnlocked(i)
  \/ DumpBegin \/ Dump
  \/ Copy \/ Stop \/ Start

Spec == Init /\ [][Next]_vars

\* The checkpoint thread goes on, and gets a lock that is freed again and
\* again; a delete waits for nothing.  Range calls may keep a slot for ever.
FairSpec ==
  /\ Spec /\ SF_vars(Dump)
  /\ \A i \in Slots : WF_vars(DeleteEnds(i))

-----------------------------------------------------------------------------
Blocks == [header : Contents, entries : Contents]
Files == [blocks : UNION {[1..n -> Blocks] : n \in 0..NSlots},
          held : [Slots -> SUBSET Contents], spoilt : SUBSET Slots]

\* Types only.
TypeOK ==
  /\ server \in {"up", "down"}
  /\ index_table \in [Slots -> Contents]
  /\ locked \subseteq Slots /\ kept \subseteq Slots /\ deleting \subseteq Slots
  /\ reused \in [Slots -> SUBSET Slots]
  /\ dump.header \in Contents
  /\ held \in [Slots -> SUBSET Contents]
  /\ dump_bin \in Files

(***************************************************************************)
(* Every table in a file, however the file came about, is one that its     *)
(* slot held in some moment while the file was written: never a mix of two *)
(* contents, and never one from before the dump that was gone by then.     *)
(* The one exception is a slot whose lock another thread got past between  *)
(* its header and its entries.                                             *)
(***************************************************************************)
FilesHoldTables ==
  \A f \in {dump_bin} \cup OnDisk : \A i \in 1..Len(f.blocks) :
    i \notin f.spoilt =>
      f.blocks[i].header = f.blocks[i].entries /\ f.blocks[i].entries \in f.held[i]

(***************************************************************************)
(* The server comes up with, in every slot, a table that the slot held     *)
(* while the dump was made it starts from, but for slots that were spoilt. *)
(* So an update which was done when that dump began, and not undone before *)
(* it ended, is there again; no slot is empty only because a file broke    *)
(* off.                                                                    *)
(***************************************************************************)
RestoredWasHeld ==
  [][server = "down" /\ server' = "up"
       => \A i \in Slots \ dump_bin.spoilt : index_table'[i] \in dump_bin.held[i]]_vars

(***************************************************************************)
(* A dump ends, even after others broke off, unless a range call keeps a   *)
(* slot for ever: no slot stays locked behind a dump or a delete.          *)
(***************************************************************************)
DumpsEnd == (\A i \in Slots : []<>(i \notin kept)) => (dump.on ~> ~dump.on)
=============================================================================
