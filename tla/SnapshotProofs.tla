--------------------------- MODULE SnapshotProofs ---------------------------
(***************************************************************************)
(* The properties of Snapshot for any number of slots and any tables: what *)
(* is in a file was held by its slot, and so is what the server comes up   *)
(* with.                                                                   *)
(***************************************************************************)
EXTENDS Snapshot, TLAPS

\* A sequence of blocks as dump_all writes it, of tables the slots held; of
\* spoilt slots nothing is said.
Good(blocks, was, spoilt) ==
  /\ blocks \in Seq(Blocks) /\ Len(blocks) <= NSlots
  /\ \A i \in 1..Len(blocks) :
       i \notin spoilt =>
         blocks[i].header = blocks[i].entries /\ blocks[i].entries \in was[i]

\* The types that the argument needs.
Dumps == [on : BOOLEAN, blocks : Seq(Blocks), half : BOOLEAN, header : Contents,
          spoilt : SUBSET Slots]
DumpFiles == [blocks : Seq(Blocks), held : [Slots -> SUBSET Contents],
              spoilt : SUBSET Slots]

DumpTypes ==
  /\ server \in {"up", "down"}
  /\ index_table \in [Slots -> Contents]
  /\ locked \subseteq Slots
  /\ dump \in Dumps
  /\ held \in [Slots -> SUBSET Contents]
  /\ dump_bin \in DumpFiles

(***************************************************************************)
(* While a dump goes on, held has what each slot holds now.  Between the   *)
(* header and the entries of a table its slot is locked, unless it is      *)
(* spoilt, so the table is still the one of the header.                    *)
(***************************************************************************)
HeldNow == dump.on => \A i \in Slots : index_table[i] \in held[i]

HeaderHolds ==
  dump.half =>
    /\ dump.on /\ Pos \in Slots
    /\ Pos \notin dump.spoilt => Pos \in locked /\ index_table[Pos] = dump.header

\* No dump goes on while the server is down.
NotDumping == server = "down" => dump = NoDump /\ held = NotHeld

IInv ==
  /\ DumpTypes
  /\ HeldNow
  /\ HeaderHolds
  /\ Good(dump.blocks, held, dump.spoilt)
  /\ Good(dump_bin.blocks, dump_bin.held, dump_bin.spoilt)

-----------------------------------------------------------------------------
\* A prefix of a good sequence is good.
LEMMA GoodPrefix ==
  ASSUME NEW blocks, NEW was, NEW spoilt, Good(blocks, was, spoilt),
         NEW n \in 0..Len(blocks)
  PROVE  Good(SubSeq(blocks, 1, n), was, spoilt)
<1>1. /\ SubSeq(blocks, 1, n) \in Seq(Blocks)
      /\ Len(SubSeq(blocks, 1, n)) = n
      /\ \A i \in 1..n : SubSeq(blocks, 1, n)[i] = blocks[i]
  BY DEF Good
<1>2. n <= NSlots /\ n <= Len(blocks)
  BY NSlotsAssumption DEF Good
<1> QED BY <1>1, <1>2 DEF Good

\* And so is one with a block more that fits, or that is of a spoilt slot.
LEMMA GoodAppend ==
  ASSUME NEW blocks, NEW was, NEW spoilt, Good(blocks, was, spoilt),
         NEW h \in Contents, NEW t \in Contents, Len(blocks) + 1 \in Slots,
         Len(blocks) + 1 \notin spoilt => h = t /\ t \in was[Len(blocks) + 1]
  PROVE  Good(Append(blocks, Block(h, t)), was, spoilt)
<1>1. Block(h, t) \in Blocks /\ Block(h, t).header = h /\ Block(h, t).entries = t
  BY DEF Block, Blocks
<1> HIDE DEF Blocks
<1>2. Append(blocks, Block(h, t)) \in Seq(Blocks)
  BY <1>1 DEF Good
<1>3. Len(Append(blocks, Block(h, t))) = Len(blocks) + 1
  BY <1>1 DEF Good
<1>4. \A i \in 1..Len(blocks) : Append(blocks, Block(h, t))[i] = blocks[i]
  BY <1>1 DEF Good
<1>5. Append(blocks, Block(h, t))[Len(blocks) + 1] = Block(h, t)
  BY <1>1 DEF Good
<1>6. Len(blocks) + 1 <= NSlots
  BY NSlotsAssumption DEF Slots, Good
<1>7. \A i \in 1..(Len(blocks) + 1) : i \in 1..Len(blocks) \/ i = Len(blocks) + 1
  BY DEF Good
<1> QED BY <1>1, <1>2, <1>3, <1>4, <1>5, <1>6, <1>7 DEF Good

\* More may have been held, or spoilt.
LEMMA GoodMore ==
  ASSUME NEW blocks, NEW was, NEW more, NEW spoilt, NEW worse,
         Good(blocks, was, spoilt), spoilt \subseteq worse,
         \A i \in Slots : was[i] \subseteq more[i]
  PROVE  Good(blocks, more, worse)
<1>1. \A i \in 1..Len(blocks) : i \in Slots
  BY NSlotsAssumption DEF Good, Slots
<1> QED BY <1>1 DEF Good

\* A file with nothing in it is good.
LEMMA GoodEmpty ==
  ASSUME NEW was, NEW spoilt PROVE Good(<< >>, was, spoilt)
BY NSlotsAssumption DEF Good

\* The values that the variables are reset to.
LEMMA Constants ==
  /\ NoTable \in Contents /\ Torn \in Contents
  /\ NoIndex \in [Slots -> Contents]
  /\ NotHeld \in [Slots -> SUBSET Contents]
  /\ NoDump \in Dumps
BY DEF NoIndex, NotHeld, NoDump, Contents, Dumps

-----------------------------------------------------------------------------
\* The file of the first start is a complete one.
LEMMA InitIInv == Init => IInv
<1> SUFFICES ASSUME Init PROVE IInv
  OBVIOUS
<1>1. PICK first \in [Slots -> Tables \cup {NoTable}] :
        dump_bin = [blocks |-> [i \in Slots |-> Block(first[i], first[i])],
                    held |-> [i \in Slots |-> {first[i]}], spoilt |-> {}]
  BY DEF Init
<1>2. /\ dump_bin.blocks = [i \in 1..NSlots |-> Block(first[i], first[i])]
      /\ dump_bin.held = [i \in Slots |-> {first[i]}]
  BY <1>1 DEF Slots
<1>3. \A i \in 1..NSlots : /\ Block(first[i], first[i]) \in Blocks
                           /\ Block(first[i], first[i]).header = first[i]
                           /\ Block(first[i], first[i]).entries = first[i]
  BY DEF Block, Blocks, Slots, Contents
<1>4. dump_bin.blocks \in Seq(Blocks) /\ Len(dump_bin.blocks) = NSlots
  <2> HIDE DEF Blocks
  <2>1. dump_bin.blocks \in [1..NSlots -> Blocks]
    BY <1>2, <1>3
  <2> QED BY <2>1, NSlotsAssumption
<1>5. Good(dump_bin.blocks, dump_bin.held, dump_bin.spoilt)
  BY <1>2, <1>3, <1>4, NSlotsAssumption DEF Good, Slots
<1>6. dump_bin \in DumpFiles
  BY <1>1, <1>2, <1>4 DEF DumpFiles, Contents
<1>7. dump = NoDump /\ held = NotHeld /\ index_table = NoIndex
      /\ locked = {} /\ server = "down"
  BY DEF Init
<1>8. DumpTypes
  BY <1>6, <1>7, Constants DEF DumpTypes
<1>9. dump.on = FALSE /\ dump.half = FALSE /\ dump.blocks = << >>
  BY <1>7 DEF NoDump
<1> QED BY <1>5, <1>8, <1>9, GoodEmpty DEF IInv, HeldNow, HeaderHolds

-----------------------------------------------------------------------------
(***************************************************************************)
(* Another thread.  Whatever it does to the slot that is being dumped is   *)
(* in spoilt, or respects its lock.                                        *)
(***************************************************************************)
LEMMA DisturbedIs ==
  ASSUME dump \in Dumps, NEW slots
  PROVE  LET d == Disturbed(slots) IN
         /\ d.on = dump.on /\ d.blocks = dump.blocks
         /\ d.half = dump.half /\ d.header = dump.header
         /\ dump.spoilt \subseteq d.spoilt
         /\ d.spoilt \subseteq dump.spoilt \cup {Pos}
         /\ dump.half /\ Pos \in slots => Pos \in d.spoilt
         /\ dump.half \/ d = dump
BY DEF Disturbed, Dumps

LEMMA DisturbedType ==
  ASSUME IInv, NEW slots
  PROVE  Disturbed(slots) \in Dumps
<1>1. dump \in Dumps /\ (dump.half => Pos \in Slots)
  BY DEF IInv, DumpTypes, HeaderHolds
<1> HIDE DEF Blocks, Contents
<1> QED BY <1>1 DEF Disturbed, Dumps

\* What the steps of other threads have in common.
LEMMA ThreadKeeps ==
  ASSUME IInv, NEW slots, NEW t \in Contents, NEW wrote \in SUBSET Slots,
         dump' = Disturbed(slots), UNCHANGED <<server, dump_bin>>,
         locked' \subseteq Slots,
         index_table' = [i \in Slots |-> IF i \in wrote THEN t ELSE index_table[i]],
         held' = [i \in Slots |-> IF i \in wrote /\ dump.on THEN held[i] \cup {t}
                                                         ELSE held[i]],
         dump.half /\ Pos \notin slots => /\ Pos \in locked => Pos \in locked'
                                          /\ Pos \in wrote => Pos \notin locked
  PROVE  IInv'
<1>1. /\ DumpTypes /\ dump \in Dumps /\ dump' \in Dumps
      /\ index_table' \in [Slots -> Contents] /\ held' \in [Slots -> SUBSET Contents]
      /\ \A i \in Slots : held[i] \subseteq held'[i]
  BY DisturbedType DEF IInv, DumpTypes
<1>2. /\ dump'.on = dump.on /\ dump'.blocks = dump.blocks
      /\ dump'.half = dump.half /\ dump'.header = dump.header
      /\ dump.spoilt \subseteq dump'.spoilt
      /\ dump.half /\ Pos \in slots => Pos \in dump'.spoilt
  BY <1>1, DisturbedIs
<1>3. DumpTypes'
  BY <1>1 DEF DumpTypes
<1>4. HeldNow'
  BY <1>1, <1>2 DEF HeldNow, IInv
<1>5. HeaderHolds'
  <2>1. Pos' = Pos
    BY <1>2 DEF Pos
  <2>2. dump'.half =>
          /\ dump'.on /\ Pos \in Slots
          /\ Pos \notin dump'.spoilt => /\ Pos \notin slots /\ Pos \in locked
                                       /\ index_table[Pos] = dump'.header
    BY <1>2 DEF HeaderHolds, IInv
  <2>3. dump.half /\ Pos \notin slots /\ Pos \in locked =>
          Pos \in locked' /\ Pos \notin wrote
    OBVIOUS
  <2>4. \A i \in Slots \ wrote : index_table'[i] = index_table[i]
    OBVIOUS
  <2> DEFINE pos == Pos
             next == Pos'
  <2>5. dump'.half =>
          /\ dump'.on /\ next \in Slots
          /\ next \notin dump'.spoilt => next \in locked' /\ index_table'[next] = dump'.header
    <3>1. next = pos
      BY <2>1
    <3> HIDE DEF next
    <3> QED BY <1>2, <2>2, <2>3, <2>4, <3>1
  <2> QED BY <2>5 DEF HeaderHolds
<1>6. Good(dump.blocks, held', dump'.spoilt)
  BY <1>1, <1>2, GoodMore DEF IInv
<1>7. /\ Good(dump.blocks, held, dump.spoilt)'
      /\ Good(dump_bin.blocks, dump_bin.held, dump_bin.spoilt)'
  BY <1>2, <1>6 DEF IInv, Good
<1> QED BY <1>3, <1>4, <1>5, <1>7 DEF IInv

\* A step of another thread that writes to no table.
LEMMA LockKeeps ==
  ASSUME IInv, NEW slots, dump' = Disturbed(slots), locked' \subseteq Slots,
         UNCHANGED <<server, index_table, held, dump_bin>>,
         dump.half /\ Pos \notin slots /\ Pos \in locked => Pos \in locked'
  PROVE  IInv'
<1>1. index_table \in [Slots -> Contents] /\ held \in [Slots -> SUBSET Contents]
  BY DEF IInv, DumpTypes
<1> DEFINE wrote == {}
<1>2. /\ index_table' = [i \in Slots |-> IF i \in wrote THEN NoTable ELSE index_table[i]]
      /\ held' = [i \in Slots |-> IF i \in wrote /\ dump.on THEN held[i] \cup {NoTable}
                                                        ELSE held[i]]
      /\ wrote \in SUBSET Slots /\ NoTable \in Contents
      /\ dump.half /\ Pos \notin slots => /\ Pos \in locked => Pos \in locked'
                                          /\ Pos \in wrote => Pos \notin locked
  BY <1>1, Constants
<1> HIDE DEF wrote
<1> QED BY <1>2, ThreadKeeps

\* A step of another thread that writes to the table of one slot.
LEMMA WriteKeeps ==
  ASSUME IInv, NEW slots, dump' = Disturbed(slots), locked' \subseteq Slots,
         UNCHANGED <<server, dump_bin>>, NEW i \in Slots, NEW t \in Contents,
         index_table' = [index_table EXCEPT ![i] = t], Holds(i, t),
         dump.half /\ Pos \notin slots => /\ Pos \in locked => Pos \in locked'
                                          /\ Pos = i => Pos \notin locked
  PROVE  IInv'
<1>1. index_table \in [Slots -> Contents] /\ held \in [Slots -> SUBSET Contents]
  BY DEF IInv, DumpTypes
<1>2. /\ index_table' = [j \in Slots |-> IF j \in {i} THEN t ELSE index_table[j]]
      /\ held' = [j \in Slots |-> IF j \in {i} /\ dump.on THEN held[j] \cup {t}
                                                      ELSE held[j]]
  BY <1>1 DEF Holds
<1>3. dump.half /\ Pos \notin slots => /\ Pos \in locked => Pos \in locked'
                                       /\ Pos \in {i} => Pos \notin locked
  OBVIOUS
<1>4. {i} \in SUBSET Slots
  OBVIOUS
<1> DEFINE wrote == {i}
<1>5. /\ index_table' = [j \in Slots |-> IF j \in wrote THEN t ELSE index_table[j]]
      /\ held' = [j \in Slots |-> IF j \in wrote /\ dump.on THEN held[j] \cup {t}
                                                        ELSE held[j]]
      /\ wrote \in SUBSET Slots
      /\ dump.half /\ Pos \notin slots => /\ Pos \in locked => Pos \in locked'
                                          /\ Pos \in wrote => Pos \notin locked
  BY <1>2, <1>3, <1>4
<1> HIDE DEF wrote
<1> QED BY <1>5, ThreadKeeps

LEMMA Undisturbed ==
  ASSUME IInv PROVE Disturbed({}) = dump
BY DEF Disturbed, IInv, DumpTypes, Dumps

LEMMA UpdateKeeps ==
  ASSUME IInv, NEW i \in Slots, NEW t \in Tables, Update(i, t)
  PROVE  IInv'
<1>1. /\ index_table' = [index_table EXCEPT ![i] = t] /\ Holds(i, t)
      /\ i \notin locked /\ t \in Contents /\ locked' \subseteq Slots
      /\ UNCHANGED <<server, locked, dump, dump_bin>>
  BY DEF Update, Unlocked, Contents, IInv, DumpTypes
<1> QED BY <1>1, Undisturbed, WriteKeeps

LEMMA DeleteLastKeeps ==
  ASSUME IInv, NEW i \in Slots, DeleteLast(i)
  PROVE  IInv'
<1>1. /\ index_table' = [index_table EXCEPT ![i] = NoTable] /\ Holds(i, NoTable)
      /\ i \notin locked /\ locked' = locked \cup {i}
      /\ UNCHANGED <<server, dump, dump_bin>>
  BY DEF DeleteLast, Unlocked
<1>2. locked' \subseteq Slots
  BY <1>1 DEF IInv, DumpTypes
<1> QED BY <1>1, <1>2, Constants, Undisturbed, WriteKeeps

LEMMA DeleteEndsKeeps ==
  ASSUME IInv, NEW i \in Slots, DeleteEnds(i), reused[i] \subseteq Slots
  PROVE  IInv'
<1>1. /\ locked' = locked \ {i} /\ locked' \subseteq Slots
      /\ UNCHANGED <<server, dump_bin>>
  BY DEF DeleteEnds, IInv, DumpTypes
<1>2. CASE dump' = Disturbed({i}) /\ UNCHANGED <<index_table, held>>
  BY <1>1, <1>2, LockKeeps
<1>3. CASE \E j \in reused[i] \ {i} :
             /\ index_table' = [index_table EXCEPT ![j] = NoTable]
             /\ Holds(j, NoTable)
             /\ dump' = Disturbed({i, j})
  <2>1. PICK j \in reused[i] \ {i} :
             /\ index_table' = [index_table EXCEPT ![j] = NoTable]
             /\ Holds(j, NoTable)
             /\ dump' = Disturbed({i, j})
    BY <1>3
  <2>2. j \in Slots
    OBVIOUS
  <2>3. dump.half /\ Pos \notin {i, j} => /\ Pos \in locked => Pos \in locked'
                                          /\ Pos = j => Pos \notin locked
    BY <1>1
  <2> QED BY <1>1, <2>1, <2>2, <2>3, Constants, WriteKeeps
<1> QED BY <1>2, <1>3 DEF DeleteEnds

\* The locks of range calls.
LEMMA RangeCallKeeps ==
  ASSUME IInv, NEW i \in Slots, Keep(i) \/ Free(i) \/ FreeUnlocked(i)
  PROVE  IInv'
<1>1. locked \subseteq Slots
  BY DEF IInv, DumpTypes
<1>2. CASE Keep(i)
  <2>1. /\ locked' = locked \cup {i} /\ locked' \subseteq Slots
        /\ UNCHANGED <<server, index_table, dump, held, dump_bin>>
    BY <1>1, <1>2 DEF Keep
  <2> QED BY <2>1, Undisturbed, LockKeeps
<1>3. CASE Free(i) \/ FreeUnlocked(i)
  <2>1. /\ locked' = locked \ {i} /\ locked' \subseteq Slots
        /\ dump' = Disturbed({i})
        /\ UNCHANGED <<server, index_table, held, dump_bin>>
    BY <1>1, <1>3 DEF Free, FreeUnlocked
  <2> QED BY <2>1, LockKeeps
<1> QED BY <1>2, <1>3

-----------------------------------------------------------------------------
\* Whoever begins a dump has nothing in it yet.
LEMMA DumpBeginKeeps ==
  ASSUME IInv, DumpBegin
  PROVE  IInv'
<1>1. /\ dump' = [NoDump EXCEPT !.on = TRUE]
      /\ held' = [i \in Slots |-> {index_table[i]}]
      /\ UNCHANGED <<server, index_table, locked, dump_bin>>
  BY DEF DumpBegin
<1>2. /\ dump'.half = FALSE /\ dump'.blocks = << >> /\ dump' \in Dumps
  BY <1>1, Constants DEF NoDump, Dumps
<1>3. DumpTypes'
  BY <1>1, <1>2 DEF DumpTypes, IInv
<1>4. HeldNow' /\ HeaderHolds'
  BY <1>1, <1>2 DEF HeldNow, HeaderHolds
<1>5. /\ Good(dump.blocks, held, dump.spoilt)'
      /\ Good(dump_bin.blocks, dump_bin.held, dump_bin.spoilt)'
  BY <1>1, <1>2, GoodEmpty DEF IInv, Good
<1> QED BY <1>3, <1>4, <1>5 DEF IInv

\* A dump that is over leaves nothing behind but the file.
LEMMA DumpOverKeeps ==
  ASSUME DumpTypes, dump' = NoDump, held' = NotHeld, DumpTypes',
         Good(dump_bin.blocks, dump_bin.held, dump_bin.spoilt)'
  PROVE  IInv'
<1>1. dump'.on = FALSE /\ dump'.half = FALSE /\ dump'.blocks = << >>
  BY DEF NoDump
<1>2. HeldNow' /\ HeaderHolds'
  BY <1>1 DEF HeldNow, HeaderHolds
<1>3. Good(dump.blocks, held, dump.spoilt)'
  BY <1>1, GoodEmpty
<1> QED BY <1>2, <1>3 DEF IInv

\* A block more, of a table which its slot holds now.
LEMMA BlockKeeps ==
  ASSUME IInv, Dumping, NEW h \in Contents, NEW t \in Contents, t = index_table[Pos],
         Pos \notin dump.spoilt => h = t, NEW x \in Contents,
         dump' = [dump EXCEPT !.blocks = Append(dump.blocks, Block(h, t)),
                              !.half = FALSE, !.header = x],
         locked' \subseteq locked,
         UNCHANGED <<server, index_table, held, dump_bin>>
  PROVE  IInv'
<1>1. DumpTypes /\ dump \in Dumps /\ dump.on /\ Pos \in Slots
  BY DEF IInv, DumpTypes, Dumping
<1>2. t \in held[Len(dump.blocks) + 1] /\ Len(dump.blocks) + 1 \in Slots
  BY <1>1 DEF IInv, HeldNow, Pos
<1>3. Good(Append(dump.blocks, Block(h, t)), held, dump.spoilt)
  BY <1>2, GoodAppend DEF IInv, Pos
<1>4. /\ dump'.on = dump.on /\ dump'.half = FALSE /\ dump'.spoilt = dump.spoilt
      /\ dump'.blocks = Append(dump.blocks, Block(h, t))
      /\ dump' = [on |-> dump.on, blocks |-> Append(dump.blocks, Block(h, t)),
                  half |-> FALSE, header |-> x, spoilt |-> dump.spoilt]
  BY <1>1 DEF Dumps
<1>5. dump' \in Dumps
  <2>1. Append(dump.blocks, Block(h, t)) \in Seq(Blocks)
    BY <1>3 DEF Good
  <2> DEFINE more == Append(dump.blocks, Block(h, t))
  <2> HIDE DEF more, Blocks, Contents
  <2> QED BY <1>1, <1>4, <2>1, Constants DEF Dumps, more
<1>6. DumpTypes'
  BY <1>1, <1>5 DEF DumpTypes
<1>7. HeldNow' /\ HeaderHolds'
  BY <1>4 DEF HeldNow, HeaderHolds, IInv
<1>8. /\ Good(dump.blocks, held, dump.spoilt)'
      /\ Good(dump_bin.blocks, dump_bin.held, dump_bin.spoilt)'
  BY <1>3, <1>4 DEF IInv, Good
<1> QED BY <1>6, <1>7, <1>8 DEF IInv

LEMMA DumpEmptyKeeps ==
  ASSUME IInv, DumpEmpty
  PROVE  IInv'
<1>1. dump \in Dumps
  BY DEF IInv, DumpTypes
<1>2. /\ Dumping /\ NoTable = index_table[Pos] /\ locked' \subseteq locked
      /\ ~dump.half /\ dump' = [dump EXCEPT !.blocks = Append(dump.blocks, Block(NoTable, NoTable))]
      /\ UNCHANGED <<server, index_table, held, dump_bin>>
  BY DEF DumpEmpty
<1>3. /\ dump.header \in Contents
      /\ dump' = [dump EXCEPT !.blocks = Append(dump.blocks, Block(NoTable, NoTable)),
                              !.half = FALSE, !.header = dump.header]
  BY <1>1, <1>2 DEF Dumps
<1> DEFINE h == NoTable
           t == index_table[Pos]
           x == dump.header
<1>4. /\ h \in Contents /\ t \in Contents /\ x \in Contents
      /\ t = index_table[Pos] /\ (Pos \notin dump.spoilt => h = t)
      /\ dump' = [dump EXCEPT !.blocks = Append(dump.blocks, Block(h, t)),
                              !.half = FALSE, !.header = x]
  BY <1>2, <1>3, Constants
<1>5. Dumping /\ locked' \subseteq locked /\ UNCHANGED <<server, index_table, held, dump_bin>>
  BY <1>2
<1> HIDE DEF h, t, x
<1> QED BY <1>4, <1>5, BlockKeeps

\* The header is that of the table which the slot, now locked, holds.
LEMMA DumpHeaderKeeps ==
  ASSUME IInv, DumpHeader
  PROVE  IInv'
<1>1. /\ dump' = [dump EXCEPT !.half = TRUE, !.header = index_table[Pos]]
      /\ locked' = locked \cup {Pos}
      /\ dump.on /\ Pos \in Slots
      /\ UNCHANGED <<server, index_table, held, dump_bin>>
  BY DEF DumpHeader, Dumping
<1>2. DumpTypes /\ dump \in Dumps /\ index_table[Pos] \in Contents
  BY <1>1 DEF IInv, DumpTypes
<1>3. /\ dump'.on = dump.on /\ dump'.blocks = dump.blocks
      /\ dump'.header = index_table[Pos] /\ Pos' = Pos
      /\ dump'.spoilt = dump.spoilt
  BY <1>1, <1>2 DEF Dumps, Pos
<1>4. dump' \in Dumps
  <2> HIDE DEF Blocks, Contents, Pos
  <2> QED BY <1>1, <1>2 DEF Dumps
<1>5. DumpTypes'
  BY <1>1, <1>2, <1>4 DEF DumpTypes
<1>6. HeldNow' /\ HeaderHolds'
  BY <1>1, <1>3 DEF HeldNow, HeaderHolds, IInv
<1>7. /\ Good(dump.blocks, held, dump.spoilt)'
      /\ Good(dump_bin.blocks, dump_bin.held, dump_bin.spoilt)'
  BY <1>1, <1>3 DEF IInv, Good
<1> QED BY <1>5, <1>6, <1>7 DEF IInv

\* Its entries are those of the header, since nobody could change the table.
LEMMA DumpEntriesKeeps ==
  ASSUME IInv, DumpEntries
  PROVE  IInv'
<1>1. /\ Pos \notin dump.spoilt => dump.header = index_table[Pos]
      /\ dump.header \in Contents /\ index_table[Pos] \in Contents
  BY DEF IInv, HeaderHolds, DumpEntries, DumpTypes, Dumping, Dumps
<1>2. /\ dump' = [dump EXCEPT !.blocks = Append(dump.blocks, Block(dump.header, index_table[Pos])),
                              !.half = FALSE, !.header = NoTable]
      /\ Dumping /\ locked' \subseteq locked
      /\ UNCHANGED <<server, index_table, held, dump_bin>>
  BY DEF DumpEntries
<1> DEFINE h == dump.header
           t == index_table[Pos]
           x == NoTable
<1>3. /\ h \in Contents /\ t \in Contents /\ x \in Contents
      /\ t = index_table[Pos] /\ (Pos \notin dump.spoilt => h = t)
      /\ dump' = [dump EXCEPT !.blocks = Append(dump.blocks, Block(h, t)),
                              !.half = FALSE, !.header = x]
  BY <1>1, <1>2, Constants
<1> HIDE DEF h, t, x
<1> QED BY <1>2, <1>3, BlockKeeps

\* Half-way or at its end, by an error or a shutdown.
LEMMA DumpStopsKeeps ==
  ASSUME IInv, DumpFails \/ DumpEnd \/ Stop
  PROVE  IInv'
<1>1. dump' = NoDump /\ held' = NotHeld /\ dump_bin' = dump_bin
  BY DEF DumpFails, DumpEnd, Stop
<1>2. DumpTypes'
  BY <1>1, Constants DEF DumpFails, DumpEnd, Stop, IInv, DumpTypes
<1>3. Good(dump_bin.blocks, dump_bin.held, dump_bin.spoilt)'
  BY <1>1 DEF IInv, Good
<1> QED BY <1>1, <1>2, <1>3, DumpOverKeeps DEF IInv

\* What reached the disk is a prefix of the blocks, with what was held.
LEMMA OnDiskGood ==
  ASSUME IInv, NEW f \in OnDisk
  PROVE  Good(f.blocks, f.held, f.spoilt) /\ f \in DumpFiles
<1>1. PICK n \in 0..Len(dump.blocks) :
        f = [blocks |-> SubSeq(dump.blocks, 1, n),
             held   |-> [i \in Slots |-> IF i <= n THEN held[i] \cap {dump.blocks[i].entries} ELSE {}],
             spoilt |-> {i \in dump.spoilt : i <= n}]
  BY DEF OnDisk
<1>2. Good(SubSeq(dump.blocks, 1, n), held, dump.spoilt)
  BY <1>1, GoodPrefix DEF IInv
<1>3. /\ SubSeq(dump.blocks, 1, n) \in Seq(Blocks)
      /\ Len(SubSeq(dump.blocks, 1, n)) = n /\ n <= NSlots
      /\ \A i \in 1..n : SubSeq(dump.blocks, 1, n)[i] = dump.blocks[i] /\ i \in Slots
  BY NSlotsAssumption DEF IInv, Good, Slots
<1>4. /\ f.held \in [Slots -> SUBSET Contents] /\ f.spoilt \in SUBSET Slots
      /\ \A i \in 1..n : /\ f.held[i] = held[i] \cap {f.blocks[i].entries}
                        /\ i \notin f.spoilt => i \notin dump.spoilt
  BY <1>1, <1>3 DEF IInv, DumpTypes, Dumps
<1>5. Good(f.blocks, f.held, f.spoilt)
  BY <1>1, <1>2, <1>3, <1>4 DEF Good
<1>6. f = [blocks |-> f.blocks, held |-> f.held, spoilt |-> f.spoilt]
  BY <1>1
<1> QED BY <1>1, <1>3, <1>4, <1>5, <1>6 DEF DumpFiles

\* The operator finds a prefix of a good dump.
LEMMA CopyKeeps ==
  ASSUME IInv, Copy
  PROVE  IInv'
<1>1. /\ dump_bin' \in OnDisk
      /\ UNCHANGED <<server, index_table, locked, dump, held>>
  BY DEF Copy
<1>2. /\ Good(dump_bin'.blocks, dump_bin'.held, dump_bin'.spoilt)
      /\ dump_bin' \in DumpFiles
  BY <1>1, OnDiskGood
<1>3. DumpTypes'
  BY <1>1, <1>2 DEF IInv, DumpTypes
<1> QED BY <1>1, <1>2, <1>3 DEF IInv, HeldNow, HeaderHolds, Good, Pos

\* A server that starts has read, for every slot, a table once held.
LEMMA StartReads ==
  ASSUME IInv, Start, NEW i \in Slots
  PROVE  /\ index_table'[i] \in Contents
         /\ i \notin dump_bin.spoilt => index_table'[i] \in dump_bin.held[i]
<1>1. i \in 1..Len(dump_bin.blocks)
  BY DEF Start, Slots
<1>2. /\ dump_bin.blocks[i] \in Blocks
      /\ i \notin dump_bin.spoilt =>
           /\ dump_bin.blocks[i].header = dump_bin.blocks[i].entries
           /\ dump_bin.blocks[i].entries \in dump_bin.held[i]
  BY <1>1 DEF IInv, Good
<1>3. index_table'[i] = Restored(dump_bin.blocks[i])
  BY DEF Start
<1>4. \A b \in Blocks : Restored(b) \in Contents
  BY Constants DEF Restored, Blocks
<1> QED BY <1>2, <1>3, <1>4 DEF Restored

\* A start changes the tables only, and no dump is there to contradict them.
LEMMA StartKeeps ==
  ASSUME IInv, NotDumping, Start
  PROVE  IInv'
<1>1. /\ dump' = NoDump /\ held' = NotHeld /\ server' = "up"
      /\ UNCHANGED <<locked, dump_bin>>
  BY DEF Start, NotDumping
<1>2. index_table' \in [Slots -> Contents]
  BY StartReads DEF Start
<1>3. DumpTypes'
  BY <1>1, <1>2, Constants DEF DumpTypes, IInv
<1>4. Good(dump_bin.blocks, dump_bin.held, dump_bin.spoilt)'
  BY <1>1 DEF IInv, Good
<1> QED BY <1>1, <1>3, <1>4, DumpOverKeeps DEF IInv

-----------------------------------------------------------------------------
\* Where a late write can go.
LateTypes == reused \in [Slots -> SUBSET Slots]

LEMMA LateTypesKept ==
  ASSUME LateTypes, [Next]_vars
  PROVE  LateTypes'
<1>1. CASE \E i \in Slots, t \in Tables : Update(i, t)
  BY <1>1 DEF Update, LateTypes
<1>2. CASE \E i \in Slots : DeleteLast(i) \/ DeleteEnds(i)
  BY <1>2 DEF DeleteLast, DeleteEnds, LateTypes
<1>3. CASE Stop
  BY <1>3 DEF Stop, NotHeld, LateTypes
<1>4. CASE UNCHANGED reused
  BY <1>4 DEF LateTypes
<1> QED BY <1>1, <1>2, <1>3, <1>4
        DEF Next, vars, others, Keep, Free, FreeUnlocked, DumpBegin, Dump, DumpEmpty,
            DumpHeader, DumpEntries, DumpFails, DumpEnd, Copy, Start

\* Every step keeps the invariant.
LEMMA NextIInv ==
  ASSUME IInv, NotDumping, LateTypes, [Next]_vars
  PROVE  IInv'
<1>1. CASE \E i \in Slots, t \in Tables : Update(i, t)
  BY <1>1, UpdateKeeps
<1>8. CASE \E i \in Slots : DeleteLast(i) \/ DeleteEnds(i)
  BY <1>8, DeleteLastKeeps, DeleteEndsKeeps DEF LateTypes
<1>9. CASE \E i \in Slots : Keep(i) \/ Free(i) \/ FreeUnlocked(i)
  BY <1>9, RangeCallKeeps
<1>2. CASE DumpBegin
  BY <1>2, DumpBeginKeeps
<1>3. CASE Dump
  BY <1>3, DumpEmptyKeeps, DumpHeaderKeeps, DumpEntriesKeeps, DumpStopsKeeps DEF Dump
<1>4. CASE Copy
  BY <1>4, CopyKeeps
<1>5. CASE Stop
  BY <1>5, DumpStopsKeeps
<1>6. CASE Start
  BY <1>6, StartKeeps
<1>7. CASE UNCHANGED vars
  BY <1>7 DEF vars, IInv, DumpTypes, HeldNow, HeaderHolds, Good, Pos
<1> QED BY <1>1, <1>2, <1>3, <1>4, <1>5, <1>6, <1>7, <1>8, <1>9 DEF Next

\* A dump begins in a running server, and ends with it.
LEMMA NextNotDumping ==
  ASSUME IInv, NotDumping, [Next]_vars
  PROVE  NotDumping'
<1>1. server = "down" => ~dump.on
  BY DEF NotDumping, NoDump
<1>2. CASE \E i \in Slots, t \in Tables : Update(i, t)
  BY <1>2 DEF Update, NotDumping
<1>6. CASE \E i \in Slots : DeleteLast(i) \/ Keep(i) \/ FreeUnlocked(i)
  BY <1>6 DEF DeleteLast, Keep, FreeUnlocked, NotDumping
<1>7. CASE \E i \in Slots : DeleteEnds(i) \/ Free(i)
  <2>1. server = "down" => ~dump.half /\ \A slots : Disturbed(slots) = dump
    BY DEF NotDumping, NoDump, Disturbed
  <2>2. ASSUME server = "down", NEW j, Holds(j, NoTable) PROVE held' = held
    BY <1>1, <2>2 DEF Holds, IInv, DumpTypes
  <2> QED BY <1>7, <2>1, <2>2 DEF DeleteEnds, Free, NotDumping
<1>3. CASE DumpBegin \/ Stop \/ Start
  BY <1>3 DEF DumpBegin, Stop, Start, NotDumping
<1>4. CASE Dump \/ Copy
  BY <1>1, <1>4 DEF Dump, DumpEmpty, DumpHeader, DumpEntries, DumpFails, DumpEnd, Dumping,
                    Copy, NotDumping
<1>5. CASE UNCHANGED vars
  BY <1>5 DEF vars, NotDumping
<1> QED BY <1>2, <1>3, <1>4, <1>5, <1>6, <1>7 DEF Next

\* The dumps, the file and what is held go together in every state.
LEMMA Invariant == Spec => [](IInv /\ NotDumping /\ LateTypes)
<1>1. Init => IInv /\ NotDumping /\ LateTypes
  BY InitIInv DEF Init, NotDumping, LateTypes, NotHeld
<1>2. IInv /\ NotDumping /\ LateTypes /\ [Next]_vars => (IInv /\ NotDumping /\ LateTypes)'
  BY NextIInv, NextNotDumping, LateTypesKept
<1> QED BY <1>1, <1>2, PTL DEF Spec

(***************************************************************************)
(* dump_table writes header and entries of one table under the lock of its *)
(* slot: no file, complete or broken off, has a table that its slot did    *)
(* not hold while the file was written, but for slots where another thread *)
(* got past the lock in between.                                           *)
(***************************************************************************)
THEOREM FilesHold == Spec => []FilesHoldTables
<1>1. IInv => FilesHoldTables
  <2> SUFFICES ASSUME IInv, NEW f \in {dump_bin} \cup OnDisk
               PROVE  Good(f.blocks, f.held, f.spoilt)
    BY DEF FilesHoldTables, Good
  <2> QED BY OnDiskGood DEF IInv
<1> QED BY <1>1, Invariant, PTL

(***************************************************************************)
(* nlkup_init takes all the tables of dump.bin or does not come up: what   *)
(* the server starts with is what the slots held while the dump was made,  *)
(* but for those that were spoilt.                                         *)
(***************************************************************************)
THEOREM RestoredHeld == Spec => RestoredWasHeld
<1>1. ASSUME IInv, [Next]_vars
      PROVE  [server = "down" /\ server' = "up"
                => \A i \in Slots \ dump_bin.spoilt :
                     index_table'[i] \in dump_bin.held[i]]_vars
  <2> SUFFICES ASSUME server = "down", server' = "up"
               PROVE  \A i \in Slots \ dump_bin.spoilt :
                        index_table'[i] \in dump_bin.held[i]
    OBVIOUS
  <2>1. Start
    BY <1>1 DEF Next, vars, Update, DeleteLast, DeleteEnds, Keep, Free, FreeUnlocked,
                DumpBegin, Dump, DumpEmpty, DumpHeader, DumpEntries, DumpFails, DumpEnd,
                Copy, Stop
  <2> QED BY <1>1, <2>1, StartReads
<1> QED BY <1>1, Invariant, PTL DEF Spec, RestoredWasHeld
=============================================================================
