# Verification of nlkup

nlkup is a telephone number portability server: it keeps a map from phone
numbers to aliases in memory and serves it over HTTP, with a thread for each
connection and one more thread for checkpoints. This directory holds TLA+
models of it, the TLC runs that check them and TLAPS proofs.

Contents: [the system](#the-system) · [modules](#modules) · [runs](#runs) ·
[fairness](#fairness) · [proofs](#proofs) · [where code and documents
differ](#where-code-and-documents-differ) · [not modelled](#not-modelled) ·
[plan](#plan)

## The system

| Component | State | Operations | Correct when |
|---|---|---|---|
| Lookup table (`nlkup.c`, one per prefix of six digits) | array of entries (packed postfix, packed alias), `table_sz`, `table_len` | binary search, insert with shift and growth by blocks, overwrite, delete with shrinking, copy of a range | strictly ascending, never longer than its array, at most one spare block; the search finds the entry or its insertion point |
| Number index (`nlkup.c`) | `index_table`: a mutex and a table pointer per prefix | insert, delete, lookup, block, range | a request does what the readme says to its own number and nothing to others |
| Range around a number (`nlkup.c`) | a call's copy so far; one slot locked throughout, a second one at times | search, nearest entry, copy in the start table, below and above it | the window around the start; well formed among updates; ends |
| Hash table (`hashtable.c`) | buckets of linked elements, a mutex | new, insert, lookup, iterate with deletion | a key is once in the table, in its bucket |
| Sessions (`sessions.c`, `server.c`) | `sessions_table`, `last_access`, `logged_in`, `cookie_sent`, `ref_cnt` | get by cookie or create, touch, log in, gate, send cookie, expire | live sessions are found, idle ones removed, used ones kept; the GUI needs a login |
| Dump and restore (`utils.c`) | a file, slot by slot | dump all, restore all | every table in a file is one its slot held; a start takes a whole file or none |
| Checkpoint thread (`server.c`) | time of the last checkpoint and of the last expiry; files | remove old files, save a new one, expire sessions | a whole checkpoint remains; old ones go; they keep coming |
| HTTP requests (`server.c`) | `request_info_struct` per connection: post processor, key-value list, session | `answer_to_request`, `iterate_post`, `save_posted_file`, the handlers, `request_completed` | a handler gets what the client sent; an answer OK means that what was asked was done, for users who may ask it; requests end |
| Queue (`queue.c`) | linked list, mutex, condition variable | put at head or tail, get | nothing lost or reordered, no waiter forgotten. Nothing calls it yet |
| JSON writer (`json.c`, `table_to_json`) | buffer, stack of levels | begin, end, append | the text is the whole document, never past its buffer |
| Codec and strings (`utils.c`) | none | pack and unpack digits, split, concatenate | unpack is the inverse of pack; the bytes are in the order of the strings |
| Configuration, logger | key-value list; a file | read at start; write | – |

How they interact: a connection's thread calls `answer_to_request` several times
for one request (once to set it up, once for every part of a POST body, once to
answer), each time touching the session; the handler validates the number and
calls one function of the index, which locks one slot – or several, in
`nlkup_get_range_around`. The checkpoint thread shares the slots with them when
it dumps, and the sessions when it expires them. At the start the index is
restored from `dump.bin`, which an operator makes from a checkpoint file.

What is hard: slots are locked one by one, and pointers are read before the lock
is taken; a delete frees memory that another thread may get at once; sessions
are used outside any lock; an insert may fail half way; a dump is spread over
time, may fail and may be cut off by a crash; removing and saving files depend on
three intervals. `PROJECT.json` lists each of these hazards at its line, with the
properties that are about it.

## Modules

Names are the names of the code wherever there is one.

**`LookupTbl`** – one table as `[ents, sz]`, with `NullTable` for a slot without
one, and the operators of the index: `EnterAt` (insert or overwrite), `DeleteAt`,
`CopyRange`, `GrownSize`, `ShrunkSize`, and `SearchResults`, the results the
search of the code may have. A postfix is an integer *rank*: `compare_entry`
compares the length byte and then the digits, so with `100 * length + value` for
up to two digits the order of ranks is that of the code. Only this order matters,
and any set of integers will do. Aliases are model values in four classes: stored
and read back (`Aliases`), stored but too wide to be read back (`WideAliases`, 16
digits), refused for their length (`LongAliases`) and refused for a character that
is no digit, after the field was cleared (`BadAliases`).

**`BinarySearch`** – `search_entry_in_table` iteration by iteration, on any
ascending table. It shows that the loop delivers `SearchResults`, which the
other modules use in one step.

**`NumberIndex`** – the slots and the five requests that lock a single slot from
start to end, so one action each: `EnterEntry`, `DeleteEntry`, `SearchEntry`,
`GetBlock`, `GetRange`, with `RefusePrefix` and `AbortOnPrefix` for the ways
`get_index` refuses a number. `reply` is the last answer, `aborted` the function
whose assertion ended the server. What the code leaves behind when it fails half
way is there: a refused postfix leaves an empty table, a refused alias leaves the
shifted entries. A range comes with the two keys that its length makes of the number,
or with a member of `BadLengths`: an empty length, or one that `atoi` makes negative.
Both get past the tests of the server and are refused by `LengthAccepted`.

**`DirectoryRequests`** – what the readme promises: a partial map from numbers to
aliases, and for each request the directories it may leave and the answers it may
get. What the code does and the readme does not mention is there too, as narrow as the
code allows: the damage of refused inserts (`Damaged`), aliases that are looked up as
empty (`Readable`), ranges answered with none, and the requests that stop the server
(`Stops`, `Survives`). **`NumberDirectory`** serves these
requests one by one; **`NumberIndexRefinement`** maps the index to it: the alias of
a number is what the table of its prefix binds it to. `WebServer` builds on the same
requests, so that the index implements what the HTTP handlers are checked against.

**`Codec`** – `compress_to_buf`, `decompress_to_buf` and `compare_entry` byte by
byte: the length byte, two digits to a byte, what is left behind of a string that
does not fit or has a non-digit. It justifies the ranks of `LookupTbl`.

**`RangeAround`** – `nlkup_get_range_around`, lock by lock, with inserts and
deletes of other threads between its steps. Tables are objects of a heap
with addresses that are used again (`heap`, `allocated`); `call[r]` holds the local
variables of a reader's call, and `pc` the place in the code:

| `pc` | code |
|---|---|
| `search` | pointer read, about to lock the start slot (1116-1118) |
| `nearest` | a turn of `find_nearest_entry` |
| `copy` | start slot locked, its part copied |
| `before`, `lockBefore` | the loop downwards: peek without lock, then lock and copy |
| `after`, `lockAfter` | the loop upwards |
| `answered` | unlocked, sorted as text |

Tables are in the order of the ranks, while `sort_range_data` sorts the reply with
`strcasecmp` on the digits, where 12 comes before 7: the window is cut in one order
and sorted in the other. `TextLess` is the second one, on two postfixes; any strict
order will do, prefixes having the same length. Entries have no aliases here, so one
with an alias of 16 digits, which the copy leaves out because it cannot be unpacked, is
not among them.

A NULL or freed pointer, or an index past the array, sets `fault` and ends the
run, since what the build does then cannot be said. Inserts and most deletes are one
step, since they hold their lock from start to end; refused and half-done inserts
(`EnterRefused`, `EnterHalf`) are among them. The delete of a last entry is three:
`DeleteLast` frees the table, `ClearPointer` clears the pointer of its slot, `Wipe`
sets the length of the freed table to 0, and in between, under the locks of other
slots, its address can be handed out again. A request whose number cannot be packed
unlocks a slot it never locked (`BeginRefused`); what it did is recorded in `robbed`,
and that an insert or delete came into the middle of a delete in `torn`. Both are
history: the properties name with them the exceptions they need, no more.

**`RangeAroundQuiet`** adds the history of the calls that saw no table change
(`quiet`), and what their replies hold.

**`JsonWriter`** – `json.c`: the stack of levels with its flag for the first value,
the comma before the others, and the buffer, which grows by one block when the next
piece would fill it. A text is the sequence of its pieces, of which only the width
matters; a piece that `snprintf` had no room for is `Cut`. **`RangeAroundReply`**
writes the reply of a range with it, as `number_aliases_to_json` does, and compares
it with the document meant.

**`HashTable`** – buckets of elements; its operations are operators, for they run
under its mutex. **`Sessions`** – connections as threads, each access to a session
a step of its own, because the mutex of the hash table does not cover it. The
walk of `sessions_expire` is split into the test of `last_access` and the removal
(`ExpireCheck`, `ExpireFree`), between which connections go on. An access to a
freed session sets `fault`. `ref_cnt` has no value in the model: no code reads it.

**`Snapshot`** – what is in a dump: the slots are dumped in order, header and
entries in two steps under the slot's lock, while others update. `held` records
what each slot held since the dump began; it is history, for the properties. Files
are cut off by failures, crashes, and by an operator who copies one too early. What
`RangeAround` says of locks is there in the large: a range call may keep a slot as long
as it likes (`Keep`, `Free`), a refused one frees a slot that others locked
(`FreeUnlocked`), and a delete writes to the table it freed when it may be another
slot's (`DeleteEnds`, with the slots in `reused`). `spoilt` is the history of the slots
whose header and entries were not written under one lock.

**`Checkpointer`** – which files there are: their ages, whole or not, and the
timing of the thread. `Tick` is time; the thread wakes up on time and a save
takes at most `MaxSave`. Contents are left to `Snapshot`, so the two modules
share no variables; they meet in that `Save` here is `DumpBegin` to `DumpEnd`
there, and `SaveFails` is `DumpFails`.

**`WebServer`** – requests from the headers to their completion, with a thread per
connection. `pc` of a connection is `idle` (MHD has no request), `open` (being
received; a `request_info_struct` exists) or `replied` (until `request_completed`).
`Begin` is `answer_to_request` with the headers, `Upload` and `SavePostedFile` are
its calls with a piece of a body and what `iterate_post` does with each pair or part,
`HandlePost` and `HandleGet` the call at the end with the handler it dispatches to.
A piece may end within a value (`rest`): MHD then reports it in two parts. The
numbers are a directory (`dir`), the only fields of a session are `logged_in`; its
cookie and its end are in `Sessions`. A handler makes one call of the directory, which may
stop the server (`Call`). A range around a number begins and ends (`AroundBegins`,
`AroundEnds`, `pc` `around`), and what it does between is in `RangeAround`; of the table
pointer it read only matters whether it may be NULL. `whole` (no value of the form was
cut) and `intact` (nobody else wrote to the file of the upload, and no close failed) are
history, for properties.

**`BlockingQueue`** – `queue.c`: elements with addresses that are used again, links
in both directions, threads blocked in `pthread_cond_wait` that wake up when
signalled or for no reason, and the work of `Q_get` after its unlock. **`Deque`** is
what it promises: a sequence with puts at both ends, from which each datum is
returned once.

`MC...` modules give TLC the values that a `.cfg` cannot write. Definitions
introduced by a comment `mutant:` are wrong versions of the definition after them;
each breaks one property, which shows that the property is about that code.

## Runs

Passing runs:

| Run | Question | Bounds and why they are enough |
|---|---|---|
| `directory` | Is the index the directory of the readme? What do updates, accepted and refused, do to the tables? Are ranges exact? | one prefix, four postfixes of two lengths, an alias, one that is not read back and the refused ones (too long, not digits), blocks of two, five shapes of range keys and a bad length: tables grow twice, shrink and are removed, and ranges have none, one, two or more numbers. Prefixes share no state; the theorems are for any number of them |
| `binary_search` | Does the loop find the entry or its insertion point? Do the bytes compare as the model's ranks do? | all ascending tables of up to seven entries, every key in, between and around; as digits, all strings of up to three 0s and 9s in fields of three bytes: odd and even lengths, full and overfull fields |
| `around_one_reader` | Is the reply the exact window when nothing changed, well formed when something did, and the whole document? Does the call end? | three prefixes, three postfixes, all contents, up to two on each side: start at either end and in the middle, empty tables between, more asked for than there is. Updates happen where this is small (`Small`): two prefixes, two postfixes, one asked for on each side, one more address than slots, so that memory is used again; one thread deletes last entries while another updates. A block of 17 is one more than the widest piece, so pieces end anywhere in it |
| `around_two_readers` | What do the locks protect? When can two slots have one table? When are calls stuck? | two readers, two updaters, requests that unlock what they did not lock, one postfix: every delete is that of a last entry. States after `torn` are not explored (`MCUntorn`), nor twice those that differ in local variables which are not read again or in the content of free memory (`MCView`), or in the names of threads (`MCAlike`): the threads are alike, and the checked formulas say nothing of such differences. The theorems are for any number of readers |
| `sessions` | Are sessions found, kept and removed as they should? | two connections, two sessions in one bucket (an element before and one behind another), a time-out of one tick |
| `requests` | Do handlers get what was sent? Who changes the directory, and how? Are uploads whole? What stops the server, and is everything that was delivered answered? | two connections of one session; a client sends about fifty requests, each kind well formed and with each defect the code tests for, beside another one that uploads to the same file, logs in and asks for a range around a number. Three parameters fill the array and a fourth is refused; a value can fall into a number and a short rest, or into unknown words; uploads have two pieces |
| `snapshot` | What do files hold, what does the server come up with, and does a dump end? | two slots, with a table or none: a slot that is done, one that is not. One delete and one range call at a time have locks, together with the dump. The server is taken not to start from a table that does not fit its header (`MCSnapshot`), which is one of the two things that can happen |
| `checkpointer` | Do whole checkpoints remain, old ones go and new ones come? | intervals 2, 1, 10 and 1: the proportions of the defaults, with one failed save tolerated and a second one not |
| `queue` | Is the list consistent, is a wake-up ever lost, is it a deque? | three threads, so two wait while one puts, or one is overtaken; three addresses, two data |

Runs that show a disagreement (see below): `refused_insert`, `sessions_freed`,
`short_range`.

The properties, and what it would take to break them:

* `TablesAscending`, `CapacityKept` – half-done inserts add up over a sequence of
  requests; they never put a table out of order or keep two spare blocks.
* `AcceptedUpdatesExact` – SUCCESS means that the number, and only it, changed.
  `RefusedInsertBounded` – how far the damage of a refused insert reaches: besides
  the number itself only the last entry of its table.
* `RangeExact` – a range answered with SUCCESS has exactly the numbers between its
  keys, in order, or none, and none only if there are one or two (`RangeComplete`, that
  it has them then too, is what `short_range` shows not to hold); one that is refused
  has none and was refused for its length. `RangeAssertsExact` – its assertions fail for the
  ranges without numbers in a prefix that has a table and for no others, whatever
  refused inserts left behind. `ImplementsDirectory` – answers, also those about aliases
  of 16 digits, are the directory's, and so are the requests that stop it.
* `ResultCorrect` – the insertion point is computed from the last `mid`
  and `cmp`. `PackedOrderAgrees` – comparing bytes is comparing lengths, then values.
  `FieldsKeepStrings` – what a field holds after packing, whatever it held before.
* `WindowExact`, `ReplyWellFormed`, `RequestEnds` – the reply of a call that takes
  many locks, without and with others at work. `ReplyIsDocument` – its body has every
  piece whole and each comma in its place, wherever the ends of the blocks fall.
* `TablesDisjoint` – two slots have one table only in between the free and the clearing
  of the pointer in a delete of one of them, or after `torn`. `MutualExclusion` – what a
  lock is for holds in every slot that was not unlocked by a refused request; without
  one nothing is torn. `StartTableStable` – while a call keeps its start slot the table
  there changes only by the three things it names: the late write of a delete in another
  slot, a refused request that unlocked the slot, an update in the middle of a delete.
  `StuckOnlyInCircle` – calls that can go on with nothing wait for each other in a
  circle; no other lock is left behind.
* `TableHoldsLive` – no cookie leads to freed memory and no session is forgotten,
  while walks unlink elements and requests add them. `TouchedSessionsKept` – no
  session is condemned that a request touched within the time-out.
  `GateNeedsCookie` – a new session is not logged in. `IdleSessionsExpire`.
* `ParamsFaithful` – cut values, refused pairs and pairs that were dropped after one
  never make a handler take the value of another key or of an earlier request.
  `UpdatesAsAsked` – the directory changes only by the form whose handler answers; what
  is answered OK concerned the number that was sent and set it to the alias that was
  sent, unless a value of the form was cut; the GUI's changes need a login, made
  through whichever connection of the session. `UploadsWhole` – an upload with data
  whose pieces were all written leaves its file whole, though earlier ones broke off;
  `intact` excepts uploads at the same time to one name, which mix, and closes that
  failed, of which nobody is told. `OnlyKnownStops` – six kinds of requests stop the
  server (see below), together or in pieces, and no other.
  `RequestsAnswered` – what was delivered is answered, unless calls of `range_around`
  stay together for ever, or the server stops.
* `FilesHoldTables`, `RestoredWasHeld`, `DumpsEnd` – a dump is not a snapshot of
  the whole index in one moment, as each slot is locked for itself; what does hold
  is that each table is one the slot held during the dump, so that an update which
  was there when the dump began, and was not undone before it ended, survives. The
  exceptions are the slots in `spoilt`. A dump ends unless a range call keeps a slot for
  ever, which two of them can do (`StuckOnlyInCircle`).
* `BackupKept` – old files are removed before the new one is saved. A whole one
  remains as long as failures are few enough for the three intervals:
  `failures * (Interval + MaxSave) + Interval <= KeepTime`. With the defaults (60,
  30 and 300 seconds) the interval between saves is 90 seconds and two failures in
  a row are tolerated. `OldCheckpointsDeleted`, `CheckpointsRegular`.
* `LinksMatch` – head, tail and both links agree with the order of the puts; the
  assertions of `queue.c` follow. `EveryElementOwned` – no address is in two hands,
  none leaks, nothing remains after `Q_free`. `NoLostWakeup` – while threads are
  blocked, as many are awake as there are elements: `Q_get` signals nobody, so a put
  that did not signal would leave a thread asleep beside an element. `WaitersServed`,
  `ImplementsDeque`.

The modules state further invariants that the runs do not check, since others say
more or theorems have them: the types of each module (`TypeOK`) and `Bracket` of
`BinarySearch`, which its proof rests on.

Runs with `CHECK_DEADLOCK FALSE` can really stop: the server after a failed
assertion or a fault, a search when it returns, a server without a whole dump, a
queue that was freed or whose threads all wait.

## Fairness

`RangeAround` assumes strong fairness for the steps of a reader. A step that
waits for a mutex is disabled while another thread holds it, and that may happen
again and again; that a waiting thread gets a mutex which is freed infinitely
often is what the scheduler provides. `ClearPointer` and `Wipe`, the rest of a delete,
wait for nothing and need weak fairness. No update and no request ever has to come.
`Sessions` assumes weak fairness of time and of the checkpoint thread, none of the
clients. `Checkpointer` assumes weak fairness of the checkpoint thread, and of time.
`Snapshot` assumes strong fairness of the steps of a dump, which wait for locks, and weak
fairness of the end of a delete; none of range calls, which may keep a slot for ever.
`BlockingQueue` assumes weak fairness of the
threads inside `Q_get` that are not blocked: while one is awake the mutex is held
within single steps only. No thread has to call anything, or wakes up without a
signal. `WebServer` assumes that the server handles what was delivered, strong fairness
for each connection while no two calls of `range_around` are at work, and nothing of
such calls (`MayWaitForEver`). No client has to send a request, or the rest of one, nor
does MHD time out.

## Proofs

The modules `...Proofs` hold for all values of the constants that satisfy the named
assumptions of the modules: any finite or infinite set of integer postfixes, any
aliases, any block size of at least one, any threads, connections and slots, any
messages and any configured times. Only for `RangeAround`, which counts postfixes,
is their set finite, as the fields of the code are of a fixed size.

*Number index* (`NumberIndexProofs`). `IndexTypes`,
`IndexAscending` and `IndexCapacity` are `Spec => []TypeOK`, `[]TablesAscending` and
`[]CapacityKept`. Neither of the last two is inductive by itself: inserting at the
point that the search returns keeps a table ascending only if it was ascending, and
it fits only if there was room. The invariant `IInv` is their conjunction with the
types and says that every table is good in all three ways. The proof has a lemma for
each operator on tables (`InsertNewKeeps`, `OverwriteKeeps`, `EnterAtKeeps`,
`DeleteAtKeeps`) and one for each action. The core is `InsertAtProperties` and
`RemoveAtProperties`, which say what the entries of a sequence are after an insertion
and a removal; `InsertNewKeeps` includes the half-done insert with a refused alias.

From the same invariant follows what a request does. For updates, a second group of
lemmas says which alias a table binds a postfix to after each operator: an accepted
one changes the binding of its own number and no other (`UpdatesExact`); a refused
insert drops the last entry and may leave one with its own postfix
(`DamageBounded`). For ranges, the entries that `InRange` selects are a segment of an
ascending table, and the two searches return its ends: `RangesExact`, and
`RangeAssertsFailExactly` with the counting of what lies between them.
`IndexImplementsDirectory` is the refinement of `NumberDirectory`: the initial index
maps to the empty directory, and each action to the request of the directory with
the same number, answer and outcome; a failed assertion maps to a stop. No class of
inputs is excepted.

*Search.* `SearchCorrect` is `Spec => []ResultCorrect`: whatever ascending table
and key, a result at least 0 is the index of the key, and a negative one gives the
insertion point. `Bracket` is what the loop maintains: all entries left of `left`
are smaller, all right of `right` larger, and the last comparison was at an end
of what remains. This justifies `SearchResults`.

What the search compares are the bytes of `Codec`, for which `BinarySearchProofs` has
three more theorems, for strings and fields of every length. `PackedAreRead`: a string
of digits that fits is read back as it was. `RefusedAreEmpty`: one that does not fit
leaves the field, one with another character leaves the empty string, and these are
all the ways to be refused. `PackedAreOrdered`: `compare_entry` orders fields by the
lengths of their strings and then by the first digit that differs (`FirstByte`: the
bytes agree up to the one with this digit, which decides whichever half it is in).
That is the order of the ranks.

*Dump and restore.* `FilesHold` is `Spec => []FilesHoldTables`, `RestoredHeld` is
`Spec => RestoredWasHeld`. That a file has only tables that were held is not
inductive: header and entries are written in two steps. The invariant adds that
between the two the slot is locked and still holds the table of the header
(`HeaderHolds`), unless the slot is spoilt, that `held` has what each slot holds now (`HeldNow`), and that the
dump in memory is as good as the files (`Good`), of which any prefix is good
(`GoodPrefix`). That a start takes only a complete, readable file then gives
`RestoredHeld`.

*Range around a number* (`RangeAroundProofs`), for any readers, any number of slots,
any directory and all counts. There are three inductive invariants.

`IInv` has types, pointers and what each call has in its hands. That a reply is well
formed is not inductive: what a further table adds must be of a slot nothing was copied
from yet, so `DataOK` says where the slots copied so far end, at each `pc`, and that
room is left. It has to hold among all updates, and does so without the locks: the
start index may come from a table that was freed and used again and lie behind the end
of the slot's present one. Then the first part ends with the last entry of the table, cut
off by `copy_table_data`, and there is no second one (`CopyStartOK`); the counts left can
exceed those asked for by the size of one table, which is the bound in `TypeOK`.
`RangeAroundTypes`, `TablesStayDisjoint` and `RepliesWellFormed` follow.

That tables stay disjoint needs to know of every address which a delete has freed
whether it still is one of its slot's, and that no two deletes free the same
(`PointersOK`), all of it unless `torn`.

`LInv` adds who keeps which lock: a slot that was not robbed is locked exactly if a
delete that is not through or one call keeps it (`LocksOK`). `CallsExcludeEachOther`,
`OnlyCirclesAreStuck` and `StartTablesStable` follow, for all requests, those included that
unlock what they never locked. With three readers or more two that wait for each
other are not all there is; the circle is one of any number: the calls that wait and
keep a slot. What one of them waits for is kept by another one of them, since no
delete is left to keep it and no call waits for its own slot.

`HInv` adds to `IInv` what a call has gathered while no table changed: all numbers
from `Lo` to `Hi` in the order of the tables. Both ends are as far from the start as the
counts used up so far, and as long as a count is left its end is that of the
tables done (`Exact`). For this the numbers of each slot are placed among all numbers
(`Blocks`, `BlocksOK`), behind those of the slots below it. `InOrder` puts a finite set
into any strict order (`RankedSorts`), so that sorting what was gathered gives the
window in the order of its text (`SortedDistinct`). Each step of a call is looked at
with any set of exact calls (`XInv`), which the quiet ones are one of: `WindowsExact`.

*JSON writer* (also in `RangeAroundProofs`). `append_str` grows the buffer once, by
one block, however wide the string is. `WriterKeepsRoom` says that this is enough for
every block that no piece is wider than: each operation keeps room for the terminating
zero, and by `AppendStrWhole` no piece is cut. The widest text the server writes has
16 digits, a block 512 bytes; a name of 512 characters would not fit.

The text of a reply is an induction over its entries, and the induction theorems of
the library take an operator as parameter, which the backends cannot instantiate. So
the entries are written by recursive functions, not by folds, and the induction is
done with sets: a set of natural numbers that is not empty has a least element
(`LeastNatural`). It is used once for the existence of a function that follows a step
(`SomeFollows`), on which both `EntriesAppended` and `Objects` rest, and once for the
text. `Wrote(j, k, ps, levels)` says that `k` is `j` with the pieces `ps` written and
these levels open; there is a lemma of this form for each operation of the writer, and
`WroteBoth` joins two of them. `EntryWrote` is that of one entry, `EntriesWrote` of all,
and `RepliesAreDocuments` follows from `IInv`, by which a reply is a sequence of
numbers. It assumes `PieceAssumption` alone: three levels, no piece wider than a block,
and no empty one but numbers and aliases.

*Queue* (`BlockingQueueProofs`), for any finite set of threads and any addresses. The
invariant is the conjunction of the types and the three invariants of the run, and
none of them is inductive without the others: a put at the head must know that its
address is not in the list already (`EveryElementOwned`) to leave the other links
alone (`LinksMatch`), and a get that finds the list empty blocks, which loses no
wake-up only because `head` says so. There is a lemma on the links of a list for each
kind of change (`PutHeadLinked`, `PutTailLinked`, `TakeLinked`). `Q_free` follows the
links from the tail; that this reaches every element (`FreeReachesAll`) is a
least-element argument: the last place of the list that is not reached would have a
neighbour that is. `NoLostWakeup` is counted (`CountPlaced`, `SignalWakes`): a put
moves one thread from `blocked` to `woken`, a get takes an element and at most one
thread out of `woken`, and a woken thread blocks again only when nothing is left. `QueueImplementsDeque` maps the list to its
data, in order: puts, takes, returns and `Q_free` are steps of the deque, the others
stutter.

*HTTP requests* (`WebServerProofs`). `IInv` has one condition per connection
(`ConnOK`). That a handler gets what was sent is not inductive: between the pieces of
a form one needs to know how much of it was taken. `FormKept` adds that, unless a
pair was refused, every key sent so far is recorded; so a pair whose key comes again,
a cut value whose rest arrives later and a pair after the array is full cannot put
another value first (`RecordFaithful`, `PieceKeeps`). `ParamsAreThoseSent` follows
with the fact that a key has a first place in a sequence. `StopsKnown` has the pairs of
a form, of which the first decides whether anything was recorded, and for each handler
what its call of the directory may stop at. `UploadKept` says that the
file of an upload intact so far has its pieces up to the last one sent; a piece of
another upload to the same name ends that for both (`SavedKeeps`), and
`UploadsAreWhole` is its last step. For `UpdatesAreAsked` each handler has a lemma
on what it may do at all (`ClientEffect`, `GuiEffect`, `GetEffect`): be refused, log
in, answer from the directory, or make the update of its parameters; that these are the
ones sent follows from `whole`, with which nothing but whole values was recorded.
`MessageAssumption` says what a client can send: a form is a sequence of pairs, with
or without keys and values, an upload has a piece, and for a GET no content type is
looked at (`server.c` does so for POST only).

*Sessions* (`SessionsProofs`), for any connections, sessions, buckets and time-out.
`TableIsLive` needs to know that the walk is still at the element it condemned when it
removes it (`DoomedVisited`), since the test and the removal are two steps; the lemmas
`InsertHolds` and `UnlinkHolds` say which keys a table holds after each operation.
For `GateIsByCookie` the invariant follows what is known of a session: an id that is
not in use is known to no request and logged in to nobody (`UnusedUnknown`), and a session
that was created for a request is known to that request alone until the cookie is sent
(`Private`), so nobody else can have logged it in when its GUI request is looked at.
`TouchedAreKept` holds because a session is never older than the time since any request
at work touched it (`TouchedSince`). All steps of a request but the creation are
instances of one lemma (`MoveKeeps`).

*Checkpoints* (`CheckpointerProofs`). `BackupKept` speaks of no ages; its invariant
has to. `Schedule` says that the thread slept whole naps, the last of which began
before a checkpoint was due, which bounds the time since the last save by
`Interval`. `BackupYoung` says that the youngest whole checkpoint is at most one
round per failed save old, and the time since; so it is younger than `KeepTime`
whenever old ones are removed, and stays. `Cleaned` is the same from the other side,
for `OldCheckpointsGo`. Both hold for all times, also for naps longer than the delay,
which the four numbers of the run cannot show.

Only model-checked: the liveness properties, since fairness and ENABLED are beyond the
prover. `PackedOrderAgrees` and `FieldsKeepStrings` relate the bytes to the ranks of
their run, which are made from binary digits; their content is proved as
`PackedAreOrdered`, `PackedAreRead` and `RefusedAreEmpty`. Where a proof needs a first
place or a last one it uses `LeastNatural`, from the least element of a well-founded
order, instead of an induction.

## Where code and documents differ

Shown by runs that end in a violation:

* `refused_insert` – an insert whose alias cannot be packed has already shifted the
  entries and written its postfix (`nlkup.c:310`). The length is not counted up, so
  the table has the refused number and has lost its last one.
* `short_range` – `copy_lkup_tbl_range` answers a range of one or two numbers with none
  (`nlkup.c:61`), though its comment says that it copies from..to, both included.
* `sessions_freed` – a session expires between its lookup and its use, or in the
  middle of a slow upload: `ref_cnt` counts users, but nothing looks at it.

Others were met while modelling. The models contain the behaviour; the properties
above are stated so that they are about everything else:

* An alias of 16 digits is stored but read back as empty, with SUCCESS
  (`nlkup.c:376`): `WideAliases`; the directory says so with `Readable`. The readme has
  "given a number, retrieve its alias if any".
* A number whose prefix starts with 0, other than 000000, fails the assertion of
  `nlkup.c:220`, and so does a range without numbers in a prefix that has some
  (`nlkup.c:1285`): `aborted`, and `Stops` of the directory.
* Two or more range requests may hold their start slots and wait for each other's for
  ever (`nlkup.c:1060`): one goes down from the higher slot, the other up. The comment at
  `nlkup.c:1144` says that locking table by table "avoids need for global locking".
  `StuckOnlyInCircle` says that this is the only way to be stuck, and `RequestEnds` is checked for one reader.
* `nlkup_get_range_around` searches a NULL table when the prefix has none
  (assertion of `nlkup.c:228`), uses the table it read before locking
  (`nlkup.c:1116`), and unlocks a slot it never locked when the number cannot be
  packed (`nlkup.c:1110`): `fault`, and `BeginRefused`, after which `MutualExclusion`
  holds for the other slots only.
* `find_nearest_entry` dereferences the NULL table of an empty slot
  (`nlkup.c:777`), uses the slot past the last one (`nlkup.c:788`), so that it never
  searches downwards, and passes over the entry at the insertion point
  (`nlkup.c:747`). `WindowExact` is about the start that is found.
* `delete_entry` frees a table before it clears the pointer to it (`nlkup.c:449`), and
  then sets the fields of the freed table (`nlkup.c:452`): `ClearPointer`, `Wipe`.
* After a stop of the server longer than `check_point_keep_time` the first wake-up
  removes all checkpoints before it saves one: `BackupKept` is about runs that have
  saved one.

* Six kinds of requests stop the server (`OnlyKnownStops`): a form without a pair, or
  whose first pair has no value (`get_key_value`, `server.c:376`); one with a value under
  an empty key (`alloc_key_value`, `server.c:349`); a range without
  `range_postfix_length`, which `all_digits` dereferences (`server.c:108`); a number of a
  low prefix (`nlkup.c:220`), a range without numbers (`nlkup.c:1285`) and a range around
  a number in an empty prefix (`nlkup.c:228`).
* A value that ends in another piece of the body than it began in is cut to its first
  part, as `iterate_post` ignores the offset (`server.c:486`): `TakenFor`. So a delete of
  one number can remove another one, which is its beginning, and is answered OK;
  `UpdatesAsAsked` is about forms that were not cut (`whole`). A pair after a refused one
  is dropped, though the request goes on.
* An upload without data leaves an earlier file of its name (`server.c:443`). A close
  that fails is logged and the upload goes on (`server.c:475`): `intact`.
* An upload is answered with HTTP 400 even when it was saved. A logged-in user who
  sends the edit command gets no reply.
* `dump_file` and `restore_file` of clients answer OK and do nothing.
* Values are written without quotes, so that the JSON of a range around a number has
  digits with leading zeros; `table_to_json` (`utils.c:534`) writes no comma between
  entries.

## Not modelled

* Failing allocations: no property is about them. A failing write of a dump or of an
  upload is modelled.
* In `RangeAround` and `Snapshot` the late write of a delete empties a table of another
  slot between the operations on it, not in the middle of an insert that holds that
  slot's lock; and what follows when an update meets a table that a delete has freed is
  only a fault. Aliases, so also those that cannot be unpacked, are left out of
  `RangeAround`.
* A save that waits for ever for a slot which range calls keep: `Checkpointer` bounds
  every save by `MaxSave`, so `CheckpointsRegular` is about the runs without it.
* `get_key_value` compares the keys of the GUI with `strstr`; the keys of the model are
  compared as a whole, which is the same for those the pages send.
* `str_split`, `str_trim` and `str_cat`: they read the configuration and build names.
* `table_to_json`, which formats a table piece by piece without state of its own.
* `HT_delete`, `HT_free`, `nlkup_restore_file` and `nlkup_process_file` have no caller
  in the server.
* `ref_cnt` and the counter of `mem_alloc` are changed by several threads without a
  lock; no code reads them.
* The configuration, whose values are constants here; logging, the GUI pages, the
  makefile; `db.c`, a stub that is not built.
* libmicrohttpd is external: it calls `answer_to_request` and `request_completed`
  for one connection in one thread, and its post-processor stops after `MHD_NO`. So
  are the operator and the file system.

## Plan

Written so far, in this order: `LookupTbl`, `NumberIndex`, `BinarySearch`,
`NumberDirectory` with the refinement, the first proofs, `RangeAround`,
`HashTable` with `Sessions`, `Snapshot` with its proofs, `Checkpointer`; then
`BlockingQueue` with `Deque`, `Codec`, `DirectoryRequests`, `WebServer`, `JsonWriter`
with its proofs and `RangeAroundReply`; then the proofs of the ranges, updates and
refinement of the index, of `BlockingQueue`, `WebServer`, `Checkpointer` and `Sessions`;
then those of `RangeAround`, `Codec` and the text of a reply; then the requests that stop
the server, deletes of last entries in three steps, stolen locks and late writes, and
`RangeAroundQuiet`.

To come, if more of it is wanted: `str_split` and the reading of the configuration.
