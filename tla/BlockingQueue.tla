---------------------------- MODULE BlockingQueue ----------------------------
(***************************************************************************)
(* queue.c: a doubly linked list between threads, with a mutex and a       *)
(* condition variable.  What runs from pthread_mutex_lock to the next wait *)
(* or unlock is one step; Q_get goes on with the element it took after the *)
(* mutex is unlocked.                                                      *)
(*                                                                         *)
(* next points towards the head of the queue, prev towards its tail.       *)
(***************************************************************************)
EXTENDS Integers, FiniteSets, Sequences

CONSTANTS
  Threads,
  Elements,  \* a bound: the addresses alloc_elem may return
  Data,
  NULL

ASSUME ThreadsAssumption == IsFiniteSet(Threads)
ASSUME NullAssumption == NULL \notin Elements \cup Data

VARIABLES
  head, tail,  \* of the Q_Queue
  prev, next, data,  \* of the element at an address
  allocated,   \* the addresses in use
  pc,          \* where each thread is
  elem,        \* Q_get: the element it took
  result,      \* what its last Q_get returned
  order,       \* history: the addresses in the queue, the head first
  freed        \* whether Q_free was called

vars == <<head, tail, prev, next, data, allocated, pc, elem, result, order, freed>>

list    == <<head, tail, prev, next, data, allocated, order>>
threads == <<pc, elem, result>>

\* idle: outside; blocked: in pthread_cond_wait; woken: on its way out of it,
\* to take the mutex again; holding: past the unlock of Q_get.
Places == {"idle", "blocked", "woken", "holding"}

At(place) == {t \in Threads : pc[t] = place}

Init ==
  /\ head = NULL /\ tail = NULL
  /\ prev = [e \in Elements |-> NULL]
  /\ next = [e \in Elements |-> NULL]
  /\ data = [e \in Elements |-> NULL]
  /\ allocated = {}
  /\ pc = [t \in Threads |-> "idle"]
  /\ elem = [t \in Threads |-> NULL]
  /\ result = [t \in Threads |-> NULL]
  /\ order = << >>
  /\ freed = FALSE

-----------------------------------------------------------------------------
\* mutant: signal only when the queue was empty
SignalFirstOnly ==
  IF head = NULL /\ At("blocked") # {}
  THEN \E t \in At("blocked") : pc' = [pc EXCEPT ![t] = "woken"]
  ELSE UNCHANGED pc

\* pthread_cond_signal unblocks one of the threads that wait, if any does.
Signal ==
  IF At("blocked") = {} THEN UNCHANGED pc
  ELSE \E t \in At("blocked") : pc' = [pc EXCEPT ![t] = "woken"]

\* mutant: the old head is not linked to the new one
PutHeadUnlinked(e, d) ==
  /\ prev' = [prev EXCEPT ![e] = head]
  /\ next' = [next EXCEPT ![e] = NULL]
  /\ data' = [data EXCEPT ![e] = d]
  /\ head' = e
  /\ tail' = IF tail = NULL THEN e ELSE tail
  /\ order' = <<e>> \o order

\* Q_put with at_head.
PutHead(e, d) ==
  /\ prev' = [prev EXCEPT ![e] = head]
  /\ next' = [x \in Elements |-> IF x = e THEN NULL
                                 ELSE IF x = head THEN e ELSE next[x]]
  /\ data' = [data EXCEPT ![e] = d]
  /\ head' = e
  /\ tail' = IF tail = NULL THEN e ELSE tail
  /\ order' = <<e>> \o order

\* Q_put without.
PutTail(e, d) ==
  /\ next' = [next EXCEPT ![e] = tail]
  /\ prev' = [x \in Elements |-> IF x = e THEN NULL
                                 ELSE IF x = tail THEN e ELSE prev[x]]
  /\ data' = [data EXCEPT ![e] = d]
  /\ tail' = e
  /\ head' = IF head = NULL THEN e ELSE head
  /\ order' = Append(order, e)

Put(t, e, d) ==
  /\ pc[t] = "idle" /\ ~freed
  /\ e \in Elements \ allocated
  /\ allocated' = allocated \cup {e}
  /\ PutHead(e, d) \/ PutTail(e, d)
  /\ Signal
  /\ UNCHANGED <<elem, result, freed>>

-----------------------------------------------------------------------------
\* mutant: the tail keeps pointing to the element taken
TakeKeepsTail(t) ==
  /\ head # NULL
  /\ pc' = [pc EXCEPT ![t] = "holding"]
  /\ elem' = [elem EXCEPT ![t] = head]
  /\ head' = prev[head]
  /\ next' = IF prev[head] = NULL THEN next ELSE [next EXCEPT ![prev[head]] = NULL]
  /\ order' = Tail(order)
  /\ UNCHANGED <<prev, data, tail, allocated, result, freed>>

\* Q_get finds an element: it is unlinked and the mutex unlocked.
Take(t) ==
  /\ head # NULL
  /\ pc' = [pc EXCEPT ![t] = "holding"]
  /\ elem' = [elem EXCEPT ![t] = head]
  /\ head' = prev[head]
  /\ next' = IF prev[head] = NULL THEN next ELSE [next EXCEPT ![prev[head]] = NULL]
  /\ tail' = IF tail = head THEN NULL ELSE tail
  /\ order' = Tail(order)
  /\ UNCHANGED <<prev, data, allocated, result, freed>>

\* It finds none: the thread waits and the mutex is unlocked.
Wait(t) ==
  /\ head = NULL
  /\ pc' = [pc EXCEPT ![t] = "blocked"]
  /\ UNCHANGED <<list, elem, result, freed>>

\* The call, and the return from pthread_cond_wait to the loop condition.
Call(t)   == pc[t] = "idle" /\ ~freed /\ (Take(t) \/ Wait(t))
Resume(t) == pc[t] = "woken" /\ (Take(t) \/ Wait(t))

\* POSIX: a wait may return though nobody signalled.
WakeSpuriously(t) ==
  /\ pc[t] = "blocked"
  /\ pc' = [pc EXCEPT ![t] = "woken"]
  /\ UNCHANGED <<list, elem, result, freed>>

\* The element is wiped and freed, its data returned.
Return(t) ==
  /\ pc[t] = "holding"
  /\ prev' = [prev EXCEPT ![elem[t]] = NULL]
  /\ next' = [next EXCEPT ![elem[t]] = NULL]
  /\ data' = [data EXCEPT ![elem[t]] = NULL]
  /\ allocated' = allocated \ {elem[t]}
  /\ result' = [result EXCEPT ![t] = data[elem[t]]]
  /\ elem' = [elem EXCEPT ![t] = NULL]
  /\ pc' = [pc EXCEPT ![t] = "idle"]
  /\ UNCHANGED <<head, tail, order, freed>>

-----------------------------------------------------------------------------
\* The addresses Q_free visits, from the tail along next: what is in every
\* set that has the first one and with an address the one behind it.
Closed(S) == \A e \in S : next[e] # NULL => next[e] \in S

Reached(from) ==
  IF from = NULL THEN {}
  ELSE {e \in Elements :
          \A S \in SUBSET Elements : from \in S /\ Closed(S) => e \in S}

\* Q_free, by the owner, when no thread is in a call.
Free ==
  /\ ~freed /\ At("idle") = Threads
  /\ freed' = TRUE
  /\ LET gone == Reached(tail)
     IN  /\ allocated' = allocated \ gone
         /\ prev' = [e \in Elements |-> IF e \in gone THEN NULL ELSE prev[e]]
         /\ next' = [e \in Elements |-> IF e \in gone THEN NULL ELSE next[e]]
         /\ data' = [e \in Elements |-> IF e \in gone THEN NULL ELSE data[e]]
  /\ head' = NULL /\ tail' = NULL /\ order' = << >>
  /\ UNCHANGED threads

Next ==
  \/ \E t \in Threads, e \in Elements, d \in Data : Put(t, e, d)
  \/ \E t \in Threads : Call(t) \/ Resume(t) \/ WakeSpuriously(t) \/ Return(t)
  \/ Free

Spec == Init /\ [][Next]_vars

\* A thread inside Q_get that can run does; nobody has to call anything.
FairSpec ==
  /\ Spec
  /\ \A t \in Threads : WF_vars(Resume(t) \/ Return(t))

-----------------------------------------------------------------------------
TypeOK ==
  /\ head \in Elements \cup {NULL} /\ tail \in Elements \cup {NULL}
  /\ prev \in [Elements -> Elements \cup {NULL}]
  /\ next \in [Elements -> Elements \cup {NULL}]
  /\ data \in [Elements -> Data \cup {NULL}]
  /\ allocated \subseteq Elements
  /\ pc \in [Threads -> Places]
  /\ elem \in [Threads -> Elements \cup {NULL}]
  /\ result \in [Threads -> Data \cup {NULL}]
  /\ order \in Seq(Elements)
  /\ freed \in BOOLEAN

(***************************************************************************)
(* The two ways through the list agree with each other and with the order  *)
(* in which elements were put, whoever puts and takes at which end: the    *)
(* four assertions of queue.c are consequences.                            *)
(***************************************************************************)
LinksMatch ==
  /\ head = IF order = << >> THEN NULL ELSE order[1]
  /\ tail = IF order = << >> THEN NULL ELSE order[Len(order)]
  /\ \A i \in 1..Len(order) :
       /\ next[order[i]] = IF i = 1 THEN NULL ELSE order[i - 1]
       /\ prev[order[i]] = IF i = Len(order) THEN NULL ELSE order[i + 1]

(***************************************************************************)
(* An address in use is in the queue once or in the hands of one thread,   *)
(* which therefore may touch it without the mutex; the others are free, so *)
(* nothing leaks, and after Q_free nothing is left.                        *)
(***************************************************************************)
EveryElementOwned ==
  /\ \A i, j \in 1..Len(order) : order[i] = order[j] => i = j
  /\ \A t \in Threads : pc[t] = "holding" <=> elem[t] # NULL
  /\ \A t, u \in Threads : elem[t] # NULL /\ elem[t] = elem[u] => t = u
  /\ \A t \in Threads, i \in 1..Len(order) : elem[t] # order[i]
  /\ allocated = {order[i] : i \in 1..Len(order)}
                   \cup ({elem[t] : t \in Threads} \ {NULL})

(***************************************************************************)
(* No wake-up is lost: as long as a thread stays blocked, every element in *)
(* the queue has a thread already woken on its way to it, though calls     *)
(* that arrive later may take the element first and a wait may end for no  *)
(* reason.                                                                 *)
(***************************************************************************)
NoLostWakeup ==
  At("blocked") # {} => Len(order) <= Cardinality(At("woken"))

\* With elements left over, no thread stays in pthread_cond_wait for ever.
WaitersServed ==
  head # NULL ~> (head = NULL \/ At("blocked") \cup At("woken") = {})

(***************************************************************************)
(* The queue implements the deque: data come out in the order of the deque *)
(* and each is returned by exactly one call, although a call returns it    *)
(* after it has left the critical section.                                 *)
(***************************************************************************)
TakenBy(t) == IF elem[t] = NULL THEN result[t] ELSE data[elem[t]]

Abstract == INSTANCE Deque WITH
  NoData <- NULL,
  items  <- [i \in 1..Len(order) |-> data[order[i]]],
  taken  <- [t \in Threads |-> TakenBy(t)]

ImplementsDeque == Abstract!Spec
=============================================================================
