-------------------------------- MODULE Deque --------------------------------
(***************************************************************************)
(* What queue.h promises, with no list, lock or memory: a sequence of data *)
(* that grows at either end and is taken from the head, each datum by one  *)
(* thread, once.  BlockingQueue implements it.                             *)
(***************************************************************************)
EXTENDS Sequences

CONSTANTS
  Threads,
  Data,
  NoData  \* what a thread holds that has taken nothing yet

VARIABLES
  items,  \* the data in the queue, the head first
  taken   \* what each thread got last

vars == <<items, taken>>

Init ==
  /\ items = << >>
  /\ taken = [t \in Threads |-> NoData]

\* "insertion at head possible to take precedence"
PutHead(d) == items' = <<d>> \o items /\ UNCHANGED taken

\* "insertion at tail"
PutTail(d) == items' = Append(items, d) /\ UNCHANGED taken

\* "retrieval at head"
Get(t) ==
  /\ items # << >>
  /\ taken' = [taken EXCEPT ![t] = Head(items)]
  /\ items' = Tail(items)

\* The queue is freed with what is in it.
Free == items' = << >> /\ UNCHANGED taken

Next ==
  \/ \E d \in Data : PutHead(d) \/ PutTail(d)
  \/ \E t \in Threads : Get(t)
  \/ Free

Spec == Init /\ [][Next]_vars
=============================================================================
