-------------------------- MODULE RangeAroundQuiet --------------------------
(***************************************************************************)
(* What a reply to range_around holds.  Among updates the code promises no *)
(* more than a reply that is well formed; a call beside which nothing was  *)
(* changed gathers exactly the window around its start.                    *)
(***************************************************************************)
EXTENDS RangeAround

VARIABLE quiet  \* history: the readers in a call that saw no table change

quietVars == <<vars, quiet>>

\* No slot points to a table that a delete has freed.
NothingFreed == \A slot \in Slots : ~Freed(ptr[slot])

Watch ==
  quiet' = IF index' # index THEN {}
           ELSE {r \in Readers : /\ call'[r].pc # "idle"
                                 /\ r \in quiet \/ (call[r].pc = "idle" /\ NothingFreed)}

QuietSpec == Init /\ quiet = {} /\ [][Next /\ Watch]_quietVars

-----------------------------------------------------------------------------
\* Every number now stored, in order.
Stored == {n \in Slots \X Postfixes :
             ptr[n[1]] # NULL /\ n[2] \in heap[ptr[n[1]]]}

Precedes(m, n) == m[1] < n[1] \/ (m[1] = n[1] /\ m[2] < n[2])

AllNumbers == InOrder(Stored, Precedes)

\* The number the copy of an answered or copying call started from.
StartNumber(c) == <<c.start[1], Table(c.start[1])[c.start[2] + 1]>>

\* The start, at most nbr_before numbers below it and nbr_after above it.
Window(c) ==
  LET all == AllNumbers
      i   == CHOOSE j \in 1..Len(all) : all[j] = StartNumber(c)
  IN  {all[j] : j \in {k \in 1..Len(all) : k >= i - c.asked[1] /\ k <= i + c.asked[2]}}

(***************************************************************************)
(* When no insert or delete came between the begin of a call and its       *)
(* answer, the reply is exactly the window of the stored numbers around    *)
(* the start, each once, whatever was updated before and although it is    *)
(* gathered table by table and first in the order of the tables.           *)
(***************************************************************************)
WindowExact ==
  \A r \in quiet : call[r].pc = "answered" =>
    call[r].data = InOrder(Window(call[r]), Alphabetical)
=============================================================================
