--------------------------- MODULE MCRangeAround ---------------------------
(* Values for TLC: postfixes are ranks, as in MCNumberIndex. *)
EXTENDS RangeAround, TLC

\* 107 is "7", 210 is "10" and 212 is "12": as texts they are in another order.
MCText(p) == CASE p = 107 -> 70 [] p = 210 -> 10 [] p = 212 -> 12
MCTextLess(p, q) == MCText(p) < MCText(q)

MCPostfixes == {107, 210}
MCThreePostfixes == {107, 210, 212}
MCOnePostfix == {107}

MCAlike == Permutations(Readers) \cup Permutations(Updaters)

\* What follows once an insert or delete came into the middle of a delete is
\* not explored.
MCUntorn == ~torn

\* The local variables of a call that are read again.
MCRead(c) ==
  [c EXCEPT !.nbr    = IF c.pc = "search" THEN @ ELSE << >>,
            !.t      = IF c.pc \in {"search", "lockBefore", "lockAfter"} THEN @ ELSE NULL,
            !.pos    = IF c.pc = "nearest" THEN @ ELSE 0,
            !.cur    = IF c.pc \in {"copy", "answered"} THEN 0 ELSE @,
            !.start  = IF c.pc = "answered" THEN << >> ELSE @,
            !.before = IF c.pc \in {"after", "lockAfter", "answered"} THEN 0 ELSE @,
            !.after  = IF c.pc = "answered" THEN 0 ELSE @]

\* States that differ only in what is not read again are explored once: such
\* local variables, and what is left in memory that is free.
MCView ==
  <<ptr, allocated, [t \in TableIds |-> IF Live(t) THEN heap[t] ELSE {}], deletes,
    locked, history, [r \in Readers |-> MCRead(call[r])], fault>>
=============================================================================
