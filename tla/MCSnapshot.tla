----------------------------- MODULE MCSnapshot -----------------------------
(* Bounds for TLC. *)
EXTENDS Snapshot

\* A table made from header and entries that do not fit: the server is taken
\* not to come up with it, which is the other thing that can happen.
NotTorn == \A i \in Slots : index_table'[i] # Torn

\* Of the calls that have a lock at most one is a range call, one a delete.
OneOfEach == Cardinality(kept') <= 1 /\ Cardinality(deleting') <= 1

MCFairSpec ==
  /\ Init /\ [][Next /\ NotTorn /\ OneOfEach]_vars
  /\ SF_vars(Dump)
  /\ \A i \in Slots : WF_vars(DeleteEnds(i))
=============================================================================
