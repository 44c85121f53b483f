----------------------------- MODULE MCSessions -----------------------------
(* Values for TLC: the buckets of the sessions. *)
EXTENDS Sessions

MCTwo == {1, 2}
MCThree == {1, 2, 3}

MCOneBucket == [s \in Keys |-> 0]
MCTwoBuckets == [s \in Keys |-> s % 2]
=============================================================================
