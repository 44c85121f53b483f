---------------------- MODULE MCNumberIndexRefinement ----------------------
(* Values for TLC of the refinement of NumberDirectory by NumberIndex. *)
EXTENDS MCNumberIndex, NumberIndexRefinement
=============================================================================
