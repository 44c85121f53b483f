---------------------------- MODULE MCNumberIndex ----------------------------
(***************************************************************************)
(* Values of the constants of NumberIndex for TLC.  A postfix of len       *)
(* digits and value v has rank 100 * len + v: compare_entry looks at the   *)
(* length byte first, then at the digits.                                  *)
(***************************************************************************)
EXTENDS NumberIndex

CONSTANT TooLong  \* a postfix with more digits than its field holds

MCRank(len, v) == 100 * len + v

\* "10", "12", "15" and "100": two lengths, and three of the same length.
MCFourPostfixes == {MCRank(2, 10), MCRank(2, 12), MCRank(2, 15), MCRank(3, 100)}

\* A number extended with len digits: all of them, those after a first digit
\* of 1 or of 3, and one number.
MCRangeKeys ==
  {<<MCRank(3, 0), MCRank(3, 999)>>, <<MCRank(2, 0), MCRank(2, 99)>>,
   <<MCRank(2, 10), MCRank(2, 19)>>, <<MCRank(2, 30), MCRank(2, 39)>>,
   <<MCRank(2, 12), MCRank(2, 12)>>}

\* No range request.
MCNoKeys == {}

MCBadPostfixes == {TooLong}
=============================================================================
