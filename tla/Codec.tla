-------------------------------- MODULE Codec --------------------------------
(***************************************************************************)
(* How nlkup keeps a string of digits in a field of an entry (utils.c):    *)
(* its length in the first byte, then two digits to a byte, zeros behind.  *)
(* A string is a sequence of digits, with NonDigit for any other char; a   *)
(* field is a sequence of bytes, of which C's data[j] is number j + 1.     *)
(***************************************************************************)
EXTENDS Integers, Sequences

CONSTANT NonDigit

ASSUME NonDigitAssumption == NonDigit \notin 0..9

Blank(field) == [j \in 1..Len(field) |-> 0]

\* (nbr_len + 1) / 2 + 1
PackedLen(str) == (Len(str) + 1) \div 2 + 1

\* The digits before the first char that is none.
GoodDigits(str) ==
  LET good == {k \in 0..Len(str) : \A i \in 1..k : str[i] # NonDigit}
  IN  SubSeq(str, 1, CHOOSE k \in good : \A l \in good : l <= k)

\* The byte after j whole ones: a first digit on the left, a second one,
\* if there is one, on the right.  from, where the callers let the string
\* start in the number, is 0 or 6, so i % 2 tells the first from the second.
PackedByte(str, j) ==
  IF 2 * j > Len(str) THEN 16 * str[2 * j - 1]
                      ELSE 16 * str[2 * j - 1] + str[2 * j]

\* mutant: the length byte is left out
CompressNoLength(str, field) ==
  IF PackedLen(str) > Len(field)
  THEN [ok |-> FALSE, field |-> field]
  ELSE LET good == GoodDigits(str)
       IN  [ok    |-> good = str,
            field |-> [j \in 1..Len(field) |->
                         IF j > 1 /\ j <= PackedLen(good)
                         THEN PackedByte(good, j - 1) ELSE 0]]

\* mutant: the destination is wiped before its size is checked
CompressWipesFirst(str, field) ==
  IF PackedLen(str) > Len(field)
  THEN [ok |-> FALSE, field |-> Blank(field)]
  ELSE LET good == GoodDigits(str)
       IN  [ok    |-> good = str,
            field |-> [j \in 1..Len(field) |->
                         IF j = 1 THEN IF good = str THEN Len(str) ELSE 0
                         ELSE IF j <= PackedLen(good)
                         THEN PackedByte(good, j - 1) ELSE 0]]

(***************************************************************************)
(* compress_to_buf: a string with no room changes nothing; one with a char *)
(* that is no digit leaves what came before it, without a length.          *)
(***************************************************************************)
Compress(str, field) ==
  IF PackedLen(str) > Len(field)
  THEN [ok |-> FALSE, field |-> field]
  ELSE LET good == GoodDigits(str)
       IN  [ok    |-> good = str,
            field |-> [j \in 1..Len(field) |->
                         IF j = 1 THEN IF good = str THEN Len(str) ELSE 0
                         ELSE IF j <= PackedLen(good)
                         THEN PackedByte(good, j - 1) ELSE 0]]

(***************************************************************************)
(* decompress_to_buf into a buffer of sz chars, one of them for the        *)
(* terminator; the buffer is not touched when it is too small.             *)
(***************************************************************************)
Decompress(field, sz) ==
  LET len == field[1]
  IN  IF sz < len + 1
      THEN [ok |-> FALSE, str |-> << >>]
      ELSE [ok  |-> TRUE,
            str |-> [i \in 1..len |->
                       LET byte == field[(i + 1) \div 2 + 1]
                       IN  IF i % 2 = 0 THEN byte % 16 ELSE byte \div 16]]

(***************************************************************************)
(* compare_entry: the first byte in which two fields differ decides.       *)
(***************************************************************************)
CompareBytes(f, g) ==
  IF f = g THEN 0
  ELSE LET differ == {j \in 1..Len(f) : f[j] # g[j]}
           first  == CHOOSE j \in differ : \A k \in differ : j <= k
       IN  IF f[first] < g[first] THEN -1 ELSE 1
=============================================================================
