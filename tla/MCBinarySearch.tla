--------------------------- MODULE MCBinarySearch ---------------------------
(***************************************************************************)
(* Values of BinarySearch for TLC: every ascending table of up to MaxLen   *)
(* entries, and every key in, between, below and above its postfixes.      *)
(*                                                                         *)
(* The keys are at the same time the ranks of the digit strings of up to   *)
(* three 0s and 9s, so that what the search is told by compare_entry can   *)
(* be checked against the bytes compare_entry sees.                        *)
(***************************************************************************)
EXTENDS BinarySearch, Codec

CONSTANTS
  MaxLen,
  FieldSize  \* bytes in the field of an entry

MCPostfixes == {2 * i : i \in 1..MaxLen}

MCTable(S) ==
  [i \in 1..Cardinality(S) |->
     [postfix |-> CHOOSE p \in S : Cardinality({q \in S : q < p}) = i - 1,
      alias   |-> EmptyAlias]]

MCSearches == {MCTable(S) : S \in SUBSET MCPostfixes} \X (1..(2 * MaxLen + 1))

\* 1 is "", 2 "0", 3 "9", 4 "00", 5 "09", ...: the binary digits of the rank
\* behind the first one.  Shorter strings come first, then smaller values.
MCString(r) ==
  LET n == CHOOSE k \in 0..3 : 2^k <= r /\ r < 2^(k + 1)
  IN  [i \in 1..n |-> 9 * ((r \div 2^(n - i)) % 2)]

MCBlankField == [j \in 1..FieldSize |-> 0]
MCPacked(r)  == Compress(MCString(r), MCBlankField).field

(***************************************************************************)
(* The order of the packed bytes is the order of the strings by length and *)
(* then by value, for odd and even lengths and with zeros at the end: the  *)
(* ranks the search compares stand for bytes faithfully.                   *)
(***************************************************************************)
PackedOrderAgrees ==
  \A i \in 1..Len(ents) :
    CompareBytes(MCPacked(ents[i].postfix), MCPacked(key)) =
      Compare(ents[i].postfix, key)

(***************************************************************************)
(* What a field holds after compress_to_buf, whatever it held: the string, *)
(* if that has only digits and fits; what it held, if it does not fit; the *)
(* empty string otherwise.  CompressAlias of LookupTbl says the same.      *)
(***************************************************************************)
MCRead(field) == Decompress(field, 2 * FieldSize).str

MCOverwritten(str, old) == MCRead(Compress(str, MCPacked(old)).field)

FieldsKeepStrings ==
  LET str == MCString(key)
  IN  \A i \in 1..Len(ents) : LET old == ents[i].postfix IN
        /\ MCOverwritten(str, old) = str
        /\ MCOverwritten(str \o <<0, 9, 0, 9, 9>>, old) = MCString(old)
        /\ MCOverwritten(Append(str, NonDigit), old) = << >>
=============================================================================
