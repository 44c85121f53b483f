-------------------------- MODULE RangeAroundReply --------------------------
(***************************************************************************)
(* The body of a reply to range_around: number_aliases_to_json writes what *)
(* RangeAround found with the JSON writer.                                 *)
(***************************************************************************)
EXTENDS RangeAround, JsonWriter

CONSTANTS NumberText(_), AliasText(_)  \* the digits of a number and of its alias

Delimiters == {", ", "\"", "\": ", "{ ", "[ ", " }", " ]"}
Labels     == {"data", "number", "alias"}

\* An array of objects is three levels deep.  No piece is wider than a block,
\* and what is between the numbers and aliases is not empty.
ASSUME PieceAssumption ==
  /\ MaxLevels >= 3
  /\ \A s \in Delimiters \cup Labels : s \in STRING /\ Width(s) \in 1..Block
  /\ \A n \in Slots \X Postfixes : /\ NumberText(n) \in STRING /\ Width(NumberText(n)) \in 0..Block
                                  /\ AliasText(n) \in STRING /\ Width(AliasText(n)) \in 0..Block

AppendEntry(j, n) ==
  PopLevel(AppendField(AppendField(PushLevel(j, "object", ""),
             "number", NumberText(n)), "alias", AliasText(n)), "object")

\* The buffer after the first entries of data, by their number.
EntriesAppended(j, data) ==
  LET after[i \in 0..Len(data)] ==
        IF i = 0 THEN j ELSE AppendEntry(after[i - 1], data[i])
  IN  after

NumberAliasesToJson(data) ==
  LET opened == PushLevel(PushLevel(JsonNew, "object", ""), "array", "data")
  IN  PopLevel(PopLevel(EntriesAppended(opened, data)[Len(data)], "array"), "object")

\* The document meant: an array of objects, separated by commas.  An empty
\* text is no piece.
Piece(s)  == IF Width(s) = 0 THEN << >> ELSE <<s>>
Label(name) == <<"\"">> \o <<name>> \o <<"\": ">>

Field(name, val) == Label(name) \o Piece(val)

Object(n) ==
  <<"{ ">> \o Field("number", NumberText(n)) \o (<<", ">> \o Field("alias", AliasText(n)))
  \o <<" }">>

Comma(first) == IF first THEN << >> ELSE <<", ">>

\* The elements of the array, up to each number.
Objects(data) ==
  LET upto[i \in 0..Len(data)] ==
        IF i = 0 THEN << >> ELSE upto[i - 1] \o (Comma(i = 1) \o Object(data[i]))
  IN  upto

Document(data) ==
  <<"{ ">> \o (Label("data") \o <<"[ ">>) \o Objects(data)[Len(data)]
  \o <<" ]">> \o <<" }">>

(***************************************************************************)
(* However many numbers a reply has and wherever the ends of the blocks    *)
(* fall in it, its text is the whole document, each comma in its place,    *)
(* with room left for the terminating zero; every level is closed, which   *)
(* json_free asserts.                                                      *)
(***************************************************************************)
ReplyIsDocument ==
  \A r \in Readers : call[r].pc = "answered" /\ call[r].data # << >> =>
    LET j == NumberAliasesToJson(call[r].data)
    IN  /\ j.text = Document(call[r].data)
        /\ j.cnt < j.sz
        /\ j.levels = << >> /\ ~j.failed
=============================================================================
