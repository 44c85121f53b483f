----------------------------- MODULE JsonWriter -----------------------------
(***************************************************************************)
(* json.c: text written piece by piece into a buffer that grows by a block *)
(* when the next piece would fill it.  A text is the sequence of its       *)
(* pieces; of a piece only its width matters here.                         *)
(***************************************************************************)
EXTENDS Integers, Sequences

CONSTANTS
  Block,     \* JSON_BUFR_SZ
  MaxLevels, \* MAX_NBR_LEVELS
  Width(_)   \* strlen

ASSUME BlockAssumption == Block \in Nat \ {0} /\ MaxLevels \in Nat

Cut == "cut"  \* stands for a piece of which snprintf wrote only a part

\* JSON_BufferStruct, and whether an assertion failed.
JsonNew == [text |-> << >>, cnt |-> 0, sz |-> Block, levels |-> << >>, failed |-> FALSE]

GrowBufr(j) == [j EXCEPT !.sz = @ + Block]

AppendStrLate(j, s) ==  \* mutant: > instead of >=
  LET k == IF j.cnt + Width(s) > j.sz THEN GrowBufr(j) ELSE j
  IN  IF Width(s) = 0 THEN j
      ELSE [k EXCEPT !.text = Append(@, IF k.cnt + Width(s) < k.sz THEN s ELSE Cut),
                     !.cnt = @ + Width(s)]

\* append_str grows the buffer once, and counts what snprintf had no room for.
AppendStr(j, s) ==
  LET k == IF j.cnt + Width(s) >= j.sz THEN GrowBufr(j) ELSE j
  IN  IF Width(s) = 0 THEN j
      ELSE [k EXCEPT !.text = Append(@, IF k.cnt + Width(s) < k.sz THEN s ELSE Cut),
                     !.cnt = @ + Width(s)]

\* The comma before all but the first value of the innermost level.
Separated(j) ==
  LET top == Len(j.levels)
  IN  IF top = 0 THEN j
      ELSE IF j.levels[top].first_value
      THEN [j EXCEPT !.levels[top].first_value = FALSE]
      ELSE AppendStr(j, ", ")

Named(j, name) ==
  IF name = "" THEN j
  ELSE AppendStr(AppendStr(AppendStr(j, "\""), name), "\": ")

PushLevel(j, type, name) ==
  IF Len(j.levels) >= MaxLevels THEN j
  ELSE LET opened == AppendStr(Named(Separated(j), name),
                               IF type = "object" THEN "{ " ELSE "[ ")
       IN  [opened EXCEPT !.levels = Append(@, [type |-> type, first_value |-> TRUE])]

PopLevel(j, type) ==
  LET top == Len(j.levels)
  IN  IF top = 0 \/ (top > 0 /\ j.levels[top].type # type)
      THEN [j EXCEPT !.failed = TRUE]
      ELSE LET closed == AppendStr(j, IF type = "object" THEN " }" ELSE " ]")
           IN  [closed EXCEPT !.levels = SubSeq(@, 1, top - 1)]

\* json_append_str
AppendField(j, name, val) ==
  IF j.levels = << >> THEN [j EXCEPT !.failed = TRUE]
  ELSE AppendStr(Named(Separated(j), name), val)
=============================================================================
