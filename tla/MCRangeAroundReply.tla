------------------------- MODULE MCRangeAroundReply -------------------------
(* Values and bounds for TLC: a block is a little wider than the widest piece. *)
EXTENDS MCRangeAround, RangeAroundReply, RangeAroundQuiet

MCNumberText(n) == ToString(n)
MCAliasText(n) == ToString(<<"alias", n>>)

\* A number has up to 16 digits.
MCWidth(s) ==
  CASE s = "\"" -> 1
    [] s \in {", ", "{ ", "[ ", " }", " ]"} -> 2
    [] s = "\": " -> 3
    [] s = "data" -> 4
    [] s = "alias" -> 5
    [] s = "number" -> 6
    [] OTHER -> 16

\* Updates happen where the directory is small: two slots with two postfixes;
\* a call asks for one of these, and one number on each side.
Small ==
  /\ ptr[2] = NULL /\ allocated \subseteq 0..2
  /\ \A t \in allocated : heap[t] \subseteq MCPostfixes
  /\ \A r \in Readers : call[r].pc # "idle" =>
       call[r].nbr \in (0..1) \X MCPostfixes /\ call[r].asked = <<1, 1>>

\* Larger calls are made in the directories of Init.
Tidy ==
  /\ \A slot \in Slots : ptr[slot] \in {NULL, slot}
  /\ \A t \in TableIds \ allocated : heap[t] = {}
  /\ UNCHANGED <<index, deletes>>

\* One of the updaters deletes last entries; the others come in between.
OneDeletes == \A u \in Updaters \ {CHOOSE v \in Updaters : TRUE} : deletes'[u] = NoDelete

MCFairSpec ==
  /\ Init /\ quiet = {}
  /\ [][Next /\ Watch /\ (Tidy \/ (Small /\ Small' /\ OneDeletes))]_quietVars
  /\ \A r \in Readers : SF_vars(fault = "none" /\ Work(r))
  /\ \A u \in Updaters : WF_vars(fault = "none" /\ (ClearPointer(u) \/ Wipe(u)))
=============================================================================
