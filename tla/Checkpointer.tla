---------------------------- MODULE Checkpointer ----------------------------
(***************************************************************************)
(* Which checkpoints there are: check_point_thread_body of server.c sleeps *)
(* for clean_up_interval, removes old checkpoint files when a checkpoint   *)
(* is due, saves a new one, and sleeps again.  Saves fail, files cannot be *)
(* removed, the server breaks down and is started again.  What is in a     *)
(* file is in module Snapshot; here it is whole or not.                    *)
(*                                                                         *)
(* Time passes in ticks.  The thread wakes up when its sleep is over, and  *)
(* a save takes at most MaxSave.  Files with the same age which are both   *)
(* whole or both not are not told apart.                                   *)
(***************************************************************************)
EXTENDS Integers, FiniteSets

CONSTANTS
  Delay,     \* check_point_delay
  Nap,       \* clean_up_interval
  KeepTime,  \* check_point_keep_time
  MaxSave,
  MaxFiles   \* a bound: the server breaks down only with fewer files than that

ASSUME TimesAssumption ==
  /\ {Delay, KeepTime, MaxSave} \subseteq Nat
  /\ {Nap, MaxFiles} \subseteq Nat \ {0}

VARIABLES
  server,            \* "up" or "down"
  pc,                \* of the thread: "sleep" or "save"
  nap,               \* time since it went to sleep
  last_check_point,  \* time since it was set
  saving,            \* time since the save began
  files,
  missed,            \* saves that failed since one did not, or Never
  cleaned            \* whether this run removed all old files the last time

vars == <<server, pc, nap, last_check_point, saving, files, missed, cleaned>>
history == <<missed, cleaned>>

File(whole, age) == [whole |-> whole, age |-> age]
Older(f) == [f EXCEPT !.age = @ + 1]

\* The time from the end of one save to the next wake-up that starts another.
Interval == ((Delay \div Nap) + 1) * Nap

\* More failures than these are not counted: no run that old leaves a file.
Never == (KeepTime \div (Interval + MaxSave)) + 1

\* The thread starts with the server.
Asleep ==
  /\ pc' = "sleep" /\ nap' = 0 /\ last_check_point' = 0 /\ saving' = 0

Init ==
  /\ server = "up"
  /\ pc = "sleep" /\ nap = 0 /\ last_check_point = 0 /\ saving = 0
  /\ files = {}
  /\ missed = Never /\ cleaned = FALSE

-----------------------------------------------------------------------------
\* mutant: a file is kept for check_point_delay
OldByDelay == {f \in files : f.age > Delay}

\* ftw_call_back: the files that are too old, by their modification time.
Old == {f \in files : f.age > KeepTime}

Due == last_check_point > Delay

Awake == server = "up" /\ pc = "sleep" /\ nap = Nap

\* mutant: the walk through the directory ends at the first file it removes
RemoveOldFirst ==
  /\ Awake /\ Due
  /\ files' \in {files \ {f} : f \in Old} \cup (IF Old = {} THEN {files} ELSE {})
  /\ pc' = "save" /\ saving' = 0 /\ cleaned' = TRUE
  /\ UNCHANGED <<server, nap, last_check_point, missed>>

\* remove_old_check_point_files, before the save.
RemoveOld ==
  /\ Awake /\ Due
  /\ files' = files \ Old
  /\ pc' = "save" /\ saving' = 0 /\ cleaned' = TRUE
  /\ UNCHANGED <<server, nap, last_check_point, missed>>

\* Some file could not be removed, and ftw gave up.
RemoveFails ==
  /\ Awake /\ Due /\ Old # {}
  /\ \E left \in (SUBSET Old) \ {{}} : files' = (files \ Old) \cup left
  /\ pc' = "save" /\ saving' = 0 /\ cleaned' = FALSE
  /\ UNCHANGED <<server, nap, last_check_point, missed>>

\* mutant: last_check_point is set on every wake-up
SleepOnForgets ==
  /\ Awake /\ ~Due
  /\ nap' = 0 /\ last_check_point' = 0
  /\ UNCHANGED <<server, pc, saving, files, history>>

SleepOn ==
  /\ Awake /\ ~Due
  /\ nap' = 0
  /\ UNCHANGED <<server, pc, last_check_point, saving, files, history>>

\* save_check_point_file.
Save ==
  /\ server = "up" /\ pc = "save"
  /\ files' = files \cup {File(TRUE, 0)}
  /\ missed' = 0
  /\ Asleep
  /\ UNCHANGED <<server, cleaned>>

\* It fails: no file or not the whole one.  The time counts as one of a
\* checkpoint all the same.
SaveFails ==
  /\ server = "up" /\ pc = "save"
  /\ files' \in {files, files \cup {File(FALSE, 0)}}
  /\ missed' = IF missed < Never THEN missed + 1 ELSE missed
  /\ Asleep
  /\ UNCHANGED <<server, cleaned>>

\* The server breaks down; a file it was writing stays as far as it got.
Crash ==
  /\ server = "up" /\ Cardinality(files) < MaxFiles
  /\ server' = "down"
  /\ files' = IF pc = "save" THEN files \cup {File(FALSE, saving)} ELSE files
  /\ Asleep
  /\ UNCHANGED history

\* It is started again, from a dump.bin that is none of these files.
Start ==
  /\ server = "down"
  /\ server' = "up"
  /\ missed' = Never /\ cleaned' = FALSE
  /\ UNCHANGED <<pc, nap, last_check_point, saving, files>>

\* Ages above every bound of interest are not told apart.
MaxAge == KeepTime + Interval + MaxSave + 1

Tick ==
  /\ files' = {IF f.age < MaxAge THEN Older(f) ELSE f : f \in files}
  /\ IF server = "down" THEN UNCHANGED <<nap, last_check_point, saving>>
     ELSE /\ last_check_point' = last_check_point + 1
          /\ IF pc = "sleep" THEN nap < Nap /\ nap' = nap + 1 /\ UNCHANGED saving
             ELSE saving < MaxSave /\ saving' = saving + 1 /\ UNCHANGED nap
  /\ UNCHANGED <<server, pc, history>>

Thread == RemoveOld \/ RemoveFails \/ SleepOn \/ Save \/ SaveFails

Next == Thread \/ Crash \/ Start \/ Tick

Spec == Init /\ [][Next]_vars

\* Time passes, and the thread runs when it can.
FairSpec == Spec /\ WF_vars(Tick) /\ WF_vars(Thread)

-----------------------------------------------------------------------------
\* Types only; last_check_point gets no older than the thread lets it.
TypeOK ==
  /\ server \in {"up", "down"} /\ pc \in {"sleep", "save"}
  /\ nap \in 0..Nap /\ saving \in 0..MaxSave
  /\ last_check_point \in 0..(Interval + MaxSave)
  /\ files \subseteq [whole : BOOLEAN, age : 0..MaxAge]
  /\ missed \in 0..Never /\ cleaned \in BOOLEAN

(***************************************************************************)
(* A run of the server that saved a checkpoint has a whole one on disk,    *)
(* though old files are removed before the new one is there, and though    *)
(* some saves fail: as many as the time for which files are kept allows.   *)
(* With the default times of server.c (60, 30 and 300 seconds) that is two *)
(* failed saves in a row, if a save takes no more than 15 seconds.         *)
(***************************************************************************)
Tolerated(failures) == failures * (Interval + MaxSave) + Interval <= KeepTime

BackupKept ==
  missed < Never /\ Tolerated(missed) => \E f \in files : f.whole

(***************************************************************************)
(* "Old checkpoints are deleted" (readme.md): a server that could remove   *)
(* what was old leaves no checkpoint longer than one more interval and     *)
(* save, whether whole or left over from a save or a run that broke off.   *)
(***************************************************************************)
OldCheckpointsDeleted ==
  server = "up" /\ cleaned
    => \A f \in files : f.age <= KeepTime + Interval + MaxSave

(***************************************************************************)
(* "Service performs checkpoints at regular interval" (readme.md): while   *)
(* it is up it begins one again and again.                                 *)
(***************************************************************************)
CheckpointsRegular == []<>(server = "down" \/ pc = "save")
=============================================================================
