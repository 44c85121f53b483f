------------------------- MODULE CheckpointerProofs -------------------------
(***************************************************************************)
(* The properties of the checkpoints for any times of the configuration:   *)
(* a whole one is kept, old ones are deleted.                              *)
(***************************************************************************)
EXTENDS Checkpointer, TLAPS

Round == Interval + MaxSave

\* The thread slept whole naps since the last checkpoint, and the one under way
\* began before the next checkpoint was due.
Napping == \E k \in Nat : last_check_point = k * Nap + nap /\ k * Nap <= Delay

Schedule ==
  /\ pc = "sleep" => Napping
  /\ pc = "save"  => last_check_point <= Interval + saving

(***************************************************************************)
(* How old the youngest whole checkpoint is at most: a round for every     *)
(* save that failed since, and the time since the last of them.  A server  *)
(* that is down lets files get older, but removes none.                    *)
(***************************************************************************)
BackupYoung ==
  missed < Never /\ Tolerated(missed) =>
    \E f \in files : /\ f.whole
                     /\ server = "up" => f.age <= missed * Round + last_check_point

\* How old any checkpoint is since old ones were removed.
Cleaned ==
  server = "up" /\ cleaned =>
    \A f \in files : f.age <= KeepTime + (IF pc = "save" THEN saving
                                          ELSE MaxSave + last_check_point)

IInv == TypeOK /\ Schedule /\ BackupYoung /\ Cleaned

-----------------------------------------------------------------------------
\* The time between checkpoints: a nap that begins before one is due ends
\* within it.
LEMMA IntervalBounds ==
  /\ Interval \in Nat /\ MaxSave \in Nat /\ KeepTime \in Nat /\ Delay \in Nat
  /\ Nap \in Nat /\ Nap > 0
  /\ \A k \in Nat : k * Nap <= Delay => k * Nap + Nap <= Interval
<1>1. MaxSave \in Nat /\ KeepTime \in Nat /\ Delay \in Nat /\ Nap \in Nat /\ Nap > 0
  BY TimesAssumption
<1> DEFINE q == Delay \div Nap
<1>2. q \in Nat /\ Delay < q * Nap + Nap
  BY <1>1
<1> HIDE DEF q
<1>3. Interval = q * Nap + Nap /\ q * Nap \in Nat
  <2>1. Interval = (q + 1) * Nap
    BY DEF Interval, q
  <2>2. (q + 1) * Nap = q * Nap + Nap
    BY <1>1, <1>2
  <2>3. \A m, n \in Nat : m * n \in Nat
    OBVIOUS
  <2>. QED
    BY <1>1, <1>2, <2>1, <2>2, <2>3
<1>4. ASSUME NEW k \in Nat, k * Nap <= Delay PROVE k * Nap + Nap <= Interval
  <2>1. k * Nap < q * Nap + Nap
    BY <1>1, <1>2, <1>3, <1>4
  <2>2. k <= q
    <3>1. SUFFICES ASSUME k > q PROVE FALSE
      BY <1>2
    <3>2. PICK d \in Nat : k = q + 1 + d
      <4>1. k - q - 1 \in Nat /\ k = q + 1 + (k - q - 1)
        BY <1>2, <3>1
      <4>. QED
        BY <4>1
    <3>3. k * Nap = q * Nap + Nap + d * Nap
      BY <1>1, <1>2, <3>2
    <3>4. d * Nap >= 0
      BY <1>1
    <3>. QED
      BY <1>1, <1>2, <1>3, <2>1, <3>3, <3>4
  <2>3. PICK d \in Nat : q = k + d
    <3>1. q - k \in Nat /\ q = k + (q - k)
      BY <1>2, <2>2
    <3>. QED
      BY <3>1
  <2>4. q * Nap = k * Nap + d * Nap
    BY <1>1, <2>3
  <2>5. d * Nap \in Nat /\ k * Nap \in Nat
    BY <1>1
  <2>. QED
    BY <1>1, <1>3, <2>4, <2>5
<1>5. Interval \in Nat
  BY <1>1, <1>3
<1>. QED
  BY <1>1, <1>4, <1>5

LEMMA RoundTimes ==
  /\ Round \in Nat /\ Round = Interval + MaxSave
  /\ \A m \in Nat : /\ m * Round \in Nat
                    /\ (m + 1) * Round = m * Round + Round
  /\ 0 * Round = 0
  /\ \A m \in Nat : Tolerated(m) <=> m * Round + Interval <= KeepTime
  /\ Never \in Nat /\ MaxAge = KeepTime + Round + 1
<1>1. Round \in Nat /\ Round = Interval + MaxSave
  BY IntervalBounds DEF Round
<1>2. ASSUME NEW r \in Nat, NEW m \in Nat
      PROVE  m * r \in Nat /\ (m + 1) * r = m * r + r /\ 0 * r = 0
  OBVIOUS
<1>3. \A m \in Nat : Tolerated(m) <=> m * Round + Interval <= KeepTime
  BY DEF Tolerated, Round
<1>4. Never \in Nat
  <2>1. CASE Round > 0
    <3>1. KeepTime \div Round \in Nat
      BY <1>1, <2>1, IntervalBounds
    <3>. QED
      BY <3>1 DEF Never, Round
  <2>2. Round > 0
    <3>1. 0 * Nap <= Delay /\ 0 * Nap + Nap > 0
      BY IntervalBounds
    <3>2. 0 * Nap + Nap <= Interval
      BY <3>1, IntervalBounds
    <3>. QED
      BY <1>1, <3>1, <3>2, IntervalBounds
  <2>. QED
    BY <2>1, <2>2
<1>5. MaxAge = KeepTime + Round + 1
  BY <1>1, IntervalBounds DEF MaxAge
<1>. QED
  BY <1>1, <1>2, <1>3, <1>4, <1>5

LEMMA FirstTimes ==
  /\ 0 \in 0..Nap /\ 0 \in 0..MaxSave /\ 0 \in 0..(Interval + MaxSave)
  /\ 0 \in 0..MaxAge /\ 0 \in 0..Never /\ Never \in 0..Never
<1>1. \A n \in Nat : 0 \in 0..n /\ n \in 0..n
  OBVIOUS
<1>2. Interval + MaxSave \in Nat
  BY IntervalBounds
<1>3. MaxAge \in Nat
  BY RoundTimes, IntervalBounds
<1>. QED
  BY <1>1, <1>2, <1>3, RoundTimes, IntervalBounds

-----------------------------------------------------------------------------
\* As long as the thread sleeps the last checkpoint is no older than Interval.
LEMMA AsleepBound ==
  ASSUME pc = "sleep", nap \in 0..Nap, Schedule
  PROVE  last_check_point <= Interval
<1>1. PICK k \in Nat : last_check_point = k * Nap + nap /\ k * Nap <= Delay
  BY DEF Schedule, Napping
<1>2. k * Nap + Nap <= Interval /\ k * Nap \in Nat
  BY <1>1, IntervalBounds
<1>. QED
  BY <1>1, <1>2, IntervalBounds

\* A thread that goes to sleep after a save, or with a new run of the server.
LEMMA AsleepSchedule == Asleep => Schedule' /\ last_check_point' = 0
<1>1. ASSUME Asleep PROVE Schedule' /\ last_check_point' = 0
  <2>1. 0 = 0 * Nap + 0 /\ 0 * Nap <= Delay /\ 0 \in Nat
    BY IntervalBounds
  <2>. QED
    BY <1>1, <2>1 DEF Asleep, Schedule, Napping
<1>. QED
  BY <1>1

LEMMA InitInvariant == Init => IInv
<1> SUFFICES ASSUME Init PROVE IInv
  OBVIOUS
<1>1. TypeOK
  BY FirstTimes DEF Init, TypeOK
<1>2. Schedule
  <2>1. 0 = 0 * Nap + 0 /\ 0 * Nap <= Delay /\ 0 \in Nat
    BY IntervalBounds
  <2>. QED
    BY <2>1 DEF Init, Schedule, Napping
<1>3. BackupYoung
  BY RoundTimes DEF Init, BackupYoung
<1>. QED
  BY <1>1, <1>2, <1>3 DEF Init, Cleaned, IInv

\* Removing old files, all or some of them, when the next checkpoint is due.
LEMMA RemoveKeeps ==
  ASSUME IInv, Awake, Due, files' \subseteq files, files \ Old \subseteq files',
         pc' = "save", saving' = 0,
         UNCHANGED <<server, nap, last_check_point, missed>>,
         cleaned' \in BOOLEAN, cleaned' => files' \subseteq files \ Old
  PROVE  IInv'
<1>1. last_check_point <= Interval /\ last_check_point \in Nat
      /\ missed \in Nat /\ missed \in 0..Never
  BY AsleepBound DEF IInv, TypeOK, Awake
<1>2. TypeOK'
  BY IntervalBounds DEF IInv, TypeOK
<1>3. Schedule'
  BY <1>1, IntervalBounds DEF Schedule
<1>4. BackupYoung'
  <2>1. SUFFICES ASSUME missed < Never, Tolerated(missed)
                 PROVE  \E f \in files' :
                          f.whole /\ f.age <= missed * Round + last_check_point
    BY DEF BackupYoung
  <2>2. PICK f \in files : f.whole /\ f.age <= missed * Round + last_check_point
    BY <2>1 DEF IInv, BackupYoung, Awake
  <2>3. missed * Round + Interval <= KeepTime /\ missed * Round \in Nat
    BY <1>1, <2>1, RoundTimes
  <2>4. f.age \in Nat
    BY <2>2 DEF IInv, TypeOK
  <2> HIDE DEF Round
  <2> DEFINE grace == missed * Round
  <2>5. f.age <= grace + last_check_point /\ grace + Interval <= KeepTime /\ grace \in Nat
    BY <2>2, <2>3
  <2> HIDE DEF grace
  <2>6. f.age <= KeepTime
    BY <1>1, <2>4, <2>5, IntervalBounds
  <2>7. f \notin Old
    BY <2>4, <2>6, IntervalBounds DEF Old
  <2>. QED
    BY <2>2, <2>7
<1>5. Cleaned'
  <2>1. ASSUME cleaned', NEW f \in files' PROVE f.age <= KeepTime + 0
    <3>1. f \in files /\ f \notin Old
      BY <2>1
    <3>2. f.age \in Nat
      BY <3>1 DEF IInv, TypeOK
    <3>. QED
      BY <3>1, <3>2, IntervalBounds DEF Old
  <2>. QED
    BY <2>1 DEF Cleaned
<1>. QED
  BY <1>2, <1>3, <1>4, <1>5 DEF IInv

\* A nap ends before the next checkpoint is due.
LEMMA SleepOnKeeps == IInv /\ SleepOn => IInv'
<1> SUFFICES ASSUME IInv, SleepOn PROVE IInv'
  OBVIOUS
<1>1. PICK k \in Nat : last_check_point = k * Nap + nap /\ k * Nap <= Delay
  BY DEF IInv, Schedule, Napping, SleepOn, Awake
<1>2. nap = Nap /\ ~Due /\ last_check_point \in Nat
  BY DEF SleepOn, Awake, IInv, TypeOK
<1>3. (k + 1) * Nap = k * Nap + Nap
  BY IntervalBounds
<1>4. last_check_point = (k + 1) * Nap + 0 /\ (k + 1) * Nap <= Delay /\ k + 1 \in Nat
  BY <1>1, <1>2, <1>3, IntervalBounds DEF Due
<1>5. Schedule'
  BY <1>4 DEF Schedule, Napping, SleepOn, Awake
<1>6. TypeOK'
  BY FirstTimes DEF IInv, TypeOK, SleepOn, history
<1>7. BackupYoung' /\ Cleaned'
  BY DEF IInv, BackupYoung, Cleaned, SleepOn, history
<1>. QED
  BY <1>5, <1>6, <1>7 DEF IInv

\* A checkpoint that is saved is whole and new.
LEMMA SaveKeeps == IInv /\ Save => IInv'
<1> SUFFICES ASSUME IInv, Save PROVE IInv'
  OBVIOUS
<1>1. Schedule' /\ last_check_point' = 0
  BY AsleepSchedule DEF Save
<1> DEFINE new == File(TRUE, 0)
<1>2. new.whole = TRUE /\ new.age = 0 /\ new \in [whole : BOOLEAN, age : 0..MaxAge]
  BY RoundTimes, IntervalBounds DEF File
<1> HIDE DEF new
<1>3. files' = files \cup {new} /\ missed' = 0 /\ pc' = "sleep" /\ nap' = 0
      /\ saving' = 0 /\ server' = server /\ cleaned' = cleaned /\ pc = "save"
      /\ server = "up"
  BY DEF Save, Asleep, new
<1>4. TypeOK'
  <2>1. files' \subseteq [whole : BOOLEAN, age : 0..MaxAge]
    BY <1>2, <1>3 DEF IInv, TypeOK
  <2>. QED
    BY <1>1, <1>3, <2>1, FirstTimes DEF IInv, TypeOK
<1>5. BackupYoung'
  <2>1. new \in files' /\ new.whole /\ new.age <= 0 * Round + 0
    BY <1>2, <1>3, RoundTimes
  <2>. QED
    BY <1>1, <1>3, <2>1 DEF BackupYoung
<1>6. Cleaned'
  <2>1. ASSUME cleaned, NEW f \in files' PROVE f.age <= KeepTime + (MaxSave + 0)
    <3>1. CASE f = new
      BY <1>2, <3>1, IntervalBounds
    <3>2. CASE f \in files
      <4>1. f.age <= KeepTime + saving /\ saving \in 0..MaxSave /\ f.age \in Nat
        BY <1>3, <2>1, <3>2 DEF IInv, TypeOK, Cleaned
      <4>. QED
        BY <4>1, IntervalBounds
    <3>. QED
      BY <1>3, <2>1, <3>1, <3>2
  <2>. QED
    BY <1>1, <1>3, <2>1 DEF Cleaned
<1>. QED
  BY <1>1, <1>4, <1>5, <1>6 DEF IInv

\* A save that fails counts as a round.
LEMMA SaveFailsKeeps == IInv /\ SaveFails => IInv'
<1> SUFFICES ASSUME IInv, SaveFails PROVE IInv'
  OBVIOUS
<1>1. Schedule' /\ last_check_point' = 0
  BY AsleepSchedule DEF SaveFails
<1> DEFINE new == File(FALSE, 0)
<1>2. new.age = 0 /\ new \in [whole : BOOLEAN, age : 0..MaxAge]
  BY RoundTimes, IntervalBounds DEF File
<1> HIDE DEF new
<1>3. /\ files' \in {files, files \cup {new}} /\ pc' = "sleep" /\ nap' = 0
      /\ missed' = IF missed < Never THEN missed + 1 ELSE missed
      /\ saving' = 0 /\ server' = server /\ cleaned' = cleaned /\ pc = "save"
      /\ server = "up"
  BY DEF SaveFails, Asleep, new
<1>4. missed \in 0..Never /\ saving \in 0..MaxSave /\ last_check_point \in Nat
  BY DEF IInv, TypeOK
<1>5. TypeOK'
  BY <1>1, <1>2, <1>3, <1>4, RoundTimes, IntervalBounds DEF IInv, TypeOK
<1>6. BackupYoung'
  <2>1. SUFFICES ASSUME missed' < Never, Tolerated(missed')
                 PROVE  \E f \in files' : f.whole /\ f.age <= missed' * Round + 0
    BY <1>1 DEF BackupYoung
  <2>2. missed \in Nat /\ missed < Never /\ missed' = missed + 1
    BY <1>3, <1>4, <2>1, RoundTimes
  <2> DEFINE grace == missed * Round
  <2>3. grace \in Nat /\ missed' * Round = grace + Round
    BY <2>2, RoundTimes
  <2>4. grace + Round + Interval <= KeepTime
    BY <2>1, <2>2, <2>3, RoundTimes
  <2>5. Tolerated(missed)
    <3>1. grace + Interval <= KeepTime
      <4> HIDE DEF grace
      <4>. QED
        BY <2>3, <2>4, RoundTimes, IntervalBounds
    <3>. QED
      BY <2>2, <3>1, RoundTimes
  <2>6. PICK f \in files : f.whole /\ f.age <= grace + last_check_point
    BY <1>3, <2>2, <2>5 DEF IInv, BackupYoung
  <2>7. last_check_point <= Round
    BY <1>3, <1>4, IntervalBounds, RoundTimes DEF IInv, Schedule
  <2>8. f.age \in Nat
    BY <2>6 DEF IInv, TypeOK
  <2>9. f.age <= grace + last_check_point /\ Round \in Nat
    BY <2>6, RoundTimes
  <2> HIDE DEF grace, Round
  <2>10. f.age <= grace + Round
    BY <1>4, <2>3, <2>7, <2>8, <2>9
  <2>11. missed' * Round + 0 = grace + Round
    BY <2>3, <2>9
  <2>12. f \in files' /\ f.whole
    BY <1>3, <2>6
  <2>. QED
    BY <2>10, <2>11, <2>12
<1>7. Cleaned'
  <2>1. ASSUME cleaned, NEW f \in files' PROVE f.age <= KeepTime + (MaxSave + 0)
    <3>1. CASE f = new
      BY <1>2, <3>1, IntervalBounds
    <3>2. CASE f \in files
      <4>1. f.age <= KeepTime + saving /\ saving \in 0..MaxSave /\ f.age \in Nat
        BY <1>3, <2>1, <3>2 DEF IInv, TypeOK, Cleaned
      <4>. QED
        BY <4>1, IntervalBounds
    <3>. QED
      BY <1>3, <2>1, <3>1, <3>2
  <2>. QED
    BY <1>1, <1>3, <2>1 DEF Cleaned
<1>. QED
  BY <1>1, <1>5, <1>6, <1>7 DEF IInv

\* What a server that is down keeps.
LEMMA CrashKeeps == IInv /\ Crash => IInv'
<1> SUFFICES ASSUME IInv, Crash PROVE IInv'
  OBVIOUS
<1>1. Schedule' /\ last_check_point' = 0
  BY AsleepSchedule DEF Crash
<1> DEFINE new == File(FALSE, saving)
<1>2. new \in [whole : BOOLEAN, age : 0..MaxAge]
  <2>1. saving \in 0..MaxSave
    BY DEF IInv, TypeOK
  <2>2. saving \in 0..MaxAge
    BY <2>1, RoundTimes, IntervalBounds
  <2>. QED
    BY <2>2 DEF File
<1> HIDE DEF new
<1>3. /\ server' = "down" /\ pc' = "sleep" /\ nap' = 0 /\ saving' = 0
      /\ missed' = missed /\ cleaned' = cleaned
      /\ files' = files \/ files' = files \cup {new}
  BY DEF Crash, Asleep, history, new
<1>4. TypeOK'
  <2>1. files' \subseteq [whole : BOOLEAN, age : 0..MaxAge]
    BY <1>2, <1>3 DEF IInv, TypeOK
  <2>. QED
    BY <1>1, <1>3, <2>1, FirstTimes DEF IInv, TypeOK
<1>5. BackupYoung' /\ Cleaned'
  BY <1>3 DEF IInv, BackupYoung, Cleaned
<1>. QED
  BY <1>1, <1>4, <1>5 DEF IInv

LEMMA StartKeeps == IInv /\ Start => IInv'
<1> SUFFICES ASSUME IInv, Start PROVE IInv'
  OBVIOUS
<1>1. TypeOK'
  BY FirstTimes DEF IInv, TypeOK, Start, history
<1>2. Schedule'
  BY DEF IInv, Schedule, Napping, Start
<1>3. BackupYoung' /\ Cleaned'
  BY RoundTimes DEF BackupYoung, Cleaned, Start
<1>. QED
  BY <1>1, <1>2, <1>3 DEF IInv

\* A tick: files and times get older together.
LEMMA TickKeeps == IInv /\ Tick => IInv'
<1> SUFFICES ASSUME IInv, Tick PROVE IInv'
  OBVIOUS
<1> DEFINE aged(f) == IF f.age < MaxAge THEN Older(f) ELSE f
<1>0. MaxAge \in Nat /\ Nap \in Nat
  BY RoundTimes, IntervalBounds
<1>1. ASSUME NEW f \in files
      PROVE  /\ aged(f) \in [whole : BOOLEAN, age : 0..MaxAge]
             /\ aged(f).whole = f.whole /\ aged(f).age <= f.age + 1
             /\ f.age \in Nat /\ aged(f).age \in Nat
  <2>1. f \in [whole : BOOLEAN, age : 0..MaxAge]
    BY DEF IInv, TypeOK
  <2>. QED
    BY <1>0, <2>1 DEF Older
<1>2. files' = {aged(f) : f \in files}
  BY DEF Tick
<1> HIDE DEF aged
<1>3. files' \subseteq [whole : BOOLEAN, age : 0..MaxAge]
  BY <1>1, <1>2
<1>4. /\ server' = server /\ pc' = pc /\ missed' = missed /\ cleaned' = cleaned
      /\ last_check_point \in Nat /\ nap \in 0..Nap /\ saving \in 0..MaxSave
      /\ missed \in 0..Never
  BY DEF Tick, history, IInv, TypeOK
<1>5. CASE server = "down"
  <2>1. nap' = nap /\ last_check_point' = last_check_point /\ saving' = saving
    BY <1>5 DEF Tick
  <2>2. TypeOK'
    BY <1>3, <1>4, <2>1 DEF IInv, TypeOK
  <2>3. Schedule'
    BY <1>4, <2>1 DEF IInv, Schedule, Napping
  <2>4. BackupYoung'
    <3>1. SUFFICES ASSUME missed < Never, Tolerated(missed)
                   PROVE  \E f \in files' : f.whole
      BY <1>4, <1>5 DEF BackupYoung
    <3>2. PICK f \in files : f.whole
      BY <3>1 DEF IInv, BackupYoung
    <3>. QED
      BY <1>1, <1>2, <3>2
  <2>5. Cleaned'
    BY <1>4, <1>5 DEF Cleaned
  <2>. QED
    BY <2>2, <2>3, <2>4, <2>5 DEF IInv
<1>6. CASE server # "down"
  <2>1. /\ server = "up" /\ last_check_point' = last_check_point + 1
        /\ \/ pc = "sleep" /\ nap < Nap /\ nap' = nap + 1 /\ saving' = saving
           \/ pc = "save" /\ saving < MaxSave /\ saving' = saving + 1 /\ nap' = nap
    BY <1>6 DEF Tick, IInv, TypeOK
  <2>2. Schedule'
    <3>1. CASE pc = "sleep"
      <4>1. PICK k \in Nat : last_check_point = k * Nap + nap /\ k * Nap <= Delay
        BY <3>1 DEF IInv, Schedule, Napping
      <4>2. k * Nap \in Nat
        BY <1>0
      <4>3. last_check_point' = k * Nap + nap'
        BY <1>4, <2>1, <3>1, <4>1, <4>2
      <4>. QED
        BY <1>4, <3>1, <4>1, <4>3 DEF Schedule, Napping
    <3>2. CASE pc = "save"
      BY <1>4, <2>1, <3>2, IntervalBounds DEF IInv, Schedule
    <3>. QED
      BY <2>1, <3>1, <3>2
  <2>3. nap' \in 0..Nap /\ saving' \in 0..MaxSave
    BY <1>4, <2>1, IntervalBounds
  <2>4. last_check_point' \in 0..(Interval + MaxSave)
    <3>1. pc' = "sleep" => last_check_point' <= Interval
      <4>1. ASSUME pc' = "sleep"
            PROVE  \E k \in Nat : last_check_point' = k * Nap + nap' /\ k * Nap <= Delay
        BY <2>2, <4>1 DEF Schedule, Napping
      <4>2. SUFFICES ASSUME pc' = "sleep" PROVE last_check_point' <= Interval
        OBVIOUS
      <4>3. PICK k \in Nat : last_check_point' = k * Nap + nap' /\ k * Nap <= Delay
        BY <4>1, <4>2
      <4> DEFINE slept == k * Nap
      <4>4. /\ slept + Nap <= Interval /\ slept \in Nat /\ Nap \in Nat /\ Interval \in Nat
            /\ last_check_point' = slept + nap' /\ nap' \in 0..Nap
        BY <2>3, <4>3, IntervalBounds
      <4> HIDE DEF slept
      <4> DEFINE n == nap'
      <4> DEFINE bound == Interval
      <4>5. slept + Nap <= bound /\ slept \in Nat /\ Nap \in Nat /\ bound \in Nat /\ n \in 0..Nap
        BY <4>4
      <4> HIDE DEF n, bound
      <4>6. slept + n <= bound
        BY <4>5
      <4>. QED
        BY <4>4, <4>6 DEF n, bound
    <3>2. pc' = "save" => last_check_point' <= Interval + saving'
      BY <2>2 DEF Schedule
    <3>3. last_check_point' \in Nat /\ saving' \in 0..MaxSave /\ pc' \in {"sleep", "save"}
      BY <1>4, <2>1, <2>3
    <3>4. last_check_point' <= Interval + MaxSave
      <4>1. Interval \in Nat /\ MaxSave \in Nat
        BY IntervalBounds
      <4>2. CASE pc' = "sleep"
        BY <3>1, <3>3, <4>1, <4>2
      <4>3. CASE pc' = "save"
        <5> DEFINE since == last_check_point'
        <5> DEFINE s == saving'
        <5>1. since <= Interval + s /\ since \in Nat /\ s \in 0..MaxSave
          BY <3>2, <3>3, <4>3
        <5> HIDE DEF since, s
        <5>2. since <= Interval + MaxSave
          BY <4>1, <5>1
        <5>. QED
          BY <5>2 DEF since
      <4>. QED
        BY <3>3, <4>2, <4>3
    <3>. QED
      BY <3>3, <3>4, IntervalBounds
  <2>5. TypeOK'
    BY <1>3, <1>4, <2>3, <2>4 DEF IInv, TypeOK
  <2>6. BackupYoung'
    <3>1. SUFFICES ASSUME missed < Never, Tolerated(missed)
                   PROVE  \E f \in files' :
                            f.whole /\ f.age <= missed * Round + (last_check_point + 1)
      BY <1>4, <2>1 DEF BackupYoung
    <3>2. PICK f \in files : f.whole /\ f.age <= missed * Round + last_check_point
      BY <2>1, <3>1 DEF IInv, BackupYoung
    <3> DEFINE grace == missed * Round
    <3>3. f.age <= grace + last_check_point /\ grace \in Nat
      BY <1>4, <3>2, RoundTimes
    <3>4. aged(f) \in files' /\ aged(f).whole /\ aged(f).age <= f.age + 1
          /\ f.age \in Nat /\ aged(f).age \in Nat
      BY <1>1, <1>2, <3>2
    <3> HIDE DEF grace
    <3>5. aged(f).age <= grace + (last_check_point + 1)
      BY <1>4, <3>3, <3>4
    <3>. QED
      BY <3>4, <3>5 DEF grace
  <2>7. Cleaned'
    <3>1. SUFFICES ASSUME cleaned, NEW g \in files'
                   PROVE  g.age <= KeepTime + (IF pc = "save" THEN saving'
                                               ELSE MaxSave + last_check_point')
      BY <1>4, <2>1 DEF Cleaned
    <3>2. PICK f \in files : g = aged(f)
      BY <1>2
    <3>3. f.age <= KeepTime + (IF pc = "save" THEN saving ELSE MaxSave + last_check_point)
      BY <2>1, <3>1 DEF IInv, Cleaned
    <3>. QED
      BY <1>1, <1>4, <2>1, <3>2, <3>3, IntervalBounds
  <2>. QED
    BY <2>2, <2>5, <2>6, <2>7 DEF IInv
<1>. QED
  BY <1>5, <1>6

LEMMA NextInvariant == IInv /\ Next => IInv'
<1> SUFFICES ASSUME IInv, Next PROVE IInv'
  OBVIOUS
<1>1. CASE RemoveOld
  BY <1>1, RemoveKeeps DEF RemoveOld
<1>2. CASE RemoveFails
  <2>1. files' \subseteq files /\ files \ Old \subseteq files'
    BY <1>2 DEF RemoveFails, Old
  <2>. QED
    BY <1>2, <2>1, RemoveKeeps DEF RemoveFails
<1>. QED
  BY <1>1, <1>2, SleepOnKeeps, SaveKeeps, SaveFailsKeeps, CrashKeeps, StartKeeps,
     TickKeeps DEF Next, Thread

THEOREM Invariant == Spec => []IInv
<1>1. IInv /\ UNCHANGED vars => IInv'
  BY DEF IInv, TypeOK, Schedule, Napping, BackupYoung, Cleaned, vars
<1>. QED
  BY <1>1, InitInvariant, NextInvariant, PTL DEF Spec

\* check_point_thread_body and save_check_point_file: a run that saved a
\* checkpoint keeps a whole one, through every failure that the time for which
\* files are kept allows.
THEOREM BackupIsKept == Spec => []BackupKept
<1>1. IInv => BackupKept
  BY DEF IInv, BackupYoung, BackupKept
<1>. QED
  BY <1>1, Invariant, PTL

\* remove_old_check_point_files: what is old is gone after one more interval
\* and save.
THEOREM OldCheckpointsGo == Spec => []OldCheckpointsDeleted
<1>1. ASSUME IInv PROVE OldCheckpointsDeleted
  <2>1. SUFFICES ASSUME server = "up", cleaned, NEW f \in files
                 PROVE  f.age <= KeepTime + Interval + MaxSave
    BY DEF OldCheckpointsDeleted
  <2>2. /\ f.age <= KeepTime + (IF pc = "save" THEN saving ELSE MaxSave + last_check_point)
        /\ f.age \in Nat /\ saving \in 0..MaxSave /\ last_check_point \in Nat
        /\ nap \in 0..Nap /\ pc \in {"sleep", "save"}
    BY <1>1, <2>1 DEF IInv, Cleaned, TypeOK
  <2>3. CASE pc = "save"
    BY <2>2, <2>3, IntervalBounds
  <2>4. CASE pc = "sleep"
    <3>1. last_check_point <= Interval
      BY <1>1, <2>2, <2>4, AsleepBound DEF IInv
    <3>. QED
      BY <2>2, <2>4, <3>1, IntervalBounds
  <2>. QED
    BY <2>2, <2>3, <2>4
<1>. QED
  BY <1>1, Invariant, PTL

=============================================================================
