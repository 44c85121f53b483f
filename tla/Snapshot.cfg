\* Two slots, each with a table or none; a delete and a range call at a time
\* have locks, next to updates and the dump.
SPECIFICATION MCFairSpec
CONSTANTS
  NSlots = 2
  Tables = {t1}
  NoTable = none
  Torn = torn
  MaxCalls = 2
\* Without a complete dump.bin the server does not start again.
CHECK_DEADLOCK FALSE
INVARIANTS FilesHoldTables
PROPERTIES RestoredWasHeld DumpsEnd
