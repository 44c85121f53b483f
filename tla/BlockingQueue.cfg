\* Three threads, up to three elements.
SPECIFICATION FairSpec
CONSTANTS
  Threads = {t1, t2, t3}
  Elements = {e1, e2, e3}
  Data = {d1, d2}
  NULL = null
\* Nothing happens to a freed queue, and all threads may wait.
CHECK_DEADLOCK FALSE
INVARIANTS LinksMatch EveryElementOwned NoLostWakeup
PROPERTIES WaitersServed ImplementsDeque
