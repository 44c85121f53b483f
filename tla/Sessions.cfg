\* Two connections, two sessions in one bucket.
SPECIFICATION FairSpec
CONSTANTS
  Keys <- MCTwo
  Size = 1
  Hash <- MCOneBucket
  Conns = {c1, c2}
  Timeout = 1
  NoSession = none
\* A fault ends the server.
CHECK_DEADLOCK FALSE
INVARIANTS TableHoldsLive GateNeedsCookie
PROPERTIES TouchedSessionsKept IdleSessionsExpire
