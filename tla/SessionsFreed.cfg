\* A session that expires while a connection is about to use it.
SPECIFICATION Spec
CONSTANTS
  Keys <- MCThree
  Size = 2
  Hash <- MCTwoBuckets
  Conns = {c1, c2}
  Timeout = 1
  NoSession = none
\* A fault ends the server.
CHECK_DEADLOCK FALSE
INVARIANT NoFreedSessionUsed
