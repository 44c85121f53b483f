\* Two readers among inserts and deletes, and requests that are refused.
SPECIFICATION Spec
CONSTANTS
  LastSlot = 1
  Postfixes <- MCOnePostfix
  TextLess <- MCTextLess
  BadPostfixes = {tooLong}
  Readers = {r1, r2}
  MaxCount = 1
  Updaters = {u1, u2}
  NULL = null
\* A fault ends the server.
CHECK_DEADLOCK FALSE
SYMMETRY MCAlike
VIEW MCView
CONSTRAINT MCUntorn
INVARIANTS TablesDisjoint MutualExclusion StuckOnlyInCircle
PROPERTY StartTableStable
