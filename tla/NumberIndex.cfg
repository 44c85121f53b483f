\* One prefix, four numbers, every class of input.
SPECIFICATION Spec
CONSTANTS
  BlkSize = 2
  Postfixes <- MCFourPostfixes
  Aliases = {al}
  WideAliases = {wide}
  LongAliases = {long}
  BadAliases = {nondigit}
  EmptyAlias = empty
  Slots = {s1}
  IllegalPrefixes = {illegal}
  LowPrefixes = {low}
  TooLong = tooLong
  Absent = absent
  BadPostfixes <- MCBadPostfixes
  RangeKeys <- MCRangeKeys
  BadLengths = {noLength}
\* A failed assertion stops the server.
CHECK_DEADLOCK FALSE
INVARIANTS TypeOK TablesAscending CapacityKept RangeExact RangeAssertsExact
PROPERTIES AcceptedUpdatesExact RefusedInsertBounded ImplementsDirectory
