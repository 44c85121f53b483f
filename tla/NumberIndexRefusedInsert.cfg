\* A refused insert, against "insert: enter a new alias for a given number".
SPECIFICATION Spec
CONSTANTS
  BlkSize = 2
  Postfixes <- MCFourPostfixes
  Aliases = {al}
  WideAliases = {}
  LongAliases = {long}
  BadAliases = {}
  EmptyAlias = empty
  Slots = {s1}
  IllegalPrefixes = {illegal}
  LowPrefixes = {low}
  TooLong = tooLong
  BadPostfixes <- MCBadPostfixes
  RangeKeys <- MCNoKeys
  BadLengths = {}
\* A failed assertion stops the server.
CHECK_DEADLOCK FALSE
PROPERTY InsertTouchesItsNumberOnly
