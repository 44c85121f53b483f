\* A range of one or two numbers, against "copying [from..to]".
SPECIFICATION Spec
CONSTANTS
  BlkSize = 2
  Postfixes <- MCFourPostfixes
  Aliases = {al}
  WideAliases = {}
  LongAliases = {}
  BadAliases = {}
  EmptyAlias = empty
  Slots = {s1}
  IllegalPrefixes = {illegal}
  LowPrefixes = {low}
  TooLong = tooLong
  BadPostfixes <- MCBadPostfixes
  RangeKeys <- MCRangeKeys
  BadLengths = {}
\* A failed assertion stops the server.
CHECK_DEADLOCK FALSE
INVARIANT RangeComplete
