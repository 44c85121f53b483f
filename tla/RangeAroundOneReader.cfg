\* One reader in three prefixes, among updates where these are few.
SPECIFICATION MCFairSpec
CONSTANTS
  LastSlot = 2
  Postfixes <- MCThreePostfixes
  TextLess <- MCTextLess
  BadPostfixes = {}
  Readers = {r1}
  MaxCount = 2
  Updaters = {u1, u2}
  NULL = null
  Block = 17
  MaxLevels = 16
  Width <- MCWidth
  NumberText <- MCNumberText
  AliasText <- MCAliasText
\* A fault ends the server.
CHECK_DEADLOCK FALSE
INVARIANTS WindowExact ReplyIsDocument ReplyWellFormed
PROPERTY RequestEnds
