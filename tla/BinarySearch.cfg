\* Every ascending table of up to seven entries.
SPECIFICATION Spec
CONSTANTS
  MaxLen = 7
  FieldSize = 3
  NonDigit = nondigit
  BlkSize = 2
  Postfixes <- MCPostfixes
  Aliases = {al}
  WideAliases = {}
  LongAliases = {}
  BadAliases = {}
  EmptyAlias = empty
  Searches <- MCSearches
\* The function returns.
CHECK_DEADLOCK FALSE
INVARIANTS ResultCorrect PackedOrderAgrees FieldsKeepStrings
