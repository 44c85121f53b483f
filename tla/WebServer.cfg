CONSTANTS
  NoBlock = NoBlock
  NoPostfix = NoPostfix
  Absent = Absent
  Blank = Blank
  LowPrefixes <- MCLowPrefixes
  BadLengths <- MCBadLengths
  Unreadable = {}
  empty = empty
  negative = negative
  Missing = Missing
  NotDigits = NotDigits
  TooLong = TooLong
  c1 = c1
  c2 = c2
  s = s
  Conns = {c1, c2}
  SessionOf <- MCSessionOf
  Clients <- MCClients
  MaxParams = 3
  Texts <- MCTexts
  Short <- MCShort
  Letters <- MCLetters
  Nbr <- MCNbr
  Cuts <- MCCuts
  Blocks <- MCBlocks
  Postfixes <- MCPostfixes
  Aliases <- MCAliases

SPECIFICATION FairSpec

INVARIANTS TypeOK ParamsFaithful OnlyKnownStops
PROPERTIES UpdatesAsAsked UploadsWhole RequestsAnswered

\* A failed assertion ends the server.
CHECK_DEADLOCK FALSE
