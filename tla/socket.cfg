SPECIFICATION FairSpec
CONSTANTS
  MaxBody = 2
  MaxExchanges = 4
CHECK_DEADLOCK FALSE
PROPERTIES
  RepliesInLine
  ExchangeEnds
