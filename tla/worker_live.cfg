SPECIFICATION FairSpec
CONSTANTS
  NoQuery = NoQuery
  PlainOps = {}
  Queries = {q1}
  Sources = {}
  Faults = {"late", "gone"}
  InboxBound = 1
  LateBound = 1
PROPERTIES
  LossNoticed
  CloseReturns
  SearchEnds
