SPECIFICATION Spec
CONSTANTS
  NoQuery = NoQuery
  PlainOps = {"pause"}
  Queries = {q1, q2}
  Sources = {s1}
  Faults = {"undecodable", "late", "torn", "gone"}
  InboxBound = 1
  LateBound = 1
SYMMETRY Symmetry
INVARIANTS
  TypeOK
  TimerFollowsClient
  StatusTellsClient
  SearchFlagShown
  ResultsOfLastSearch
  StoppedForGood
  OneBehindPerTimeout
  ForeignOnlyAfterTimeout
  SourcesWhole
PROPERTIES
  NotCutShort
  Lifecycle
