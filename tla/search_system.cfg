SPECIFICATION SysSpec
CONSTANTS
  NoQuery = 0
  PlainOps = {}
  Queries = {1, 2}
  Sources = {}
  Faults = {"undecodable", "gone"}
  InboxBound = 2
  LateBound = 1
  UiBound = 2
  Elsewhere = {"connect"}
VIEW Seen
INVARIANTS
  NoLaterResults
  SettledTabShowsOwn
  ClosedTabStops
  ProgressBarTrue
