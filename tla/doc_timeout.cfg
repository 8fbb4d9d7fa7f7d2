SPECIFICATION Spec
CONSTANTS
  NoQuery = NoQuery
  PlainOps = {}
  Queries = {}
  Sources = {}
  Faults = {"late"}
  InboxBound = 1
  LateBound = 1
INVARIANT TimeoutEndsLink
