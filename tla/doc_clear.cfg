SPECIFICATION Spec
CONSTANTS
  Files = {f1}
  Ids = {i1}
  CommandBound = 1
  SignalBound = 2
INVARIANT ClearedIsGone
