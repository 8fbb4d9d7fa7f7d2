SPECIFICATION Spec
CONSTANTS
  Files = {f1, f2}
  Ids = {i1, i2}
  CommandBound = 1
  SignalBound = 2
SYMMETRY Symmetry
INVARIANTS
  CompletedHasFinished
  FinishedStaysShown
  OneRowPerFile
  LiveRowsCurrent
