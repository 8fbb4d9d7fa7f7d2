SPECIFICATION Spec
CONSTANTS
  Files = {f1, f2}
  Ids = {1, 2}
  Sources = {s1}
  RunBound = 2
SYMMETRY Symmetry
INVARIANTS
  ListOfCurrentRow
  SourcesOfCurrentRow
PROPERTY SelectionKeepsDownloads
