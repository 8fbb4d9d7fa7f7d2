SPECIFICATION Spec
CONSTANTS
  Base <- MCBase
  HashLen <- MCHashLen
  Tags <- MCTags
  Nesting <- MCNesting
  Packets <- MCPackets
CHECK_DEADLOCK FALSE
INVARIANTS
  RoundTrip
  CutIsError
  HeaderMeasures
  LengthsSkip
