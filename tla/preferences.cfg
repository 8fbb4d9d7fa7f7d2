SPECIFICATION Spec
CONSTANTS
  Fields = {"a", "b"}
  Layouts <- MCLayouts
  Modulus = 16
  Half = 4
  Limit = 2
  Samples = {1, 5}
  CommandBound = 1
  SignalBound = 2
INVARIANTS
  PanelAgrees
PROPERTY NoUnaskedChange
