SPECIFICATION Spec
CONSTANTS
  Secrets = {p1, p2}
  HexSecrets = {p2}
  Salts = {0, 1}
  MaxSamples = 2
  Connections = {1, 2}
  SignalBound = 1
INVARIANTS
  LoginDecided
  RememberedLogsIn
  OneConnection
PROPERTY UntouchedHistoryKept
