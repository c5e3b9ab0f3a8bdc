SPECIFICATION Spec
CONSTANTS
  a = a
  b = b
  Client <- TwoClients
  NoOne = NoOne
  MaxSessions = 2
  MaxHolds = 1
INVARIANTS
  HeldIsBacked
SYMMETRY Symmetry
CHECK_DEADLOCK FALSE
