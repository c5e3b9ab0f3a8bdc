SPECIFICATION FairSpec
CONSTANTS
  a = a
  b = b
  Client <- OneClient
  NoOne = NoOne
  MaxSessions = 3
  MaxHolds = 2
INVARIANTS
  QuietAfterRelease
  OneKeepalive
PROPERTIES
  ControlHeals
CHECK_DEADLOCK FALSE
