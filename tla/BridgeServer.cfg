SPECIFICATION FairSpec
CONSTANTS
  s1 = s1
  s2 = s2
  Session <- TwoSessions
  Pad <- SourceOnly
  SafePad <- SourceOnly
  Asked <- BusOrSource
  Ops <- AllOps
  Bus = Bus
  NoPad = NoPad
  NoScope = NoScope
  NoOne = NoOne
  MaxConns = 2
  MaxFaults = 1
INVARIANTS
  HoldersAreServed
  SlotsAccounted
  HotIsAccountedFor
PROPERTIES
  ControllerLeavesCold
  DeadManFires
CHECK_DEADLOCK FALSE
