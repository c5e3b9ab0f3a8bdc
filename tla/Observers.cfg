SPECIFICATION FairSpec
CONSTANTS
  dashboard = dashboard
  command = command
  c1 = c1
  c2 = c2
  Observer <- TwoDashboards
  Polls <- TheCommand
  Points = 1
  Capacity = 4
  MaxFaults = 1
  Operator <- TwoClients
  Query = Query
  NoScope = NoScope
  Absent = Absent
  Pad <- BenchPads
  Bus = Bus
  NoPad = NoPad
  Client <- TwoClients
  MaxUpsets = 3
INVARIANTS
  NobodyIsSkipped
  ReportsAddUp
  RepliesAreTrue
  ReaddressSuffices
PROPERTIES
  IntrusionsAreNamed
  ResultReaches
CHECK_DEADLOCK FALSE
