SPECIFICATION FairSpec
CONSTANTS
  Tabs = 2
  Reapplying <- Second
  Debounced <- Second
  MaxSwitches = 2
  MaxEdits = 2
INVARIANTS
  HotHasEngine
  GoneIsCold
  OthersAreParked
PROPERTY
  ActiveDrives
CHECK_DEADLOCK FALSE
