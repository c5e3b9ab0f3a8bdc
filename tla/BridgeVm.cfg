SPECIFICATION Spec
CONSTANTS
  Modes <- EitherMode
  Keys <- YesOrNo
  Attempts = 2
  MaxPolls = 3
  Grace = 1
  MaxSettle = 2
  MaxUpsets = 3
INVARIANTS
  OneQemuPerInstance
PROPERTIES
  VerdictAfterProvisioning
  BringUpEnds
CHECK_DEADLOCK FALSE
