SPECIFICATION LinkUserSpec
CONSTANTS
  Recoverable <- SourceLink
  Discovery <- MatchOrAbsent
  Retries = 2
  FaultAfter = 2
  Budget = 1
  MaxUpsets = 2
  MaxCount = 0
INVARIANTS
  FaultIsEarned
PROPERTIES
  LinkComesBack
  EnsureReturns
