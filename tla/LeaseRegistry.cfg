SPECIFICATION Spec
CONSTANTS
  s1 = s1
  s2 = s2
  s3 = s3
  Session <- ThreeSessions
  Pad <- BenchPads
  Bus = Bus
  NoPad = NoPad
  NoOne = NoOne
  Ttl <- ShortAndNegative
  MaxTtl = 2
  MaxClock = 4
INVARIANTS
  BoundedOwnership
PROPERTIES
  RefusalNamesALiveLease
  OnlyOwnLeaseGrows
  ImplementsExclusiveControl
