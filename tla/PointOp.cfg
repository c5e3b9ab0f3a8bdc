SPECIFICATION FairSpec
CONSTANTS
  Freq <- TwoFreqs
  High <- OneHigh
  Power <- OnePower
  Start <- StartLow
  PreselRetry = 2
  MaxEdits = 2
  Drifts <- LevelAndScale
  MaxFaults = 1
INVARIANT QuietMeansApplied
PROPERTY ReadoutConverges StaleMapIsDropped
