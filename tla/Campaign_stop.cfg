SPECIFICATION FairSpec
CONSTANTS
  N = 3
  High <- BehindPreselector
  Setups <- Shields
  Noise <- Ladder
  Target = 8
  Margin = 1
  Guard = 1
  HealthEvery = 1
  Jobs <- Both
  Ambient = 9
  Happens <- Nothing
  Unbracketed = {3}
  MaxRuns = 1
PROPERTY
  StopAbortsThePause
CHECK_DEADLOCK FALSE
