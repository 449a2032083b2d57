SPECIFICATION FairSpec
CONSTANTS
  Workers = {w1, w2}
  Threshold = 2
  Cooldown = 2
  MaxAttempts = 2
  Burst = 1
  Period = 2
  MaxWindow = 2
  NoOne = NoOne
INVARIANTS TypeOK ClosedBelowThreshold RateBudget OpenIsQuiet
PROPERTIES FetchEnds Recovers
