SPECIFICATION Spec
CONSTANTS
  Shutters = {s1}
  Full = 2
  ToLevel <- Linear
  ToPercent <- Linear
  Travel <- TravelTwo
  IgnoreDelta = 0
  ExternalWindow = 1
  ExternalMinDelta = 1
  RunTolerance = 0
  RunGrace = 1
  StaleAfter = 1
  MaxInFlight = 1
INVARIANTS TypeOK WellFormed RestartIsHonest EchoCovered
PROPERTIES FreshnessIsEarned
