SPECIFICATION SilentSpec
CONSTANTS
  Shutters = {s1, s2}
  Full = 1
  ToLevel <- Linear
  ToPercent <- Linear
  Travel <- TravelOne
  IgnoreDelta = 0
  ExternalWindow = 0
  ExternalMinDelta = 1
  RunTolerance = 0
  RunGrace = 1
  StaleAfter = 0
  MaxInFlight = 1
INVARIANTS NoGhosts
