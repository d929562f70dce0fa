SPECIFICATION PathSpec
CONSTANTS
  Sources = {"zcode"}
  MaxVersions = 1
  MaxTime = 1
  Nothing = Nothing
  StaleAfter = 0
  InFlight = 2
INVARIANTS
  PathTypeOK

PROPERTIES
  LiveMeansHeard
  OfflineIsShown
  StateConverges
