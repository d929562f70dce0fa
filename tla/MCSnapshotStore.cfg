SPECIFICATION StoreSpec
CONSTANTS
  Sources = {"zcode", "commandCode"}
  Unconfigured = {}
  MaxCollections = 4
  MaxTime = 1
  MaxSteps = 1
  Nothing = Nothing
INVARIANTS
  StoreTypeOK
  FailureIsVisible
  DataIsLastKnownGood
