SPECIFICATION PhoneSpec
CONSTANTS
  Agents = {"a", "b"}
  Primary = "a"
  EventIds = {1, 2, 3}
  Owner <- EventOwner
  MinEvents = 1
  MaxEvents = 2
  BatchSize = 1
  MaxAge = 0
  HandlerLag = 1
  MaxTime = 2
  MaxSeq = 3
  PageLimit = 1
  NoAgent = "none"
  NoCursor = NoCursor
  Orphans = FALSE
PROPERTIES
  CatchesUp
  NewestRowsSurvive
