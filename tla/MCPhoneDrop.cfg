SPECIFICATION PhoneSpec
CONSTANTS
  Agents = {"a"}
  Primary = "a"
  EventIds = {2, 3}
  Owner <- EventOwner
  MinEvents = 0
  MaxEvents = 2
  BatchSize = 1
  MaxAge = 0
  HandlerLag = 0
  MaxTime = 1
  MaxSeq = 3
  PageLimit = 1
  NoAgent = "none"
  NoCursor = NoCursor
  Orphans = TRUE
PROPERTIES
  CommittedPageIsHandled
