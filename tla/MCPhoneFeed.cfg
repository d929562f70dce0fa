SPECIFICATION PhoneSpec
CONSTANTS
  Agents = {"a"}
  Primary = "a"
  EventIds = {2, 3}
  Owner <- EventOwner
  MinEvents = 0
  MaxEvents = 1
  BatchSize = 1
  MaxAge = 0
  HandlerLag = 0
  MaxTime = 1
  MaxSeq = 3
  PageLimit = 1
  NoAgent = "none"
  NoCursor = NoCursor
  Orphans = TRUE
INVARIANTS
  ServedPageIsAccepted
  PageIsAboveItsFloor
  HandledInOrder
  NoRetainedEventSkipped
  RetainedIsNewestPart
  SeqsNeverReused
PROPERTIES
  PassIsThorough
