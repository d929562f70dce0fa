SPECIFICATION CollectorSpec
CONSTANTS
  s1 = s1
  s2 = s2
  Sessions = {s1, s2}
  MaxFiles = 2
  TailLength = 1
  TrackLimit = 2
  TurnFresh = 1
  HeartbeatFresh = 0
  UsageFresh = 1
  TerminalFresh = 1
  IndexFresh = 1
  TaskLimit = 2
  LogEvents = {"turn.started", "turn.ended", "tracking.started"}
  MaxWrites = 3
  MaxTime = 1
SYMMETRY SessionSymmetry
CHECK_DEADLOCK FALSE
INVARIANTS
  TailShowsNoMore
  OneTaskPerSession
PROPERTIES
  ActiveTurnIsListed
  EndedTurnStaysEnded
