SPECIFICATION PipelineSpec
CONSTANTS
  t1 = t1
  Tasks = {t1}
  LiveStatus = {"running"}
  Absent = "absent"
  MaxObservations = 4
  PendingLimit = 2
  MaxEvents = 1
  BatchSize = 1
  MaxUnacked = 2
  Poison = {}
INVARIANTS
  NothingLost
  FeedKeepsOrder
PROPERTIES
  ImplementsFeed
  OutboxDrains
