SPECIFICATION PipelineSpec
CONSTANTS
  t1 = t1
  t2 = t2
  Tasks = {t1, t2}
  LiveStatus = {"running"}
  Absent = "absent"
  MaxObservations = 2
  PendingLimit = 2
  MaxEvents = 4
  BatchSize = 1
  MaxUnacked = 0
  Poison = {t1}
PROPERTIES
  HealthyEventsArrive
