SPECIFICATION OutboxSpec
CONSTANTS
  t1 = t1
  t2 = t2
  Tasks = {t1, t2}
  LiveStatus = {"running"}
  Absent = "absent"
  MaxObservations = 4
  PendingLimit = 1
SYMMETRY TaskSymmetry
INVARIANTS
  OutboxTypeOK
  EmittedAreTheTransitions
  SeqFollowsObservation
  SettledIsPrefix
