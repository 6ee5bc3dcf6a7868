SPECIFICATION FireSpec
CONSTANTS
  s1 = s1
  s2 = s2
  m1 = m1
  Schedules = {s1, s2}
  Target <- OneTarget
  Blocking = {s1}
  OneShot = {s1}
  Manuals = {m1}
  Coalesce = TRUE
  Grace = 1
  CatchUp = 2
  MaxAttempts = 2
  Backoff = 1
  Horizon = 3
  MaxRevision = 2
  MaxCrashes = 1
  TaskCap = 2
INVARIANTS ScheduleRows OverlapExclusive SingleEffect
PROPERTIES OccurrencesSettle
CHECK_DEADLOCK FALSE
