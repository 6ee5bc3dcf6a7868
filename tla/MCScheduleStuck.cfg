SPECIFICATION FairSpec
CONSTANTS
  s1 = s1
  s2 = s2
  m1 = m1
  Schedules = {s1}
  Target <- OneTarget
  Blocking = {s1}
  OneShot = {s1}
  Manuals = {m1}
  Coalesce = TRUE
  Grace = 1
  CatchUp = 2
  MaxAttempts = 1
  Backoff = 1
  Horizon = 1
  MaxRevision = 2
  MaxCrashes = 0
  TaskCap = 1
PROPERTIES DueScheduleFires
CHECK_DEADLOCK FALSE
