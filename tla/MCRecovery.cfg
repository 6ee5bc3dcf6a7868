SPECIFICATION RecoverySpec
CONSTANTS
  r1 = r1
  t1 = t1
  t2 = t2
  w1 = w1
  c1 = c1
  c2 = c2
  w2 = w2
  None = None
  Runs = {r1}
  Tasks = {t1, t2}
  Calls = {c1, c2}
  Declared = {c1}
  RunOf <- MCRunOf
  DependsOn <- MCChain
  TaskOf <- OwnCall
  MaxAttempts = 2
  MaxReviews = 1
  MaxTries = 1
  MaxCrashes = 0
  Workers = {w1}
  Capacity <- MCCapacity
  Compatible <- MCCompatible
  Preferred <- MCPreferred
  Stateful = {t1}
  Rank <- MCRank
  Submissions = {1}
  HeartbeatTicks = 1
  LeaseTicks = 2
  TaskTicks = 2
  PlacementTicks = 2
INVARIANTS NoOrphanedLease
PROPERTIES LeaseEnds CancellationSettles
