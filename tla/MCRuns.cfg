SPECIFICATION RunsSpec
CONSTANTS
  r1 = r1
  t1 = t1
  t2 = t2
  w1 = w1
  w2 = w2
  c1 = c1
  c2 = c2
  None = None
  Runs = {r1}
  Tasks = {t1, t2}
  Calls = {c1, c2}
  Declared = {c1}
  RunOf <- MCRunOf
  DependsOn <- MCChain
  TaskOf <- OwnCall
  MaxAttempts = 2
  MaxReviews = 2
  MaxTries = 2
  MaxCrashes = 1
  Workers = {w1, w2}
  Capacity <- MCCapacity
  Compatible <- MCCompatible
  Preferred <- MCPreferred
  Stateful = {}
  Rank <- MCRank
  Submissions = {1, 2}
  HeartbeatTicks = 1
  LeaseTicks = 2
  TaskTicks = 3
  PlacementTicks = 3
INVARIANTS TypeOK EffectAtMostOnce DependencyEligibility DurableAcceptance OneActiveLease SingleAcceptance
PROPERTIES AcceptedResultStable ExpiredAuthority
SYMMETRY WorkerSymmetry
