SPECIFICATION LifecycleSpec
CONSTANTS
  r1 = r1
  t1 = t1
  t2 = t2
  c1 = c1
  c2 = c2
  None = None
  Runs = {r1}
  Tasks = {t1, t2}
  Calls = {c1, c2}
  Declared = {c1}
  RunOf <- MCRunOf
  DependsOn <- MCDependsOn
  TaskOf <- MCTaskOf
  MaxAttempts = 2
  MaxReviews = 2
  MaxTries = 2
  MaxCrashes = 0
PROPERTY
  ReleaseOnlyRetrySafe
