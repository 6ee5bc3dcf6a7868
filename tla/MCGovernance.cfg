SPECIFICATION GovernanceSpec
CONSTANTS
  n1 = n1
  n2 = n2
  g1 = g1
  x1 = x1
  x2 = x2
  z1 = z1
  z2 = z2
  e1 = e1
  q1 = q1
  o1 = o1
  o2 = o2
  Work = {n1, n2}
  KindOf <- TaskKinds
  Needs <- Dependencies
  Judged = {}
  Contexts = {n2}
  Runs = {g1}
  Keys = {x1, x2}
  Hands = {z1, z2}
  Escalations = {e1}
  Blocks <- BlockedScope
  MaxBriefs = 2
  MaxCrews = 2
  MaxPlans = 1
  MaxChanges = 2
  MaxMoves = 8
  Proposals = {q1}
  MaxInterventions = 3
  OwnerOf <- TaskOwners
  Owners = {o1, o2}
  HandsOver = {o1}
  Share = 80
  MaxCursor = 2
  MaxCollabs = 2
  MaxRecords = 1
INVARIANTS TeamGoverned
PROPERTIES MissionHolds DecisionsHold
SYMMETRY Interchangeable
CHECK_DEADLOCK FALSE
