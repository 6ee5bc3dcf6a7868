SPECIFICATION CommandsSpec
CONSTANTS
  c1 = c1
  c2 = c2
  m1 = m1
  run1 = run1
  first = first
  any = any
  q1 = q1
  q2 = q2
  q3 = q3
  shared = shared
  runs = runs
  rows = rows
  Commands = {c1, c2, m1, run1}
  Contents = {first, any}
  Expected <- ContentExpects
  Requests = {q1, q2, q3}
  Targets = {shared, runs, rows}
  TargetOf <- TargetsOfKind
  Mutations = {m1}
  RunCommands = {run1}
  MaxCrashes = 1
  Sources <- AllSources
  Asked <- MadeRequests
  Horizon = 2
  Offered = {"knowledge.promotion.propose", "conversation.message.post", "change.plan", "change.apply", "session.start", "session.write", "git.push"}
  CommandIds = {k1, k2}
  Actors = {"ada", "ben"}
  OwnedTargets = {"t1"}
  Variants = {{}, {"x"}}
  Configured = {}
  MaxStops = 1
  Proposals <- MadeProposals
  Discovered = {"a", "b"}
  CitablePaths = {"a", "b", "z"}
  TaskRoles = {"Investigator", "Reviewer"}
  ReviewRole = "Reviewer"
  RoleTools <- MadeRoleTools
  OutcomeTools = {"read", "exec"}
  ReadTools = {"read"}
  Policies <- MadePolicies
  MaxTasks = 2
  MaxIterations = 3
  ModelCandidates = 2
  PlanRetries = 1
  ExecutionRetries = 1
  ReviewRetries = 1
  OutputRetries = 1
INVARIANTS LedgerConsistent PlanCarriedOut
PROPERTIES EffectOnExpectedRevision KeepsPromise RequestsAnswered AuthorityHolds
CHECK_DEADLOCK FALSE
