SPECIFICATION StoresSpec
CONSTANTS
  r1 = r1
  r2 = r2
  h1 = h1
  h2 = h2
  p1 = p1
  p2 = p2
  s1 = s1
  u1 = u1
  u2 = u2
  d1 = d1
  a1 = a1
  a2 = a2
  n1 = n1
  c1 = c1
  f1 = f1
  f2 = f2
  k1 = k1
  g1 = g1
  g2 = g2
  w1 = w1
  w2 = w2
  NoRun = NoRun
  Runs = {r1}
  Holds = {h1}
  Plans = {p1}
  Readers = {s1}
  Follows <- FollowsAll
  BatchSize = 2
  PageLimit = 2
  MaxCursor = 3
  MaxClock = 2
  Uploads = {u1, u2}
  Digests = {d1}
  DigestOf <- SameContent
  Arts = {a1, a2}
  NoArt = NoArt
  Names = {n1}
  Keeps = {"pin"}
  Collections = {c1}
  Chunks = 1
  MaxRevision = 1
  MaxPlans = 2
  MaxFaults = 1
  Paths = {f1, f2}
  Contents = {"x", "y"}
  Definitions <- SomeEdits
  Sets = {k1}
  MaxForeign = 2
  MaxEditFaults = 2
  GitCalls = {g1, g2}
  GitPaths = {f1, f2}
  MaxCommits = 3
  MaxByOthers = 1
  MaxGitFaults = 1
  Operators = {w1, w2}
  ByPath = {w1, w2}
  HeadRevision = 3
  MaxInterruptions = 2
INVARIANTS StreamSafe SchemaSafe
PROPERTIES StreamKept ArtifactsKept EditsFaithful GitFaithful
CHECK_DEADLOCK FALSE
