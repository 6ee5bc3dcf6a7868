SPECIFICATION EffectsSpec
CONSTANTS
  Requests <- SessionRequests
  Kills = TRUE
  MaxCrashes = 1
  b1 = b1
  b2 = b2
  y1 = y1
  y2 = y2
  Browsers = {b1, b2}
  Keys = {y1, y2}
  MaxBrowserFaults = 2
  MaxRevisions = 2
  m1 = m1
  m2 = m2
  m3 = m3
  Calls = {m1, m2, m3}
  Repeatable = {m2}
  RemoteCalls = {m3}
  Schemas = {"v1", "v2"}
  MaxProgress = 2
  MaxMcpFaults = 1
  MaxConnects = 2
  MaxKeys = 4
  MaxSerials = 4
  MaxIdentityFaults = 3
  MaxClaims = 2
  MaxRuns = 3
  o1 = o1
  Outputs = {o1}
  MaxUploads = 3
  UploadQuota = 2
  MaxDeliveryFaults = 2
INVARIANTS CallsSettled
PROPERTIES SessionsSettle BrowserGoverned IdentityWhole DeliveryCompletes
CHECK_DEADLOCK FALSE
