SPECIFICATION GrowthSpec
CONSTANTS
  t1 = t1
  t2 = t2
  sv1 = sv1
  sv2 = sv2
  sv3 = sv3
  tool = tool
  spare = spare
  rq1 = rq1
  en1 = en1
  en2 = en2
  sm = sm
  ft1 = ft1
  ft2 = ft2
  ck = ck
  op1 = op1
  op2 = op2
  ev1 = ev1
  ev2 = ev2
  ki1 = ki1
  ki2 = ki2
  kr1 = kr1
  kg1 = kg1
  kg2 = kg2
  kc1 = kc1
  k1 = k1
  k2 = k2
  ad1 = ad1
  ad2 = ad2
  pg1 = pg1
  pg2 = pg2
  pg3 = pg3
  pg4 = pg4
  or1 = or1
  or2 = or2
  or3 = or3
  NoVersion = NoVersion
  Versions = {sv1, sv2, sv3}
  NameOf <- SkillNames
  NumberOf <- SkillNumbers
  Harmful = {sv2}
  ToolsOf <- RequiredTools
  Fallback <- FallbackTools
  Learned = sv3
  SkillHands = {t1, t2}
  MaxSkillRevision = 4
  Requests = {rq1}
  Engines = {en1, en2}
  Supports <- SupportedSemantics
  Formats = {ft1, ft2}
  FileFormat = ft1
  Digests = {"x", "y"}
  Checks = {ck}
  Operations = {op1, op2}
  EngineOf <- OperationEngines
  Probes = {op2}
  EnvHands = {t1, t2}
  MaxAttempts = 2
  MaxVerifications = 2
  Evidence = {ev1, ev2}
  Promotions = {t1, t2}
  MaxScope = 1
  MaxTime = 2
  MaxDecisions = 2
  Mutations = {ki1, ki2, kr1, kg1, kg2, kc1}
  MutationKind <- OperationKinds
  CorpusOf <- OperationCorpora
  Corpora = {k1, k2}
  Loaded = {}
  Advisors = {ad1, ad2}
  Approvers = {ad2}
  MaxCorpusRevision = 6
  MaxDeaths = 1
  Classed <- ClassSources
  Literal <- LiteralSources
  MaxResults = 2
  Callers = {t1, t2}
  Pages = {pg1, pg2, pg3, pg4}
  Root = pg1
  Graphs <- LinkGraphs
  PageLimits = {4}
  MaxDepth = 2
  StopAfterErrors = 2
  Origins = {or1, or2, or3}
  Widened = {or2}
  Secured = or1
  Routes <- SearchRoutes
  Upstreams <- SourceUpstreams
  Fetchers = {t1, t2}
  Fetches <- WebFetches
  Slots = 1
  MaxRedirects = 2
  TimeToLive = 1
  MaxAgeing = 2
INVARIANTS EnvironmentGoverned EvolutionEarned KnowledgeAccounted WebGoverned
PROPERTIES SkillsGoverned
SYMMETRY Interchangeable
CHECK_DEADLOCK FALSE
