SPECIFICATION Spec
CONSTANTS
  Servers = {"p1", "p2"}
  Threads <- MCThreads
  Files <- MCFiles
  Editions <- MCEditions
  Requests <- MCRequests
  Plans <- MCPlans
  Provider <- MCProvider
  LocalModel = "ollama/llama3.1"
  RiskActors = {"ann", "bob"}
  Hour = 1
  Week = 2
  Threshold = 1
  MaxRecords <- MCMaxRecords
  MaxRiskTime = 2
  MaxRiskFaults <- MCMaxRiskFaults
  ShieldServers = {"p1"}
  Calls <- MCCalls
  MaxCalls = 2
  MaxCost = 2
  Window = 1
  MaxShieldTime = 3
  LicenseCalls = {"c1", "c2"}
  Keys = {"k1", "k2"}
  Machines = {"m1", "m2"}
  Configured = {"m1"}
  Terms <- MCTerms
  MaxLicenseTime = 1
  MaxLicenseEvents = 4
  Revokers = {"v1", "v2"}
  Subjects = {"ann-marketing"}
  Lifetimes = {0, 1}
  MaxDecisions = 2
  MaxConsentTime = 1
  MaxRevocations = 2
  HookAdmins = {"a1", "a2"}
  Dispatchers = {"d1"}
  Retriers = {"r1", "r2"}
  HookIds = {"h1", "h2"}
  Subscriptions <- MCSubscriptions
  EventTypes = {"ping"}
  BatchSize = 1
  HookBudgets <- MCHookBudgets
  Documents = {"d1", "d2", "d3"}
  NameOf <- MCNameOf
  Risky = {"d1", "d3"}
  Ingestors = {"t1", "t2"}
  Sweeper = "t0"
  Reporters = {"r1", "r2"}
  Cycle = 2
  MaxDay = 2
  MonitorPlans <- MCMonitorPlans
  AiDomains = {"x1"}
  Loops = {"l1", "l2"}
  ScanJobs = {"j1"}
  Starters = {"c1", "c2"}
  MaxDetections = 1
  MaxStarts = 2
  MaxDetectorFaults = 1
  Callers = {"k1", "k2"}
  TTL = 1
  MaxCacheTime = 1
  MaxVersions = 2
  MaxLookups = 3
  ApiKeys = {"key"}
  KeyAdmins = {"a1", "a2"}
  Apps = {"app"}
  DefaultDays = 2
  MaxKeyTime = 2
  MaxKeyChanges = 3
  MaxInspections = 1
  Clerks = {"c1", "c2"}
  MaxSecond = 1
  MaxTrail = 3
  DeskPlans <- MCDeskPlans
  Officers = {"o1", "o2"}
  Assessors = {"s1"}
  MaxIncidents = 2
  MaxAffairs = 2
  MaxScores = 1
  Creators = {"c1", "c2"}
  Emails = {"ann@corp"}
  FirstEmail = "admin@corp"
  MaxPasswords = 3
  MaxProcessStarts = 2
  Managers = {"u1", "u2"}
  MaxAccountEvents = 5
INVARIANTS
  ServicesTypeOK
  BlockedStaysUnsent
  AskedHotStaysLocal
  SentIsRecorded
  ReviewsEarned
  ReviewsExact
  LimitsExact
  LicensesTrue
  RevocationSticks
  DeliveriesKept
  RegistryKept
  LoopsBounded
  ArchiveSealed
  NoneForgotten
  MailsBounded
  CachesFresh
  AccessHolds
  EvidenceStands
CHECK_DEADLOCK FALSE
