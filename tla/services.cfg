CONSTANTS
  Requests = {1, 2}
  Nonces = {1}
  Keys = {1}
  Bodies = {1, 2}
  Targets = {1}
  Limits <- MCLimits
  Window = 2
  NonceLife = 1
  KeyLife = 1
  MaxClock = 3
  OobCalls = {1, 2}
  Contents = {1, 2}
  MaxSnapshots = 2
  MaxOobFaults = 1
  Writers = {1, 2}
  MaxRecords = 4
  MaxAborts = 1
  Dispatchers = {1, 2}
  MaxEvents = 3
  FlushLimit = 2
  MaxOutboxFaults = 2
  Runners = {1, 2}
  MaxFiles = 3
  Checksums = {1, 2}
  RetentionMonths = 2
  MonthsAhead = 1
  LastMonth = 5
  Processes = {1, 2}
  CertNodes = {1, 2}
  MaxAnchorKeys = 3
  FixedRelays = {1}
  Gateways = {2}
  Instances = {3}
  FleetCalls = {1, 2}
  Measures <- MCMeasures
  RelaySessions = 29
  GatewaySessions = 20
  LocalRelays = {3}
  Period = 2
  FreshRelay = 3
  FreshGateway = 2
  MaxTime = 3
  MaxFleetFaults = 1
  Clients = {1, 2}
  Destinations = {1, 2}
  Allowlist = {1}
  MaxRuns = 4
  Queries = {1}
  DnsNames = {1, 2, 3, 4}
  Suspicious = {4}
  Feeds <- MCFeeds
  FeedCount = 2
  UpstreamCount = 2

SPECIFICATION ServicesSpec

INVARIANTS
  ServicesTypeOK
  NonceAdmitsOnce
  
  AnswersAreForTheBody
  GoodSurvives
  ChainVerifies
  DeliveredExactlyOnce
  MigrationsRunOnce
  EventsAreKept
  
  
  LiveServersAreSelected
  InstancesAreKnown
  
  
  AuditNeverFailsAQuery

PROPERTIES
  EventsAreDelivered

CHECK_DEADLOCK FALSE
