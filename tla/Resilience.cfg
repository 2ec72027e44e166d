SPECIFICATION MCSpec
CONSTANTS
  Callers = {c1, c2, c3}
  MaxRequests = 5
  MinRequests = 2
  ErrorThreshold = 50
  ResetTimeout = 2
  TimeWindow = 3
  RetryErrors <- SomeErrors
  Plans <- SomePlans
  NoError = NoError
  HealthPorts = {p1, p2}
  BackgroundPorts = {p2}
  MaxOutages = 1
  MaxTogether = 2
  ChatMessages = {m1, m2}
  ChatFlushers = {f1, f2}
  user = user
  Nobody = Nobody
  NoMessage = NoMessage
  Pools = {"WRITE", "READ"}
  CheckedPool = "WRITE"
  HealthChecks = {k1, k2}
  MaxClients = 1
  MaxAttempts = 3
INVARIANTS TypeOK MetricsCoherent RetryIsContained
PROPERTIES TripNeedsEvidence OpenRests CircuitRecovers ReadinessRecovers ShutdownEnds BacklogDrains
CHECK_DEADLOCK FALSE
