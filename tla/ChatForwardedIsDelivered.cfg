SPECIFICATION MCSpec
CONSTANTS
  Scenes = {"chat"}
  user = user
  Messages = {m1, m2}
  Users = {user}
  Owner <- ByOneUser
  Flushers = {f1}
  Readers = {r1}
  FlushBatch = 2
  MaxFaults = 0
  Nobody = Nobody
  NoMessage = NoMessage
  SessionEvents <- ThreeEvents
  Appenders = {a1, a2}
  SessionTtls = {2}
  RecentWindow = 1
  PageSizes = {1, 2}
  NoStoredSession = NoStoredSession
  MaxSessionTime = 3
  MaxAppends = 4
  customer = customer
  Binders = {user}
  Refs = {customer}
  Knows <- OneSecret
  Requests = {q1, q2}
  NoBinder = NoBinder
  UserRefLimit = 2
  CustomerRefLimit = 2
  UserTotalLimit = 2
  CacheFaults = TRUE
  BreakerKeys = {b1, b2}
  ServiceCallers = {s1, s2}
  MaxServiceCalls = 3
  MaxObjects = 2
  MinRequests = 2
  ErrorThreshold = 50
  ResetTimeout = 1
  TimeWindow = 1
  FallbackKeys = {k1, k2}
  Ttls = {0, 1, 2}
  MaxTimers = 2
  MaxVersion = 2
  FanOuts <- ThreeCalls
  DataValues = {1, 2}
  Missing = Missing
  NoData = NoData
INVARIANT ForwardedIsDelivered
