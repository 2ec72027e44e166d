SPECIFICATION MCSpec
CONSTANTS
  Scenes = {"outbox", "write", "delivery", "cache", "dedup"}
  Events = {e1, e2}
  Instances = {i1, i2}
  BatchSize = 2
  MaxRetries = 2
  MaxFaults = 2
  NoEvent = NoEvent
  Handlers = {h1, h2}
  NoHandler = NoHandler
  MaxResaves = 1
  Publishes = {d1, d2}
  Projections = {p1, p2}
  Tracking = {p1}
  CacheKeys = {"k1", "k2"}
  CacheClients = {c1, c2}
  MaxEntries = 1
  ClaimTtl = 2
  MaxNow = 4
  MaxIncrs = 2
  Deliveries = {d1, d2, d3}
INVARIANTS OutboxSafe  SingleEventSeesLatest EachProjectionOnce WorkedOnce
PROPERTIES EntriesSettle CacheKeepsWord
CHECK_DEADLOCK FALSE
