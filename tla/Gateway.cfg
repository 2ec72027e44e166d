SPECIFICATION MCSpec
CONSTANTS
  Scenes = {"directory", "signin", "owned", "pipeline", "errors", "authorization", "http", "config", "token"}
  DirectoryCalls = {1, 2}
  DirPhones = {"a", "b", "s"}
  SeedPhones = {"s"}
  MaxCustomers = 4
  MaxRestarts = 1
  Flows = {f1, f2}
  Phones = {p1, p2}
  NewEmails = {e1}
  Null = Null
  CookieCache = 2
  MaxUsers = 2
  MaxSignTime = 2
  Callers = {1, 2}
  Customers = {"a", "b"}
  FirstRows <- ThreeRecords
  AskedIds = {1, 2}
  ListSizes = {1, 2}
  MaxAsks = 3
  r1 = r1
  r2 = r2
  u1 = u1
  u2 = u2
  HttpRequests = {r1, r2}
  HttpUsers = {u1, u2}
  NoUser = NoUser
  SessionOnRequest = {TRUE, FALSE}
  Routes <- ThreeRoutes
  HandlerErrors <- SomeHandlerErrors
  MaxIds = 3
  Statuses = {400, 404, 409, 418, 500, 503}
  HttpStatuses = {400, 401, 403, 404, 409, 422, 429, 500, 502, 503, 504}
  MessageWords <- SomeWords
  Undefined = Undefined
  Resources = {"product"}
  Accesses = {"read", "update"}
  HttpCalls = {h1, h2}
  Operations <- SomeOperations
  Correlations = {1}
  NoCorrelation = 0
  NoKey = NoKey
  MaxVersions = 3
  Tiers = {"dynamic", "transaction"}
  Adapters = {"mock", "live"}
  NoConfig <- NothingRead
  Senders = {s1, s2}
  Lifetimes = {1, 3}
  Margin = 1
  NoSaToken = 0
  MaxSaTime = 3
INVARIANTS DirectorySafe SignInSafe OwnListOnly OneStory StatusIsHonest PermissionsSound CallsAreSound ConfigSafe CachedTokenLasts
CHECK_DEADLOCK FALSE
