# TLA+ models of the self-service BFF

The repository is a NestJS backend-for-frontend of a water utility's customer
app. It keeps little data of its own: it calls downstream services through
*ports*, and its own logic is what makes those calls safe to depend on (circuit
breakers, caches, a replay queue), who may act for which customer (sign-in,
sessions, binding), what a request meets on its way (guards, interceptors,
filters), and a few orchestrations that must survive failures (payments, chat,
outbox). These modules model that logic. All of it is concurrent in the way
Node.js is: one thread, but every `await` lets other requests run, and in
production several processes share Redis and Postgres. A step of a model ends
where the code awaits shared state.

Paths below are relative to the repository's `src/` directory unless they start
with `docs/` or `config/`.

## Inventory

| Component | State | Operations | Hard behaviour | What makes it correct |
|---|---|---|---|---|
| Circuit breaker (`libs/shared/resilience/circuit-breaker.state.ts`) | state, counters, clock | recordSuccess/Failure, open, close, halfOpen, roll-over | answers of calls admitted before a trip; counters recomputed by the roll-over | counters coherent, trips need evidence, an open circuit rests and recovers |
| Breaker service (`circuit-breaker.decorator.ts`) | map of breakers by key | execute, reset, resetAll | calls in flight over a reset | a breaker judges its own calls only |
| Retry, fallback (`retry.decorator.ts`, `fallback.provider.ts`) | attempts and waits; cached results with timers | execute, calculateDelay; setCached, executeWithFallback | errors that look transient, timers nobody cancels | an error that tells the client's fault is sent again only where a plan lists it, waits are bounded and back off; no result past its ttl |
| Port registry (`libs/shared/port/port-registry.service.ts`) | breaker, read cache and fallback entry per port | register, execute, executeWithQueue, executeReplay | reads overlapping writes, un-awaited invalidation, writes recognised by the first letters of their name, one fallback entry per port | callers get their own answers; staleness has a known cause |
| Queue (`libs/shared/queue/queue.service.ts`) | BullMQ jobs | enqueue, replay, retry, dead letter | crash between 202 and replay, a call carried out and then replayed | what was accepted is carried out or kept as a dead letter |
| Port HTTP client (`port-http.client.ts`, adapters, JWT signer) | headers and keys of a call | call, abort, retry after 401 | late answers, rotated keys, equal idempotency keys | applied once, one final result |
| Endpoint configuration (`endpoint-config.service.ts`) | current map, watcher | boot, reload | overlapping reloads, invalid, broken and unreadable files, tiers taken once | valid and current map |
| Aggregation (`aggregation.service.ts`) | none | executeAll, resolveToMap | calls settle in any order | a failure costs nobody else the answer |
| Binding (`modules/binding`) | token and guard caches, binding rows, audit rows | bindInit, bind, bindRegister, guard | check-then-act over several stores, failing statements, another channel creating the customer | bindings are earned, unique, audited; the guard serves only those |
| Customer directory (`customer-service-mock.client.ts`) | map, counter, table | resolve, verify, create, hydrate | overlapping first hydrations, restarts | numbers kept, one customer per phone |
| Binding limiter (`binding-rate-limiter.service.ts`) | three windowed counters and locks in the cache | checkLocked, recordFailure, clearFailures | read-modify-write shared by requests, windows ending in between | locks come neither early nor late |
| Unit of work and aggregate repository (`drizzle-unit-of-work.ts`, `base-aggregate.repository.ts`) | active transactions, row version | save, runInTransaction | timeout racing the commit, acknowledgements lost, two statements without a transaction, version counted by events | the answer tells what was stored |
| Outbox (`libs/shared/database/outbox`) | outbox rows, processor timers | save, poll, claim, publish, mark, reset, clean up, stop, start | several processors, crash at each step | one owner per entry, processed means published, entries settle |
| Event bus, projections | processed events | publish, handle | repeated and overlapping deliveries, failing handlers | each projection gets each event, once unless deliveries overlap |
| Database pools (`database.service.ts`) | map of pg pools | checkConnection, closeAllPools | probes during the shutdown | shutdown ends |
| Caches (`libs/shared/caching`) | entries with expiry | get, set, setIfNotExist, incr, delete | eviction at the limit, two-step increments | bound, counts and claims kept |
| Idempotency (`libs/shared/idempotency`, inbound key) | stored results, claims | check, claim, store | overlapping deliveries, crash between work and store | worked once, or for a known cause twice |
| Sign-in, sessions (`modules/auth`, `libs/shared/session`) | users with blind indexes, device sessions; channel history | verify OTP, update, revoke; append, view, page | racing sign-ups, cookie cache; NOSCRIPT, two-read views | one user per phone, a revocation takes effect; one whole history |
| HTTP pipeline (`libs/shared` context, security, observability, errors) | request context, trail | middleware, guards, interceptors, filters | sign-out between middleware and guard, interleaved requests | one user, one id, one outcome everywhere |
| Authorization (`libs/shared/security/authorization.decorator.ts`) | none | canActivate of three guards | roles, explicit and derived permissions, ids of body and path | a further right closes no route; a condition on the own id |
| HTTP rate limiter (`rate-limiter.guard.ts`) | windows per client | canActivate | not modelled, see below | |
| Account, billing, usage, report, service-request | records behind ports | get, list, page, write | shared cache keys, fallback answers | own rows only, whole lists |
| Service-account token (`keycloak-sa-token.service.ts`) | token, expiry | getToken | overlapping refreshes | a cached token is still valid |
| Health (`libs/shared/health`) | none | ready | a gated instance gets no traffic to recover with, but for the ticker's | readiness recovers unless a port nothing calls stays open |
| Chat store-and-forward (`modules/support`) | chat rows, probe verdict | sendMessage, getConversation, flushOnce | overlapping flushes, stale or foreign answers of the port | own messages always shown, backlog drains |
| Payment (`modules/payment`) | idempotency results, cached invoices and debt | createPayment, createBatchPayment, handleWebhook | stale verification, redelivered and overlapping webhooks, failures between steps | an acknowledged payment is visible and not offered again |

How they interact: a request passes correlation, auth propagation, guards and
interceptors (`HttpPipeline`), then a service calls `PortRegistry.execute`; it
consults the read cache, the port's breaker, the adapter (`PortHttp`), the
fallback entry and the queue. The queue's worker calls back into
`executeReplay`. Payment, chat and the owner-scoped services read through ports
and therefore inherit their caches. Binding uses the cache service directly, and
its guard reads what binding wrote. Commands save aggregates through the unit of
work; the outbox hands their events to the event bus and its projections.
Everything cached lives either in Redis (`REDIS_HOST` set) or in the process
(`port.module.ts`).

## Modules

| Module | Models | State ↔ code |
|---|---|---|
| `CircuitBreakerState` | the class of that name, one operator per method | record `Breaker` = its fields; `elapsed` = now − stateChangedAt, saturated |
| `PortBreaker` | the breaker as `PortRegistry.execute` drives it | `cb`, `call[c]` (a request's position), `rest` (history: time since `open()`) |
| `…Proofs` | theorems, see below | |
| `BreakerService` | CircuitBreakerService and its decorator | `circuitBreakers[k]` → `objects[o]`, `inFlight[c]` |
| `RetryService` | execute, shouldRetry, calculateDelay, presets | `retry` = the loop's variables |
| `FallbackProvider` | FallbackService, FallbackCache | `fallbackCache[k]`, `timers` |
| `Aggregation` | AggregationService | the fan-out and what has settled |
| `PortRegistry` | execute, executeWithQueue, executeReplay, QueueService for one port | `cache[c]`, `fallback`, `busts` (invalidations under way), `job[q]`; `Writes` are the calls that change something, `Mutations` those the code takes for such |
| `QueuedCall` | abstract promise of a port: answered once, and a 202 is settled | `status[q]` |
| `PortHttp` | PortHttpClient with JWT, idempotency key, timeout; the network is external | `call[c]`, what is under way, `effects[c]` |
| `PortConfig` | endpoint configuration, port registration | `config`, `file`, `reads`, `notices`, `portTier`, `mockMode`; `registeredOn` is history |
| `ServiceToken` | the service account's token cache | cached token with expiry, requests under way |
| `Binding` | bindInit, bind, bindRegister, guard | `token[s]`, `cache[u]`, `rows`, `audit`, `known`/`unsaved` |
| `CustomerDirectory` | resolve, verify, create, ensureHydrated | `created` (map), `table`, counter, `hydrated` |
| `BindingLimiter` | checkLocked, recordFailure, clearFailures | `count[k]`, `lock[k]`; `wrong`, `calm` are history |
| `WriteSide` | unit of work, aggregate repository, entity | `row` (version), `stored`, `onBus`, `activeTransactions`, `save[h]` (position, answer; `lost`, `writes` are history) |
| `Outbox` | repository, processor and the aggregate repository's save | `table[e]`, `proc[i]`, `saver[e]`; `published` is history |
| `EventDelivery` | event bus and BaseProjection | `publishing[d]`, `projecting`, `processed`, `applied` |
| `CacheService` | both cache backends | `cache` (in insertion order), `now`, `claimed` |
| `Deduplication` | inbound key, IdempotencyService, IdempotentInterceptor | stored result, `path[d]`, `work` |
| `DatabasePools` | DatabaseService; pg's Pool is external | `pools` (the map), `pool[p]`, `check[k]`, `shutdown` |
| `Sessions` | session store (Lua and memory), session service | `session`, `events`, `view` |
| `SignIn` | better-auth set-up, PII hooks, auth controller | `users`, `flow[f]`, `device[f]` |
| `HttpPipeline` | middleware, guards, interceptors, filter of a request | `stage[r]`, `context[r]`, `trail[r]`, `answer[r]` |
| `ErrorResponses` | both exception filters as functions of the exception | `failure` |
| `Authorization` | the three guards as functions of user, metadata and the request's ids | `asked` |
| `Selection` | `Array.filter` without recursion: the elements at some positions | used by `CacheService`, `Sessions`, `OwnedData` |
| `OwnedData` | owner-scoped services over the port's cache and adapters | rows, cache, fallback, what a caller was given |
| `Health` | HealthService, indicators, readiness gate | `up[d]`, `circuit[p]`, `probe`, `ready`, `routed`; `inside[p]` requests let in, `backlog` what the ticker forwards |
| `ChatOutbox` | sendMessage, getConversation, flushOnce over the chat port | `row[m]`, `flusher`, `reader`, `thread` and `fallback` of the port |
| `Payment` | createPayment, createBatchPayment, handleWebhook | `cache[i]`, `fallback`, `req[q]`, `order[q]`, `hook[w]`, `record[p]` |

Each `MC…` module instantiates modules for TLC. `MCResilience`, `MCPersistence`,
`MCSupport` and `MCGateway` check several components that share no state: the
variable `scene` is chosen at the start and says which of them moves, the others
stay in one initial state. A scene is thus a model-checking run of its own
component, and the state spaces add up instead of multiplying. Definitions marked
*Mutant* are plausible bugs used to show that a property can fail; no action refers
to them. `map` in `PROJECT.json` names the source lines of every definition.

Left out inside the modules: formatting, hashing, masking, log texts, the mock
fixtures. Time is a saturated clock where ages matter and "may expire now"
elsewhere. `PortRegistry`, `Health` and `ChatOutbox` treat the circuit as a flag (its
rules are `PortBreaker`'s); `ChatOutbox`, `Payment` and `OwnedData` contain the parts
of the port they observe. In `Payment` the only reads of the invoice port are those
of the two operations, and a debt entry is known only by whether a payment has
outdated it. `Health` takes the database's answer as one step; its retries are
`DatabasePools`.

## Runs

Most properties are conjunctions of named parts that stand beside them in the
module, each with its own comment.

| Run | Instance | Shows |
|---|---|---|
| `resilience` | breaker: 3 callers, 5 counted requests, MinRequests 2, 50 %, timeout 2, window 3 ticks; every retry preset against transient, client and ambiguous errors; 2 ports, one of them called by the ticker, and an outage of up to two dependencies; 2 pools, 2 probes, 1 client; 2 chat messages, 2 flushers | `TypeOK`, `MetricsCoherent`, `TripNeedsEvidence`, `OpenRests`, `CircuitRecovers` (breaker); `RetryIsContained`; `ReadinessRecovers`; `ShutdownEnds`; `BacklogDrains` |
| `persistence` | 2 events, 2 processors, 2 retries, 2 faults; 2 handlers over one aggregate, a repeated save each; 2 publishes to 2 projections; 2 keys in a cache of one entry; 3 deliveries | `OutboxSafe`, `EntriesSettle`; `AnswerTellsOutcome`, `SingleEventSeesLatest`; `EachProjectionOnce`; `CacheKeepsWord`; `WorkedOnce` |
| `binding` | 3 requests, 2 sessions of one user; a phone with two customers, or unknown | `BindingSafe`, `GuardServesVerified` |
| `limiter_live` | 2 requests, 2 customers, ceilings 2/3/3 | `LockIsReached` in spite of lost updates |
| `gateway` | nine scenes of two or three concurrent requests, callers or flows; the pipeline's two requests are of any of two users | `DirectorySafe`, `SignInSafe`, `OwnListOnly`, `OneStory`, `StatusIsHonest`, `PermissionsSound`, `CallsAreSound`, `ConfigSafe`, `CachedTokenLasts` |
| `support` | chat: one customer, 2 messages, a flusher, a reader, a crash; limiter: 2 requests, ceilings of 2, cache errors, time; breakers: 2 keys, 2 callers; 2 fallback keys; 3 calls over 2 ports; a session of 3 different events and up to 4 appends by 2 writers, pages of 1 and 2, a ttl that ends | `ChatSafe`, `LimiterSafe`, `BreakersApart`, `FallbackIsHonest`, `FailuresStayApart`, `HistoryIsWhole` |
| `port_registry` | together: 2 requests of one read and a recognised write; 2 of one unrecognised write; a read and an unrecognised write; a write of each kind. All three policies, 2 attempts, 1 crash | `PortSafe`, `StaleHasCause`, `KeepsPromise` (implements `QueuedCall`) |
| `payment` | a batch of 2 invoices and a payment of one of them, 2 webhook handlers, both caches, 1 resend, 1 fault | `PaymentSafe`, `EventuallyAcknowledged` |
| `payment_verified_unpaid`, `payment_duplicates_ignored` | the same with Redis | violations, see below |
| `chat_forwarded_is_delivered`, `owned_missing_is_not_found` | the chat and the owned scene alone | violations, see below |

Why the bounds suffice. The races are between two parties, a third one is there
where an interloper matters (`binding`, the breaker, `Deduplication`). Limits are at
least 2 where "below", "at" and "above" differ, and 1 where only "full" matters (the
cache's entries, the pool's clients). Two faults let a recovery be hit again
(outbox); elsewhere one fault is enough to cut any operation at any step. Clocks run
past the longest lifetime they are compared with. Users share nothing in `binding`,
hence one user. In `sessions` a view reads up to three pages, and events are appended,
the session expires, or a new one takes its place between two of them, in both stores.
Symmetry is used only in `binding`, which has no liveness, over
request slots and sessions nothing distinguishes. `CHECK_DEADLOCK FALSE` where the
requests are finitely many and the system may come to rest.

Fairness.
* `PortBreaker`: time passes; calls settle, because the HTTP client aborts them at
  the port's timeout; customers keep calling; a healthy downstream answers some
  call properly infinitely often (`CircuitRecovers` only).
* `Health`: outages are finitely many and end, reset timeouts elapse, traffic that is
  routed arrives, a call that stays possible makes its trial, the balancer keeps probing.
  A gating balancer is not assumed to send anything, nor is the backlog to have a row.
* `DatabasePools`: a connect is answered or timed out (`connectionTimeoutMillis`), a
  query ends, timers fire, `end()` of a pool without clients resolves. Nothing is
  assumed about the database staying up.
* `BindingLimiter` (`GuessingSpec`: wrong secrets only, within one window, the cache
  answers): requests run to their end.
* `Outbox`: the poll timer of a running processor keeps firing, batches proceed, a
  stopped processor is started again. `EntriesSettle` speaks of behaviours without
  faults.
* `ChatOutbox`: the ticker keeps calling `flushOnce`; probe verdicts and the circuit
  expire; a receiver that is up accepts a message it is sent again and again.
* `PortRegistry`: BullMQ hands out waiting jobs, and a replay ends, one way or the
  other. Nothing is assumed about requests or the downstream.
* `Payment`: a delivery proceeds; the payment service delivers until it gets 200.
  Redis errors during invalidation and crashes are bounded; a notification may fail
  every time.

In `MCResilience` and `MCPersistence` each condition is restricted to its scene.

## Findings

* `chat_forwarded_is_delivered`: a failed send is answered with the port's last
  answer; if that is an earlier `{sent: true}`, the row is marked forwarded and the
  message is lost.
* `payment_verified_unpaid`: the registry ignores `useCache: false`, so the unpaid
  check can be answered by an entry that is up to 15 minutes old. `PaidStaysPaid`
  shows what does hold: once the webhook is acknowledged the invoice is not offered
  again, unless the port is down (fallback entry) or a read overlapped the payment.
* `payment_duplicates_ignored`: with Redis, `getExisting` never recognises a stored
  result, because `storedAt` comes back as a string and `toISOString()` throws inside
  the `try`. With the memory cache it works (`DuplicatesIgnoredInMemory`).
* `owned_missing_is_not_found`: a 404 of an adapter is handled like an outage, so the
  detail of an invoice that does not exist, or is another customer's, is answered with
  the port's last remembered answer. `OwnRowsOnly` shows what a caller may be given.

Divergences seen while modelling, in the models but without a run of their own:

* `port-registry.service.ts:280` "allow single probe request": every request that
  arrives in HALF_OPEN passes.
* `port-registry.service.ts:52` "4xx client errors do NOT trip the circuit":
  `shouldOpen()` is evaluated after them, on metrics a roll-over may have changed, so
  one can be the call that opens it.
* `circuit-breaker.state.ts:171` "failure rate percentage": after a roll-over
  `failures` can exceed `requests`, and the rate 100.
* `circuit-breaker.decorator.ts:71` "closes after timeout": the service has no
  half-open path; only `reset()` closes it. Nothing uses it.
* `port-registry.service.ts:502` "or queue tier disabled": the code tests only
  whether the service is injected, which it always is; without `REDIS_HOST` enqueue
  throws instead of falling back to the cache.
* `binding.service.ts:119` "Single-use": overlapping binds can both use a token.
* `docs/SPEC-binding.md:127`, binding in the same transaction as create: two
  statements; a failure between them leaves a customer without a binding.
* `outbox.repository.ts:80` "FOR UPDATE SKIP LOCKED": a plain select; only the
  conditional update keeps processors apart.
* `base-aggregate.repository.ts:29` "at-least-once": a row claimed by a processor
  that dies stays PROCESSING. `:123`, `:162` "in same
  transaction": without `options.transaction` two separate statements.
* The optimistic lock compares with `version - 1` though each event counts: a command
  that raised two events can overwrite a version it never read.
  `SingleEventSeesLatest` is the exact extent of the protection.
* `cskh-chat.client.ts:143` "the customer's active APP thread": with the circuit open
  the fallback entry may be another customer's thread. The same entry can answer an
  invoice verification with another invoice, whose amount is then charged.
* `redis-cache.service.ts:126` "fail-open": `setIfNotExist` answers false on an error,
  which makes the first delivery look like a duplicate.
* `keycloak-sa-token.service.ts:8` "Single-flight": overlapping first calls each fetch
  a token. `CachedTokenLasts` shows that what is cached is still good.
* `global-exception.filter.ts:183` gives a `DomainException` 400, as
  `business-rule.exception.ts:6` promises, but the branch is never reached: the class
  extends `Error` and not `BaseException`, so it is answered 500 (422 by
  `StructuredErrorFilter`, which nothing installs). `BlameIsRight` states the exception.
* `structured-error.filter.ts:76` files SERVICE_UNAVAILABLE and INTERNAL_ERROR under
  "Server Errors (500)"; an `HttpException`'s 503 and 502 go out with these codes.
* `account.service.ts:60` "re-fetch fresh profile": the read may be served from the
  port's cache, whose invalidation is not awaited.
* An error of `save` or `runInTransaction` need not mean that nothing was saved: the
  timeout may answer before the COMMIT, the acknowledgement of a COMMIT or of a single
  statement may be lost, and outside a transaction the events may be refused, by the
  outbox or by the bus, after the row was written (`aggregate-repository.ts:99`).
  `ErrorAfterWriteExplained` lists these; `SaveAppliedOnce` says that saving again is
  safe.
* `binding.service.ts:106` writes a `success: true` row for a resolve; it is the one
  success row of the audit that has no binding.
* `GET /health/ready` is 503 while any port's circuit is OPEN, and only a call takes a
  circuit on. If the balancer stops traffic to such an instance, and no request it let
  in before reaches the port, the instance never returns (`DeadEndIsFinal`), however
  healthy the downstream is; but for `cskh-chat`, which the ticker of
  `chat-outbox.forwarder.ts:63` calls on every instance as long as a chat row waits.
* `port-registry.service.ts:249` "Default-secure: only explicitly read-like method names
  are cacheable": it is the reverse, every name is cacheable that does not begin with a
  listed verb (`:601`). `acknowledge-alert` (`notification.service.ts:84`) and
  `gis-triage` (`report.service.ts:117`) are writes that do not: their answers are
  cached, a repeat of the same call is answered from the cache and not carried out, and
  no invalidation follows. Both pass `useCache: false`, which the registry does not
  look at.
* `endpoint-config.service.ts:109` "fatal on mismatch in non-production": also in
  production a `${VAR}` that is not set, text that is no YAML and a file that cannot be
  read reject the boot. Hot reload reaches a port's adapter only: its tier, timeouts and
  breaker settings stay those of the map it was registered on.
* `retry.decorator.ts:86` "exponential backoff": `mergeOptions` gives every plan the
  delay calculator `() => 1000`, so all waits are one second, whatever
  `initialDelayMs`, `backoffMultiplier` and `jitterFactor` say. `WaitsBackOff` holds of a
  plan that takes the calculator away. The inclusion list is asked before the word
  lists: with the preset ExternalAPI a 401 whose text names ECONNREFUSED is sent again.
  A 409, a 422 and Nest's `UnauthorizedException` are in no list of refusals and are
  judged by the other words of their text. Nothing in the repository uses `@Retry`,
  `RetryService` or `RetryInterceptor`.
* `authorization.decorator.ts:114` 'condition: user == resource.ownerId' ("can only
  delete their own orders"): `checkResourceOwnership` returns true for everybody
  (`:427`), and a condition that is not recognised holds. `checkUserIdMatch` (`:444`)
  prefers the id of the body: the own id there admits to another's path. A first list of
  explicit permissions, even an empty one, replaces what the roles gave. No controller
  uses the guards or `@Secure`, and the session's user (`id`, `sessionId`) has no roles.
* The logging, tracing and audit interceptors of `HttpPipeline` are registered neither
  in `main.ts`, which installs the `ResponseInterceptor` only, nor in `app.module.ts`;
  `OneStory` says what they record once they are registered in the module's order.
* `SwallowedHasCause` of `PortHttp` allows for calls outside any request, which share
  "no correlation id". The downstream modelled refuses them, having no user's JWT, before
  it looks at the key, so that case does not occur.

The HTTP rate limiter (`rate-limiter.guard.ts`) is not modelled. Nothing in the
repository applies the guard or `@RateLimit`. Were it applied as its documentation shows
(`:56`), it would limit nothing: the decorator stores its options on the method's
prototype (`:95`) where the guard looks on the class (`:174`), and a class's under the
name of its constructor, `Function`, so no config is found. With a config, the
distributed check reaches for a `client` that `RedisCacheService` has not, throws, and
the in-memory check behind it admits. The default key `rate_limit:${ip}` (`:194`) would
be shared by all routes, and the shorter window of one would erase the hits of another.

## Proofs

Eight modules hold the theorems. Each EXTENDS the modules it is about and holds for
every value of their constants: any number of requests, users, callers, events,
processors or clients, any thresholds, ceilings, windows and bounds. A theorem
assumes nothing but what the modelled module assumes of its constants.

| Module | Theorems | Assumptions on the constants |
|---|---|---|
| `BreakerProofs` | `TypeCorrect`, `MetricsAlwaysCoherent`, `OpenAlwaysRests`, `TripsOnlyOnEvidence` (`PortBreaker`); `BreakersStayApart` (`BreakerService`); `RetryIsKept` (`RetryService`) | `BreakerAssumption`: positive sizes, a threshold of 1–100 %; `CallersAssumption`; `RetryAssumption`: at least one attempt, delays are numbers |
| `PortRegistryProofs` | `PortIsSafe`, `StalenessIsExplained`, `PromiseIsKept` | `RegistryAssumption`: finitely many requests, known policies, at least one attempt; which calls are writes and which the code takes for writes is open |
| `BindingProofs` | `BindingIsSafe`, `GuardIsSafe` | `BindingAssumption`: a session has one user, a customer that is yet to be created is nobody's |
| `PaymentProofs` | `PaymentIsSafe` | `PaymentAssumption`: a payment names at least one invoice |
| `PersistenceProofs` | `OutboxIsSafe`, `ProjectionsAreSafe`, `AnswersAreTrue`, `SingleEventsSeeLatest`, `DeliveriesAreDeduplicated` | `OutboxAssumption`, `DeliveryAssumption`, `WriteAssumption`: finitely many events, positive batch and retries, tracking projections are projections |
| `SupportProofs` | `ConversationsAreWhole`, `FallbacksExpire`, `AnswersStayApart`, `LimiterIsSafe` (`BindingLimiter`) | `ChatAssumption`: a message has one owner; `FallbackAssumption`, `FanOutAssumption`; `LimiterAssumption`: ceilings of at least 1 |
| `GatewayProofs` | `ConfigIsSafe`, `CachedTokensLast`, `CallsStaySound`, `SignInIsSafe`, `DirectoryIsSafe`, `PipelineTellsOneStory`, `PermissionsAreSound`, `StatusesAreHonest` | `ConfigAssumption`, `SaAssumption`, `HttpAssumption`; `SignAssumption`: a cookie lives, null is no address; `DirAssumption`: room for two customers; `PipelineAssumption`; `StatusAssumption`: a downstream refuses with 400–599, an HttpException carries a status the filter lists, 500 or 502 |
| `StoreProofs` | `CacheIsKept` (`CacheService`), `HistoryIsKept` (`Sessions`), `OwnListIsKept` (`OwnedData`) | `CacheAssumption`: room for an entry, a claim lives; `SessionAssumption`: an event's id is its own, positive ttls and page sizes; `OwnedAssumption`: a customer and a record, limits of at least 1 |

The other conjuncts of the assumptions type a constant or keep "nobody" apart from the
members of a set. TLC evaluates each of them on the runs. `theorems` in `PROJECT.json`
says which property of a run a theorem states.

Each proof names an inductive invariant, shows that it holds initially and is
preserved by each action, and derives the property. What it adds to the property, and
why the property is not inductive without it:

* `PortBreaker` (`IInv`): leaving OPEN is decided by `stateChangedAt`, which
  `cleanupOldRequests` moves forward. While the circuit is open, the time the code
  measures is at most the time since `open()`: `shouldAttemptReset` can only be late.
  `TripNeedsEvidence` follows from the coherence of the counters, as a positive
  failure rate means a positive failure count.
* `BreakerService` (`ServiceInv`): what an object has judged and what still runs under
  it never exceed the calls begun on it, also for objects the map has dropped.
* `PortRegistry` (`RegistryInv`): at each position of a request and its job, how often
  the downstream may have carried the call out (`Allowed`: the request, one per
  attempt, one per crash), and that an answer under way is the caller's own and was
  carried out, as was every call the cache has an entry of.
  `StaleHasCause` is inductive as it stands once a cache entry is the answer to its key.
* `PromiseIsKept` is the refinement of `QueuedCall`, step by step: `ActsWell` says
  that a step leaves every other call's fate as it was and moves one as `Proceeds`
  allows.
* `Binding` (`BindingInv`): a request works with customers that were offered to its
  user, past `verify()` or `create()` with one it has earned and a crash cannot take
  back, past the upsert with one that has a row; while the insert of a created customer
  is awaited, one request awaits it and nothing is bound to it.
* `BindingLimiter` (`EarlyInv`, `CalmInv`): a counter and the bumps that requests still
  owe it never exceed the wrong answers. For the converse, as long as it is calm one
  request is active, and every counter it does not owe is exact or locked.
* `Payment` (`PaymentInv`): what a request has summed was not yet acknowledged when it
  began, unless it was misled; an outdated invoice in the cache was stored by a read
  that overlapped the payment; a debt that is too high has a webhook still to come.
* `Outbox` (`OutboxInv`): the attempts are those counted plus the one under way; an
  event in a processor's hand is claimed by that processor.
* `WriteSide` (`WriteInv`): the uncommitted writer holds the row lock; what a handler
  has read, written, committed and been told fits its position, and an error after a
  write has one of the causes named; a save that was applied left the row at
  its version or beyond, so it is applied once.
* `EventDelivery` (`DeliveryInv`), `Deduplication` (`DedupInv`): what is being marked
  was applied, what is stored was claimed or produced, and without a cause one delivery
  is between its check and its mark.
* `ChatOutbox` (`ChatInv`): what a reader's customer had sent when it asked is stored,
  forwarded or not. `FallbackProvider` (`FallbackInv`): an entry with a ttl has a timer
  armed that is no later than its end.
* `Aggregation` (`FanOutInv`): each settlement is the outcome of its own call, each
  call settles once, and the results are in the order of the calls.
* `PortConfig` (`ConfigInv`): before the service is up only the first file is read,
  after that a read comes from a notice and a notice from an edit; the map in use differs
  from the one a port was registered on only after an edit.
* `ServiceToken` (`SaInv`): a fetch reads the clock before its token is issued, hence
  what is cached is no longer served or outlives `expiresAt` by the margin.
  `PortHttp` (`HttpInv`): a call has one message or one reply under way, and meanwhile
  nothing was told to its caller; a message had no effect yet, a reply is true; a key
  downstream has seen is that of a call it applied.
* `SignIn` (`SignInv`): a row's indexes and ciphertexts are of one phone and one
  address, its id is its own; a live session's cookie was renewed within its time, a
  revoked one's before the revocation.
* `CustomerDirectory` (`DirInv`): the numbers are the table's key; without a race,
  nothing is handed out before the rows are read, then the map has every row and no
  number above the counter, and an insert on its way is alone with its phone.
* `HttpPipeline` (`PipelineInv`): per request, `Story` ties context, trail, span,
  outcome and answer to its stage. Lemmas on frames (`SameStory`, `OthersStories`)
  leave one request to look at per step.
* `CacheService` (`CacheInv`): the entry of a key nothing was lost of holds the number of
  its increments, a key without an entry was not counted, and an `incr()` between its
  read and its write has read that number and overlaps none on its key. `ClaimHolds` is
  about a step: an entry under a claim lasts as long as the claim, or for ever.
* `OwnedData` (`OwnedInv`): every entry of the shared cache belongs to the customer in
  its key, and so does what a caller has in hand. `PagesAreTheList` is arithmetic about
  `TotalPages` and `Slice`.
* `Sessions` (`SessionInv`): the sorted set is in order, hence an event is inserted at
  one place; an undisturbed view still sees the session it read first, and the pages it
  has are how the events begin.
* `RetryService` (`RetryInv`): one wait lies between two attempts, each within the cap,
  no shorter than the backoff while there is no calculator, and the error slept on is one
  `ShouldRetry` sent again.
* `Authorization`, `ErrorResponses`: no state beyond the request or exception examined;
  the property holds of the first and of any other. For `ErrorResponses` that is an
  argument by the class of the exception and, for a code, by its status.

Facts about the operators the proofs share are lemmas of their own: what the methods
of `CircuitBreakerState` preserve (`MethodsTyped`, `MethodsCoherent`, `StateChanges`,
`OpenClock`, `MethodsCount`), what updates of a request's record yield, what a
counted set gains from one step, and that a nonempty set of naturals has a least, a
bounded one a greatest member (`LeastNatural`, `GreatestBounded`). The last two stand
in for induction: they follow from the library's least-element principle (`WFMin`).
`StoreProofs` opens with what `Rank` and `Nth` do at each position (`RankStep`,
`NthPosition`), what a filtered sequence holds and keeps the order of, and what
`InsertAt`, `SubSeq` and `Append` do to a sequence's elements.

What the proofs changed in the models. `PortRegistry`'s `Fate` was a CASE whose arms
overlapped, which TLA+ leaves open and TLC decides by order: the refinement could not be
proved before what the request was told came first. `CustomerDirectory` states the
counter after a hydration by what it is, the greatest number seen, instead of computing
it. The safety part of `QueuedCall` has a name. Filtered sequences were `SelectSeq`,
`SetToSortSeq` or a recursive function; they are now `Selection`'s `Filtered`, and the
session's `ZADD` inserts at a position. Doing so showed that `HistoryIsWhole` is
inductive only with the order of the sorted set, which became its conjunct
`ListedInOrder`. The statuses of HttpExceptions were those of downstreams; the code's
own are fewer (`HttpStatuses`), and for others, a 410 say, the filter's code would not
fit the status.

Only model-checked, and why: liveness (`CircuitRecovers`, `ReadinessRecovers`,
`ShutdownEnds`, `BacklogDrains`, `EntriesSettle`, `LockIsReached`,
`EventuallyAcknowledged`, and the fairness of `KeepsPromise`), as fairness and `ENABLED`
are beyond the prover. Every other property of the passing runs is a theorem.

## Plan

Of the models planned all are written, and every invariant a run checks is proved. What
could follow: the other operations of payment and billing once they do more than pass a
call to a port, and the projections derived from `BaseProjection` once there are any.

## Not modelled

* `NotificationService`, the smart-meter readings and the document downloads answer
  from fixtures or pass one call to a port.
* The Zalo and OAuth provider classes and `createCustomer` of the profile client have
  no caller; the provider endpoints validate and answer.
* Log redaction, the metrics middleware (no module applies it), OpenTelemetry
  exporters, Swagger documents, DTO schemas, table definitions, migrations, seeds.
* better-auth, pg, BullMQ, Redis and the downstream services are external: the models
  contain what the code relies on of them.
* The channel filter of the session service and the pool statistics are read-outs.
* `unregister` of the port registry has no caller.
