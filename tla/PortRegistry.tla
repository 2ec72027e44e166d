---------------------------- MODULE PortRegistry ----------------------------
(***************************************************************************)
(* PortRegistry.execute, executeWithQueue and executeReplay                *)
(* (src/libs/shared/port/port-registry.service.ts) for one port, with the  *)
(* port's read cache, its entry in the FallbackProvider's map and the      *)
(* replay queue of QueueService (src/libs/shared/queue/queue.service.ts).  *)
(* Requests run concurrently; a step ends at an await.                     *)
(*                                                                         *)
(* No caller in src/ passes an idempotencyKey, so the check and the store  *)
(* around the call are left out.  When the circuit opens and closes is     *)
(* PortBreaker's subject: here a failure may open it and time closes it.   *)
(* BullMQ is external: it hands a waiting job to a worker, hands a failed  *)
(* one out again until its attempts are used up, and gives the job of a    *)
(* worker that died back.                                                  *)
(***************************************************************************)
EXTENDS Integers, FiniteSets

CONSTANTS Requests,
          Calls,        \* method and params of the calls made
          CallOf,       \* CallOf[q]: the call request q makes
          Writes,       \* the calls that change something downstream
          Mutations,    \* the calls isMutationMethod is true of
          Policies,     \* queuePolicies to consider
          Cacheable,    \* is the port's cacheTier other than transaction?
          QueueEnabled, \* is REDIS_HOST configured?
          MaxAttempts,  \* QUEUE_MAX_ATTEMPTS
          MaxCrashes,   \* bound on process crashes
          NoCall

ASSUME RegistryAssumption ==
  /\ IsFiniteSet(Requests)
  /\ CallOf \in [Requests -> Calls]
  /\ Writes \subseteq Calls /\ Mutations \subseteq Calls
  /\ Policies \subseteq {"never", "on-cache-miss", "always"}
  /\ Cacheable \in BOOLEAN /\ QueueEnabled \in BOOLEAN
  /\ MaxAttempts \in Nat \ {0} /\ MaxCrashes \in Nat
  /\ NoCall \notin Calls

VARIABLES
  policy,    \* the port's queuePolicy
  req,       \* req[q]: position, the answer in hand, and what the caller got
  cache,     \* cache[c]: the read cache's entry for call c
  fallback,  \* the call whose answer the fallback map holds for the port
  busts,     \* deleteByPattern calls under way
  job,       \* job[q]: the replay job of request q
  open,      \* is the circuit open?
  crashes,
  reached,   \* history: reached[q]: times the downstream carried out q's call
  disturbed  \* history: a stale answer was stored, or a write took effect
             \* without an invalidation

port == <<cache, fallback, busts>>
environment == <<policy, open, crashes>>
history == <<reached, disturbed>>
vars == <<policy, req, port, job, open, crashes, history>>

\* An answer is known by the call it answers, and is stale once a write has
\* taken effect after it was given.
Entry == [call : Calls \cup {NoCall}, stale : BOOLEAN]
NoEntry == [call |-> NoCall, stale |-> FALSE]

Kinds == {"none", "data", "degraded", "error", "queued"}
Request == [pc : {"new", "call", "reply", "set", "enqueue", "done"},
            got : Entry, kind : Kinds]
Job == [state : {"none", "adding", "waiting", "active", "done", "dead"}, attempts : Nat]

TypeOK ==
  /\ policy \in Policies
  /\ req \in [Requests -> Request]
  /\ cache \in [Calls -> Entry]
  /\ fallback \in Calls \cup {NoCall}
  /\ busts \in Nat
  /\ job \in [Requests -> Job]
  /\ open \in BOOLEAN
  /\ crashes \in 0..MaxCrashes
  /\ reached \in [Requests -> Nat] /\ disturbed \in BOOLEAN

Init ==
  /\ policy \in Policies
  /\ req = [q \in Requests |-> [pc |-> "new", got |-> NoEntry, kind |-> "none"]]
  /\ cache = [c \in Calls |-> NoEntry]
  /\ fallback = NoCall
  /\ busts = 0
  /\ job = [q \in Requests |-> [state |-> "none", attempts |-> 0]]
  /\ open = FALSE
  /\ crashes = 0
  /\ reached = [q \in Requests |-> 0] /\ disturbed = FALSE

At(q, l) == req[q].pc = l
IsWrite(q) == CallOf[q] \in Writes

\* The method's first letters are those of a listed verb.  acknowledge-alert and
\* gis-triage are writes whose names begin with none.
IsMutationMethod(q) == CallOf[q] \in Mutations
Missed(q) == IsWrite(q) /\ ~IsMutationMethod(q)

ShouldCache(q) == Cacheable /\ ~IsMutationMethod(q)

\* The request ends with an answer of kind k; e: the data, if it has any.
Return(q, k, e) == req' = [req EXCEPT ![q] = [pc |-> "done", got |-> e, kind |-> k]]

-----------------------------------------------------------------------------
(* execute *)

Hit(q) ==
  /\ At(q, "new")
  /\ ShouldCache(q)
  /\ cache[CallOf[q]] # NoEntry
  /\ Return(q, "data", cache[CallOf[q]])
  /\ UNCHANGED <<environment, port, job, history>>

\* No entry, or a Redis error, which get() turns into null.
Begin(q) ==
  /\ At(q, "new")
  /\ ~open
  /\ req' = [req EXCEPT ![q].pc = "call"]
  /\ UNCHANGED <<environment, port, job, history>>

\* A write carried out downstream: answers given before it are stale now.
Outdate(entry) == IF entry = NoEntry THEN entry ELSE [entry EXCEPT !.stale = TRUE]
Outdated(r) == [r EXCEPT !.got = IF r.kind = "none" THEN Outdate(@) ELSE @]

Serve(q) ==
  /\ At(q, "call")
  /\ reached' = [reached EXCEPT ![q] = @ + 1]
  /\ LET answered == [req[q] EXCEPT !.pc = "reply",
                                    !.got = [call |-> CallOf[q], stale |-> FALSE]]
     IN  req' = [p \in Requests |-> IF p = q THEN answered
                                    ELSE IF IsWrite(q) THEN Outdated(req[p]) ELSE req[p]]
  /\ cache' = [c \in Calls |-> IF IsWrite(q) THEN Outdate(cache[c]) ELSE cache[c]]
  /\ UNCHANGED <<environment, fallback, busts, job, disturbed>>

\* Mutant: a write leaves the read cache alone.
ReplyKeepsCache(q) ==
  /\ At(q, "reply")
  /\ IF ShouldCache(q)
     THEN req' = [req EXCEPT ![q].pc = "set"] /\ UNCHANGED fallback
     ELSE Return(q, "data", req[q].got) /\ fallback' = CallOf[q]
  /\ UNCHANGED <<environment, cache, busts, job, history>>

\* The adapter returns.  A recognised write starts the invalidation without
\* awaiting it.
Reply(q) ==
  /\ At(q, "reply")
  /\ IF ShouldCache(q)
     THEN req' = [req EXCEPT ![q].pc = "set"] /\ UNCHANGED fallback
     ELSE Return(q, "data", req[q].got) /\ fallback' = CallOf[q]
  /\ busts' = IF IsMutationMethod(q) THEN busts + 1 ELSE busts
  /\ UNCHANGED <<environment, cache, job, history>>

\* cacheService.set, whose failure is caught, then setCached.
SetCache(q) ==
  /\ At(q, "set")
  /\ \/ /\ cache' = [cache EXCEPT ![CallOf[q]] = req[q].got]
        /\ disturbed' = (disturbed \/ req[q].got.stale)
     \/ UNCHANGED <<cache, disturbed>>
  /\ fallback' = CallOf[q]
  /\ Return(q, "data", req[q].got)
  /\ UNCHANGED <<environment, busts, job, reached>>

-----------------------------------------------------------------------------
(* executeWithQueue *)

Adding == [state |-> "adding", attempts |-> 0]

\* Mutant: the fallback's answer is not marked degraded.
FallbackUnmarked(q) ==
  IF fallback = NoCall THEN Return(q, "error", NoEntry)
  ELSE Return(q, "data", [call |-> fallback, stale |-> FALSE])

\* The cache tier: the port's last answer, or PortFallbackException.
ExecuteFallback(q) ==
  IF fallback = NoCall THEN Return(q, "error", NoEntry)
  ELSE Return(q, "degraded", [call |-> fallback, stale |-> FALSE])

ExecuteWithQueue(q) ==
  CASE policy = "never" -> ExecuteFallback(q) /\ UNCHANGED job
    [] policy = "on-cache-miss" /\ fallback # NoCall ->
         ExecuteFallback(q) /\ job' = [job EXCEPT ![q] = Adding]
    [] OTHER ->
         /\ req' = [req EXCEPT ![q].pc = "enqueue", ![q].got = NoEntry]
         /\ job' = [job EXCEPT ![q] = Adding]

\* The circuit is open and not due for a probe.
MeetOpen(q) ==
  /\ At(q, "new") /\ open
  /\ ExecuteWithQueue(q)
  /\ UNCHANGED <<environment, port, history>>

\* The adapter throws: unreachable, timed out (the call may have been carried
\* out), 5xx or 4xx alike.
CallFails(q) ==
  /\ req[q].pc \in {"call", "reply"}
  /\ open' \in BOOLEAN
  /\ ExecuteWithQueue(q)
  /\ disturbed' = (disturbed \/ (At(q, "reply") /\ IsWrite(q)))
  /\ UNCHANGED <<policy, crashes, port, reached>>

\* Mutant: the caller is told 202 before the queue has taken the job.
QueuedBeforeAdded(q) ==
  /\ job[q].state = "adding"
  /\ job' = [job EXCEPT ![q].state = "none"]
  /\ IF At(q, "enqueue") THEN Return(q, "queued", NoEntry) ELSE UNCHANGED req
  /\ UNCHANGED <<environment, port, history>>

\* queue.add succeeds; PortQueuedException (HTTP 202) if the caller waits for it.
Added(q) ==
  /\ job[q].state = "adding" /\ QueueEnabled
  /\ job' = [job EXCEPT ![q].state = "waiting"]
  /\ IF At(q, "enqueue") THEN Return(q, "queued", NoEntry) ELSE UNCHANGED req
  /\ UNCHANGED <<environment, port, history>>

\* No queue, or Redis fails: the waiting caller gets the error.
AddFails(q) ==
  /\ job[q].state = "adding"
  /\ job' = [job EXCEPT ![q].state = "none"]
  /\ IF At(q, "enqueue") THEN Return(q, "error", NoEntry) ELSE UNCHANGED req
  /\ UNCHANGED <<environment, port, history>>

-----------------------------------------------------------------------------
(* the worker: executeReplay on the live adapter, past the circuit *)

TakeJob(q) ==
  /\ job[q].state = "waiting"
  /\ job' = [job EXCEPT ![q].state = "active"]
  /\ UNCHANGED <<environment, req, port, history>>

\* The replay's call is carried out: no invalidation follows it.
Replayed(q) ==
  /\ reached' = [reached EXCEPT ![q] = @ + 1]
  /\ disturbed' = (disturbed \/ IsWrite(q))
  /\ cache' = [c \in Calls |-> IF IsWrite(q) THEN Outdate(cache[c]) ELSE cache[c]]
  /\ req' = [p \in Requests |-> IF IsWrite(q) THEN Outdated(req[p]) ELSE req[p]]

ReplayOk(q) ==
  /\ job[q].state = "active"
  /\ Replayed(q)
  /\ fallback' = CallOf[q]
  /\ job' = [job EXCEPT ![q].state = "done"]
  /\ UNCHANGED <<environment, busts>>

\* BullMQ counts the attempt; the last one leaves the job as the DLQ record.
AfterAttempt(j) ==
  [state |-> IF j.attempts + 1 >= MaxAttempts THEN "dead" ELSE "waiting",
   attempts |-> j.attempts + 1]

ReplayFails(q) ==
  /\ job[q].state = "active"
  /\ Replayed(q) \/ UNCHANGED <<reached, disturbed, cache, req>>
  /\ job' = [job EXCEPT ![q] = AfterAttempt(job[q])]
  /\ UNCHANGED <<environment, fallback, busts>>

-----------------------------------------------------------------------------
(* the environment *)

\* A deleteByPattern ends, or fails.
Bust ==
  /\ busts > 0
  /\ busts' = busts - 1
  /\ \/ cache' = [c \in Calls |-> NoEntry] /\ UNCHANGED disturbed
     \/ disturbed' = TRUE /\ UNCHANGED cache
  /\ UNCHANGED <<environment, req, fallback, job, reached>>

Expire(c) ==
  /\ cache[c] # NoEntry
  /\ cache' = [cache EXCEPT ![c] = NoEntry]
  /\ UNCHANGED <<environment, req, fallback, busts, job, history>>

CircuitCloses == open /\ open' = FALSE /\ UNCHANGED <<policy, crashes, req, port, job, history>>

\* The process dies: requests, the fallback map and invalidations under way are
\* gone; Redis keeps the jobs, and a job a worker had is handed out again, its
\* call perhaps carried out.
Crash ==
  /\ crashes < MaxCrashes
  /\ crashes' = crashes + 1
  /\ req' = [q \in Requests |-> IF At(q, "done") THEN req[q]
                                ELSE [pc |-> "done", got |-> NoEntry, kind |-> "error"]]
  /\ fallback' = NoCall /\ busts' = 0 /\ open' = FALSE
  /\ job' = [q \in Requests |->
               CASE job[q].state = "adding" -> [job[q] EXCEPT !.state = "none"]
                 [] job[q].state = "active" -> [job[q] EXCEPT !.state = "waiting"]
                 [] OTHER -> job[q]]
  /\ \E Q \in SUBSET {q \in Requests : job[q].state = "active"} :
        /\ reached' = [q \in Requests |-> IF q \in Q THEN reached[q] + 1 ELSE reached[q]]
        /\ cache' = [c \in Calls |-> IF \E q \in Q : IsWrite(q)
                                     THEN Outdate(cache[c]) ELSE cache[c]]
  /\ disturbed' = TRUE
  /\ UNCHANGED policy

-----------------------------------------------------------------------------
Next ==
  \/ \E q \in Requests :
        \/ Hit(q) \/ Begin(q) \/ Serve(q) \/ Reply(q) \/ SetCache(q)
        \/ MeetOpen(q) \/ CallFails(q) \/ Added(q) \/ AddFails(q)
        \/ TakeJob(q) \/ ReplayOk(q) \/ ReplayFails(q)
  \/ \E c \in Calls : Expire(c)
  \/ Bust \/ CircuitCloses \/ Crash

Spec == Init /\ [][Next]_vars

\* Workers take jobs, and a replay ends one way or the other (the HTTP client
\* aborts a call at the port's timeout).
Fairness ==
  \A q \in Requests : WF_vars(TakeJob(q)) /\ WF_vars(ReplayOk(q) \/ ReplayFails(q))

FairSpec == Spec /\ Fairness

-----------------------------------------------------------------------------
CarriedOut(c) == \E q \in Requests : CallOf[q] = c /\ reached[q] > 0

\* An answer that is not marked degraded is the downstream's answer to the very
\* call the caller made, carried out for this request or for another that made the
\* same call; one a mutation method gets was carried out for itself.  (A write
\* whose name isMutationMethod misses may be answered from the read cache: it is
\* the repeat of a call carried out, and is not carried out again.)
OwnAnswer ==
  \A q \in Requests : req[q].kind = "data" =>
    /\ req[q].got.call = CallOf[q]
    /\ CarriedOut(CallOf[q])
    /\ IsMutationMethod(q) => reached[q] > 0

WriteMissed == \E q \in Requests : Missed(q) /\ reached[q] > 0

\* The read cache is stale only with a cause: the answer of a write, or the
\* invalidation it starts, is still under way; or a read that overlapped a write
\* stored its answer late, an invalidation failed, or a write took effect that
\* starts none (timed out, replayed, caught by a crash, or under a name that
\* isMutationMethod misses).
StaleHasCause ==
  (\E c \in Calls : cache[c].stale) =>
    \/ busts > 0 \/ disturbed
    \/ \E q \in Requests : IsWrite(q) /\ At(q, "reply")
    \/ WriteMissed

\* A call is carried out at most once by the request itself and once per attempt
\* of its job; only a crash under a worker adds one (executeWithQueue, attempts).
ReachedBounded ==
  \A q \in Requests : reached[q] <= 1 + MaxAttempts + crashes

\* The fate of a request as QueuedCall tells it.
Fate(q) ==
  IF req[q].kind # "queued" THEN req[q].kind
  ELSE CASE job[q].state = "done" -> IF reached[q] > 0 THEN "applied" ELSE "lost"
         [] job[q].state = "dead" -> "dead"
         [] job[q].state \in {"waiting", "active"} -> "queued"
         [] OTHER -> "lost"

Promise == INSTANCE QueuedCall WITH status <- [q \in Requests |-> Fate(q)]

\* Under every queuePolicy, with crashes of the process and of its workers,
\* requests are answered once, and a call answered 202 is never forgotten: its
\* job carries it out or ends as a dead letter after its attempts.
KeepsPromise == Promise!Spec

\* A caller of a port gets the answer to its own call, which is carried out a
\* bounded number of times.
PortSafe == TypeOK /\ OwnAnswer /\ ReachedBounded
=============================================================================
