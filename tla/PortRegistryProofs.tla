------------------------- MODULE PortRegistryProofs -------------------------
(***************************************************************************)
(* Proofs about PortRegistry for every set of requests and calls, every    *)
(* queuePolicy, number of attempts and of crashes: callers get the answer  *)
(* to their own call, a call is carried out a bounded number of times, the *)
(* read cache is stale only with a cause, and every step of the registry   *)
(* is a step of QueuedCall or none.                                        *)
(***************************************************************************)
EXTENDS PortRegistry, TLAPS

Queued == {"waiting", "active", "done", "dead"}

\* How often the downstream may have carried out the call of a request: once by
\* the request itself, once per attempt of its job, once per crash.
Allowed(x, j, crashed) ==
  (IF x.pc \in {"new", "call"} THEN 0 ELSE 1) + j.attempts
    + (IF j.state = "done" THEN 1 ELSE 0) + crashed

\* A request q in position x, its job j, and the n times its call was carried out.
Consistent(q, x, j, n, crashed) ==
  /\ x.kind = "none" <=> x.pc # "done"
  /\ x.pc \in {"new", "call", "reply", "set"} => j.state = "none"
  /\ x.pc = "enqueue" => j.state = "adding"
  /\ x.pc = "set" => ~IsMutationMethod(q)
  /\ x.pc \in {"reply", "set"} => x.got.call = CallOf[q] /\ n > 0
  /\ x.kind = "data" => x.got.call = CallOf[q] /\ (IsMutationMethod(q) => n > 0)
  /\ x.kind = "queued" => j.state \in Queued
  /\ j.state = "done" => n > 0
  /\ j.attempts <= MaxAttempts
  /\ j.state \in {"none", "adding"} => j.attempts = 0
  /\ j.state \in {"waiting", "active", "done"} => j.attempts < MaxAttempts
  /\ n <= Allowed(x, j, crashed)

RequestsConsistent == \A q \in Requests : Consistent(q, req[q], job[q], reached[q], crashes)

\* An entry of the read cache answers the call it is stored under.
CacheOwn == \A c \in Calls : cache[c] = NoEntry \/ cache[c].call = c

RegistryInv == TypeOK /\ RequestsConsistent /\ CacheOwn /\ StaleHasCause

\* The fate of a consistent request, and how QueuedCall lets it go on.
Told(x, j) ==
  IF x.kind # "queued" THEN x.kind
  ELSE IF j.state = "done" THEN "applied"
  ELSE IF j.state = "dead" THEN "dead" ELSE "queued"

Proceeds(s, t) ==
  \/ s = t
  \/ s = "none" /\ t \in {"data", "degraded", "error", "queued"}
  \/ s = "queued" /\ t \in {"applied", "dead"}

\* What an outdated answer keeps.
Alike(x, y) == x.pc = y.pc /\ x.kind = y.kind /\ x.got.call = y.got.call

\* A step of request q, or of its job, that leaves the others in their positions,
\* q consistent, and its fate as it was or decided.
ActsWell(q) ==
  /\ req' \in [Requests -> Request] /\ job' \in [Requests -> Job]
  /\ reached' \in [Requests -> Nat] /\ crashes' = crashes
  /\ \A p \in Requests \ {q} :
       Alike(req'[p], req[p]) /\ job'[p] = job[p] /\ reached'[p] = reached[p]
  /\ Consistent(q, req'[q], job'[q], reached'[q], crashes)
  /\ Proceeds(Told(req[q], job[q]), Told(req'[q], job'[q]))

-----------------------------------------------------------------------------
(* Answers, entries and jobs *)

\* The constants' types.
LEMMA CallTyped ==
  /\ \A q \in Requests : CallOf[q] \in Calls /\ CallOf[q] # NoCall
  /\ MaxAttempts \in Nat /\ MaxAttempts > 0 /\ MaxCrashes \in Nat
  BY RegistryAssumption DEF RegistryAssumption

\* A request and its job, typed and consistent.
LEMMA Facts ==
  ASSUME RegistryInv, NEW q \in Requests
  PROVE  /\ req[q] \in Request /\ req[q].got \in Entry /\ req[q].kind \in Kinds
         /\ job[q] \in Job /\ job[q].attempts \in Nat /\ reached[q] \in Nat /\ crashes \in Nat
         /\ Consistent(q, req[q], job[q], reached[q], crashes)
  BY CallTyped DEF RegistryInv, TypeOK, RequestsConsistent, Request, Job

\* Outdate marks an answer stale and keeps whose answer it is.
LEMMA OutdateFacts ==
  ASSUME NEW e \in Entry
  PROVE  /\ Outdate(e) \in Entry /\ Outdate(e).call = e.call
         /\ Outdate(e) = NoEntry <=> e = NoEntry
<1>1. NoEntry \in Entry /\ NoEntry.stale = FALSE
  BY DEF NoEntry, Entry
<1>2. PICK d : d = [e EXCEPT !.stale = TRUE]
  OBVIOUS
<1>3. d \in Entry /\ d.call = e.call /\ d.stale = TRUE
  BY <1>2 DEF Entry
<1> QED BY <1>1, <1>2, <1>3 DEF Outdate

\* A write that is carried out leaves the other requests in their positions.
LEMMA OutdatedFacts ==
  ASSUME NEW x \in Request
  PROVE  Outdated(x) \in Request /\ Alike(Outdated(x), x)
<1>1. x.got \in Entry
  BY DEF Request
<1>2. PICK e : e = IF x.kind = "none" THEN Outdate(x.got) ELSE x.got
  OBVIOUS
<1>3. e \in Entry /\ e.call = x.got.call
  BY <1>1, <1>2, OutdateFacts
<1>4. PICK y : y = [x EXCEPT !.got = e]
  OBVIOUS
<1>5. y \in Request /\ y.pc = x.pc /\ y.kind = x.kind /\ y.got = e
  BY <1>3, <1>4 DEF Request
<1>6. Outdated(x) = y
  BY <1>2, <1>4 DEF Outdated
<1> QED BY <1>3, <1>5, <1>6 DEF Alike

\* A step of one request that is not a call carried out.
LEMMA MoveActs ==
  ASSUME RegistryInv, NEW q \in Requests, NEW x \in Request, NEW j \in Job,
         req' = [req EXCEPT ![q] = x], job' = [job EXCEPT ![q] = j],
         reached' = reached, crashes' = crashes,
         Consistent(q, x, j, reached[q], crashes),
         Proceeds(Told(req[q], job[q]), Told(x, j))
  PROVE  ActsWell(q)
<1>1. /\ req \in [Requests -> Request] /\ job \in [Requests -> Job]
      /\ reached \in [Requests -> Nat]
  BY DEF RegistryInv, TypeOK
<1>2. req'[q] = x /\ job'[q] = j /\ reached'[q] = reached[q]
  BY <1>1
<1>3. \A p \in Requests \ {q} :
        req'[p] = req[p] /\ job'[p] = job[p] /\ reached'[p] = reached[p]
  BY <1>1
<1>4. req' \in [Requests -> Request] /\ job' \in [Requests -> Job]
  BY <1>1
<1> QED BY <1>1, <1>2, <1>3, <1>4 DEF ActsWell, Alike

\* The caller gets an answer that is not a promise.
LEMMA ReturnActs ==
  ASSUME RegistryInv, NEW q \in Requests, req[q].pc # "done",
         NEW k \in {"data", "degraded", "error"}, NEW e \in Entry, Return(q, k, e),
         k = "data" => e.call = CallOf[q] /\ (IsMutationMethod(q) => reached[q] > 0),
         NEW j \in Job, job' = [job EXCEPT ![q] = j],
         j.state \in {"none", "adding"}, j.attempts = 0,
         reached' = reached, crashes' = crashes
  PROVE  ActsWell(q)
<1>1. PICK x : x = [pc |-> "done", got |-> e, kind |-> k]
  OBVIOUS
<1>2. x \in Request /\ x.pc = "done" /\ x.kind = k /\ x.got = e
  BY <1>1 DEF Request, Kinds
<1>3. req' = [req EXCEPT ![q] = x]
  BY <1>1 DEF Return
<1>4. /\ req[q].kind = "none" /\ job[q].state \in {"none", "adding"} /\ job[q].attempts = 0
      /\ reached[q] \in Nat /\ crashes \in Nat /\ reached[q] <= Allowed(req[q], job[q], crashes)
  BY Facts DEF Consistent, Request
<1>5. reached[q] <= Allowed(x, j, crashes)
  BY <1>2, <1>4 DEF Allowed
<1>6. Consistent(q, x, j, reached[q], crashes)
  BY <1>2, <1>5, CallTyped DEF Consistent
<1>7. Proceeds(Told(req[q], job[q]), Told(x, j))
  BY <1>2, <1>4 DEF Proceeds, Told
<1> QED BY <1>2, <1>3, <1>6, <1>7, MoveActs

\* The request goes on, and its job stays as it is.
LEMMA GoesOnActs ==
  ASSUME RegistryInv, NEW q \in Requests, NEW x \in Request,
         req' = [req EXCEPT ![q] = x], UNCHANGED <<job, reached, crashes>>,
         x.kind = req[q].kind, req[q].pc # "done",
         Consistent(q, x, job[q], reached[q], crashes)
  PROVE  ActsWell(q)
<1>1. job' = [job EXCEPT ![q] = job[q]] /\ job[q] \in Job
  BY DEF RegistryInv, TypeOK
<1>2. Proceeds(Told(req[q], job[q]), Told(x, job[q]))
  BY DEF Proceeds, Told
<1> QED BY <1>1, <1>2, MoveActs

-----------------------------------------------------------------------------
(* Each step of a request or a worker *)

LEMMA HitActs == ASSUME RegistryInv, NEW q \in Requests, Hit(q) PROVE ActsWell(q)
<1>1. /\ req[q].pc = "new" /\ ShouldCache(q) /\ cache[CallOf[q]] # NoEntry
      /\ Return(q, "data", cache[CallOf[q]])
      /\ job' = job /\ reached' = reached /\ crashes' = crashes
  BY DEF Hit, At, environment, history
<1>2. cache[CallOf[q]] \in Entry /\ cache[CallOf[q]].call = CallOf[q]
  BY <1>1, CallTyped DEF RegistryInv, TypeOK, CacheOwn
<1>3. /\ job[q] \in Job /\ job[q].state \in {"none", "adding"} /\ job[q].attempts = 0
      /\ job' = [job EXCEPT ![q] = job[q]]
  BY <1>1, Facts DEF Consistent, RegistryInv, TypeOK
<1> QED BY <1>1, <1>2, <1>3, ReturnActs DEF ShouldCache

\* execute() begins.
LEMMA BeginActs == ASSUME RegistryInv, NEW q \in Requests, Begin(q) PROVE ActsWell(q)
<1>1. PICK x : x = [req[q] EXCEPT !.pc = "call"]
  OBVIOUS
<1>2. /\ req[q].pc = "new" /\ req' = [req EXCEPT ![q] = x]
      /\ job' = job /\ reached' = reached /\ crashes' = crashes
  BY <1>1 DEF Begin, At, environment, history
<1>3. x \in Request /\ x.pc = "call" /\ x.kind = req[q].kind /\ x.got = req[q].got
  BY <1>1, Facts DEF Request
<1>4. Consistent(q, x, job[q], reached[q], crashes)
  BY <1>2, <1>3, Facts DEF Consistent, Allowed
<1> QED BY <1>2, <1>3, <1>4, GoesOnActs

\* The downstream carries the call out.
LEMMA ServeActs == ASSUME RegistryInv, NEW q \in Requests, Serve(q) PROVE ActsWell(q)
<1>1. PICK x : x = [req[q] EXCEPT !.pc = "reply", !.got = [call |-> CallOf[q], stale |-> FALSE]]
  OBVIOUS
<1>2. /\ req[q].pc = "call"
      /\ reached' = [reached EXCEPT ![q] = reached[q] + 1]
      /\ req' = [p \in Requests |-> IF p = q THEN x
                                    ELSE IF IsWrite(q) THEN Outdated(req[p]) ELSE req[p]]
      /\ job' = job /\ crashes' = crashes
  BY <1>1 DEF Serve, At, environment, TypeOK, RegistryInv
<1>3. [call |-> CallOf[q], stale |-> FALSE] \in Entry
  BY CallTyped DEF Entry
<1>4. /\ x \in Request /\ x.pc = "reply" /\ x.kind = req[q].kind
      /\ x.got.call = CallOf[q]
  BY <1>1, <1>3, Facts DEF Request
<1>5. /\ req \in [Requests -> Request] /\ job \in [Requests -> Job]
      /\ reached \in [Requests -> Nat]
  BY DEF RegistryInv, TypeOK
<1>6. \A p \in Requests \ {q} : /\ req'[p] \in Request /\ Alike(req'[p], req[p])
                                /\ job'[p] = job[p] /\ reached'[p] = reached[p]
  BY <1>2, <1>5, OutdatedFacts DEF Alike
<1>7. req'[q] = x /\ reached'[q] = reached[q] + 1 /\ job'[q] = job[q]
  BY <1>2, <1>5
<1>8. /\ req' \in [Requests -> Request] /\ job' \in [Requests -> Job]
      /\ reached' \in [Requests -> Nat]
  <2>1. \A p \in Requests : req'[p] \in Request
    BY <1>4, <1>6, <1>7
  <2>2. req' = [p \in Requests |-> req'[p]]
    BY <1>2
  <2>3. reached[q] + 1 \in Nat
    BY <1>5
  <2> QED BY <1>2, <1>5, <2>1, <2>2, <2>3
<1>9. Consistent(q, x, job[q], reached[q] + 1, crashes)
  BY <1>2, <1>4, Facts DEF Consistent, Allowed
<1>10. Proceeds(Told(req[q], job[q]), Told(x, job[q]))
  BY <1>4 DEF Proceeds, Told
<1> QED BY <1>2, <1>6, <1>7, <1>8, <1>9, <1>10 DEF ActsWell

\* The answer of the downstream arrives.
LEMMA ReplyActs == ASSUME RegistryInv, NEW q \in Requests, Reply(q) PROVE ActsWell(q)
<1>1. /\ req[q].pc = "reply" /\ job' = job /\ reached' = reached /\ crashes' = crashes
  BY DEF Reply, At, environment, history
<1>2. CASE ShouldCache(q)
  <2>1. PICK x : x = [req[q] EXCEPT !.pc = "set"]
    OBVIOUS
  <2>2. req' = [req EXCEPT ![q] = x]
    BY <1>2, <2>1 DEF Reply
  <2>3. x \in Request /\ x.pc = "set" /\ x.kind = req[q].kind /\ x.got = req[q].got
    BY <2>1, Facts DEF Request
  <2>4. Consistent(q, x, job[q], reached[q], crashes)
    BY <1>1, <1>2, <2>3, Facts DEF Consistent, Allowed, ShouldCache
  <2> QED BY <1>1, <2>2, <2>3, <2>4, GoesOnActs
<1>3. CASE ~ShouldCache(q)
  <2>1. Return(q, "data", req[q].got)
    BY <1>3 DEF Reply
  <2>2. /\ req[q].got \in Entry /\ req[q].got.call = CallOf[q] /\ reached[q] > 0
        /\ job[q] \in Job /\ job[q].state \in {"none", "adding"} /\ job[q].attempts = 0
        /\ job' = [job EXCEPT ![q] = job[q]]
    BY <1>1, Facts DEF Consistent, RegistryInv, TypeOK
  <2> QED BY <1>1, <2>1, <2>2, ReturnActs
<1> QED BY <1>2, <1>3

\* The answer of a read is stored, whatever happened meanwhile.
LEMMA SetCacheActs == ASSUME RegistryInv, NEW q \in Requests, SetCache(q) PROVE ActsWell(q)
<1>1. /\ req[q].pc = "set" /\ job' = job /\ reached' = reached /\ crashes' = crashes
      /\ Return(q, "data", req[q].got)
  BY DEF SetCache, At, environment
<1>2. /\ req[q].got \in Entry /\ req[q].got.call = CallOf[q] /\ reached[q] > 0
      /\ job[q] \in Job /\ job[q].state \in {"none", "adding"} /\ job[q].attempts = 0
      /\ job' = [job EXCEPT ![q] = job[q]]
  BY <1>1, Facts DEF Consistent, RegistryInv, TypeOK
<1> QED BY <1>1, <1>2, ReturnActs

\* executeFallback: a degraded answer or the error.
LEMMA FallbackActs ==
  ASSUME RegistryInv, NEW q \in Requests, req[q].pc \in {"new", "call", "reply"},
         ExecuteFallback(q), NEW j \in Job, job' = [job EXCEPT ![q] = j],
         j.state \in {"none", "adding"}, j.attempts = 0, reached' = reached, crashes' = crashes
  PROVE  ActsWell(q)
<1>1. NoEntry \in Entry /\ [call |-> fallback, stale |-> FALSE] \in Entry
  BY DEF NoEntry, Entry, RegistryInv, TypeOK
<1> QED BY <1>1, ReturnActs DEF ExecuteFallback

\* executeWithQueue: the fallback's answer, with the call added to the queue or
\* not.
LEMMA QueueActs ==
  ASSUME RegistryInv, NEW q \in Requests, req[q].pc \in {"new", "call", "reply"},
         ExecuteWithQueue(q), reached' = reached, crashes' = crashes
  PROVE  ActsWell(q)
<1>1. /\ job[q] \in Job /\ job[q].state = "none" /\ job[q].attempts = 0
      /\ Adding \in Job /\ Adding.state = "adding" /\ Adding.attempts = 0
  BY Facts DEF Consistent, Adding, Job
<1>2. CASE ExecuteFallback(q) /\ job' = job
  <2>1. job' = [job EXCEPT ![q] = job[q]]
    BY <1>2 DEF RegistryInv, TypeOK
  <2> QED BY <1>1, <1>2, <2>1, FallbackActs
<1>3. CASE ExecuteFallback(q) /\ job' = [job EXCEPT ![q] = Adding]
  BY <1>1, <1>3, FallbackActs
<1>4. CASE /\ req' = [req EXCEPT ![q].pc = "enqueue", ![q].got = NoEntry]
           /\ job' = [job EXCEPT ![q] = Adding]
  <2>1. PICK x : x = [req[q] EXCEPT !.pc = "enqueue", !.got = NoEntry]
    OBVIOUS
  <2>2. req' = [req EXCEPT ![q] = x]
    BY <1>4, <2>1
  <2>3. NoEntry \in Entry
    BY DEF NoEntry, Entry
  <2>4. x \in Request /\ x.pc = "enqueue" /\ x.kind = req[q].kind
    BY <2>1, <2>3, Facts DEF Request
  <2>5. reached[q] \in Nat /\ crashes \in Nat /\ Consistent(q, req[q], job[q], reached[q], crashes)
    BY Facts
  <2>6. reached[q] <= Allowed(x, Adding, crashes)
    BY <1>1, <2>4, <2>5 DEF Consistent, Allowed
  <2>7. Consistent(q, x, Adding, reached[q], crashes)
    BY <1>1, <2>4, <2>5, <2>6, CallTyped DEF Consistent
  <2>8. Proceeds(Told(req[q], job[q]), Told(x, Adding))
    BY <2>4, <2>5 DEF Proceeds, Told, Consistent
  <2> QED BY <1>1, <1>4, <2>2, <2>4, <2>7, <2>8, MoveActs
<1> QED BY <1>2, <1>3, <1>4 DEF ExecuteWithQueue

\* The circuit is open: the call goes to the fallback and the queue.
LEMMA MeetOpenActs == ASSUME RegistryInv, NEW q \in Requests, MeetOpen(q) PROVE ActsWell(q)
<1>1. req[q].pc = "new" /\ ExecuteWithQueue(q) /\ reached' = reached /\ crashes' = crashes
  BY DEF MeetOpen, At, environment, history
<1> QED BY <1>1, QueueActs

\* The call fails, before or after the downstream carried it out.
LEMMA CallFailsActs == ASSUME RegistryInv, NEW q \in Requests, CallFails(q) PROVE ActsWell(q)
<1>1. /\ req[q].pc \in {"call", "reply"} /\ ExecuteWithQueue(q)
      /\ reached' = reached /\ crashes' = crashes
  BY DEF CallFails
<1> QED BY <1>1, QueueActs

\* The queue takes the job: a waiting caller is promised its outcome.
LEMMA AddedActs == ASSUME RegistryInv, NEW q \in Requests, Added(q) PROVE ActsWell(q)
<1>1. PICK j : j = [job[q] EXCEPT !.state = "waiting"]
  OBVIOUS
<1>2. /\ job[q].state = "adding" /\ job' = [job EXCEPT ![q] = j]
      /\ reached' = reached /\ crashes' = crashes
  BY <1>1 DEF Added, environment, history
<1>3. j \in Job /\ j.state = "waiting" /\ j.attempts = job[q].attempts
  BY <1>1, Facts DEF Job
<1>4. /\ req[q] \in Request /\ job[q].attempts = 0 /\ reached[q] \in Nat /\ crashes \in Nat
      /\ Consistent(q, req[q], job[q], reached[q], crashes)
  BY <1>2, Facts DEF Consistent
<1>5. CASE req[q].pc = "enqueue"
  <2>1. PICK x : x = [pc |-> "done", got |-> NoEntry, kind |-> "queued"]
    OBVIOUS
  <2>2. req' = [req EXCEPT ![q] = x]
    BY <1>5, <2>1 DEF Added, At, Return
  <2>3. x \in Request /\ x.pc = "done" /\ x.kind = "queued"
    BY <2>1 DEF Request, Kinds, NoEntry, Entry
  <2>4. reached[q] <= Allowed(x, j, crashes)
    BY <1>2, <1>3, <1>4, <1>5, <2>3 DEF Allowed, Consistent
  <2>5. Consistent(q, x, j, reached[q], crashes)
    BY <1>3, <1>4, <2>3, <2>4, CallTyped DEF Consistent, Queued
  <2>6. Proceeds(Told(req[q], job[q]), Told(x, j))
    BY <1>3, <1>4, <1>5, <2>3 DEF Proceeds, Told, Consistent
  <2> QED BY <1>2, <1>3, <2>2, <2>3, <2>5, <2>6, MoveActs
<1>6. CASE req[q].pc # "enqueue"
  <2>1. req' = [req EXCEPT ![q] = req[q]]
    BY <1>6 DEF Added, At, RegistryInv, TypeOK
  <2>2. reached[q] <= Allowed(req[q], j, crashes)
    BY <1>2, <1>3, <1>4 DEF Allowed, Consistent
  <2>3. Consistent(q, req[q], j, reached[q], crashes)
    BY <1>2, <1>3, <1>4, <1>6, <2>2, CallTyped DEF Consistent, Queued
  <2>4. Proceeds(Told(req[q], job[q]), Told(req[q], j))
    BY <1>2, <1>4 DEF Proceeds, Told, Consistent, Queued
  <2> QED BY <1>2, <1>3, <1>4, <2>1, <2>3, <2>4, MoveActs
<1> QED BY <1>5, <1>6

\* The queue does not take the job: a caller who waits for it gets the error.
LEMMA AddFailsActs == ASSUME RegistryInv, NEW q \in Requests, AddFails(q) PROVE ActsWell(q)
<1>1. PICK j : j = [job[q] EXCEPT !.state = "none"]
  OBVIOUS
<1>2. /\ job[q].state = "adding" /\ job' = [job EXCEPT ![q] = j]
      /\ reached' = reached /\ crashes' = crashes
  BY <1>1 DEF AddFails, environment, history
<1>3. j \in Job /\ j.state = "none" /\ j.attempts = job[q].attempts
  BY <1>1, Facts DEF Job
<1>4. /\ req[q] \in Request /\ job[q].attempts = 0 /\ reached[q] \in Nat /\ crashes \in Nat
      /\ Consistent(q, req[q], job[q], reached[q], crashes)
  BY <1>2, Facts DEF Consistent
<1>5. CASE req[q].pc = "enqueue"
  <2>1. Return(q, "error", NoEntry) /\ NoEntry \in Entry
    BY <1>5 DEF AddFails, At, NoEntry, Entry
  <2> QED BY <1>2, <1>3, <1>4, <1>5, <2>1, ReturnActs
<1>6. CASE req[q].pc # "enqueue"
  <2>1. req' = [req EXCEPT ![q] = req[q]]
    BY <1>6 DEF AddFails, At, RegistryInv, TypeOK
  <2>2. reached[q] <= Allowed(req[q], j, crashes)
    BY <1>2, <1>3, <1>4 DEF Allowed, Consistent
  <2>3. Consistent(q, req[q], j, reached[q], crashes)
    BY <1>2, <1>3, <1>4, <1>6, <2>2, CallTyped DEF Consistent, Queued
  <2>4. Proceeds(Told(req[q], job[q]), Told(req[q], j))
    BY <1>2, <1>4 DEF Proceeds, Told, Consistent, Queued
  <2> QED BY <1>2, <1>3, <1>4, <2>1, <2>3, <2>4, MoveActs
<1> QED BY <1>5, <1>6

\* A worker takes the job up.
LEMMA TakeJobActs == ASSUME RegistryInv, NEW q \in Requests, TakeJob(q) PROVE ActsWell(q)
<1>1. PICK j : j = [job[q] EXCEPT !.state = "active"]
  OBVIOUS
<1>2. /\ job[q].state = "waiting" /\ job' = [job EXCEPT ![q] = j]
      /\ req' = [req EXCEPT ![q] = req[q]] /\ reached' = reached /\ crashes' = crashes
  BY <1>1 DEF TakeJob, environment, history, RegistryInv, TypeOK
<1>3. j \in Job /\ j.state = "active" /\ j.attempts = job[q].attempts
  BY <1>1, Facts DEF Job
<1>4. /\ req[q] \in Request /\ reached[q] \in Nat
      /\ Consistent(q, req[q], job[q], reached[q], crashes)
  BY Facts
<1>5. Consistent(q, req[q], j, reached[q], crashes)
  BY <1>2, <1>3, <1>4 DEF Consistent, Queued, Allowed
<1>6. Proceeds(Told(req[q], job[q]), Told(req[q], j))
  BY <1>2, <1>3 DEF Proceeds, Told
<1> QED BY <1>2, <1>3, <1>4, <1>5, <1>6, MoveActs

\* The worker's attempt ends and leaves the job as j, its call carried out or not.
LEMMA ReplayActs ==
  ASSUME RegistryInv, NEW q \in Requests, job[q].state = "active",
         NEW j \in Job, job' = [job EXCEPT ![q] = j], crashes' = crashes,
         Replayed(q) \/ (j.state # "done" /\ UNCHANGED <<reached, req>>),
         \/ j.state = "done" /\ j.attempts = job[q].attempts
         \/ j.state = "waiting" /\ j.attempts = job[q].attempts + 1 /\ j.attempts < MaxAttempts
         \/ j.state = "dead" /\ j.attempts = job[q].attempts + 1 /\ j.attempts <= MaxAttempts
  PROVE  ActsWell(q)
<1>1. /\ req \in [Requests -> Request] /\ job \in [Requests -> Job]
      /\ reached \in [Requests -> Nat]
  BY DEF RegistryInv, TypeOK
<1>2. \A p \in Requests : req'[p] \in Request /\ Alike(req'[p], req[p])
  BY <1>1, OutdatedFacts DEF Replayed, Alike
<1>3. req' \in [Requests -> Request]
  <2>1. req' = [p \in Requests |-> req'[p]]
    BY <1>1 DEF Replayed
  <2> QED BY <1>2, <2>1
<1>4. PICK n \in Nat : /\ reached' = [reached EXCEPT ![q] = n]
                       /\ n = reached[q] + 1 \/ (n = reached[q] /\ j.state # "done")
  <2>1. CASE Replayed(q)
    <3>1. reached' = [reached EXCEPT ![q] = reached[q] + 1] /\ reached[q] + 1 \in Nat
      BY <1>1, <2>1 DEF Replayed
    <3> QED BY <3>1
  <2>2. CASE j.state # "done" /\ UNCHANGED <<reached, req>>
    BY <1>1, <2>2
  <2> QED BY <2>1, <2>2
<1>5. /\ job'[q] = j /\ reached'[q] = n
      /\ reached' \in [Requests -> Nat] /\ job' \in [Requests -> Job]
      /\ \A p \in Requests \ {q} : job'[p] = job[p] /\ reached'[p] = reached[p]
  BY <1>1, <1>4
<1>6. /\ req[q] \in Request /\ reached[q] \in Nat /\ crashes \in Nat /\ job[q].attempts \in Nat
      /\ Consistent(q, req[q], job[q], reached[q], crashes)
      /\ req[q].pc \notin {"new", "call", "reply", "set", "enqueue"}
  BY Facts DEF Consistent
<1>7. PICK y \in Request : y = req'[q] /\ y.pc = req[q].pc /\ y.kind = req[q].kind
                           /\ y.got.call = req[q].got.call
  BY <1>2 DEF Alike
<1>8. n <= Allowed(y, j, crashes)
  BY <1>4, <1>6, <1>7 DEF Allowed, Consistent
<1>9. Consistent(q, y, j, n, crashes)
  BY <1>4, <1>6, <1>7, <1>8, CallTyped DEF Consistent, Queued
<1>10. Proceeds(Told(req[q], job[q]), Told(y, j))
  BY <1>7 DEF Proceeds, Told
<1> QED BY <1>2, <1>3, <1>5, <1>7, <1>9, <1>10 DEF ActsWell

\* The replay succeeds and the job is done.
LEMMA ReplayOkActs == ASSUME RegistryInv, NEW q \in Requests, ReplayOk(q) PROVE ActsWell(q)
<1>1. PICK j : j = [job[q] EXCEPT !.state = "done"]
  OBVIOUS
<1>2. /\ job[q].state = "active" /\ job' = [job EXCEPT ![q] = j] /\ crashes' = crashes
      /\ Replayed(q)
  BY <1>1 DEF ReplayOk, environment
<1>3. j \in Job /\ j.state = "done" /\ j.attempts = job[q].attempts
  BY <1>1, Facts DEF Job
<1> QED BY <1>2, <1>3, ReplayActs

\* The replay fails: the job waits for another attempt or is given up.
LEMMA ReplayFailsActs == ASSUME RegistryInv, NEW q \in Requests, ReplayFails(q) PROVE ActsWell(q)
<1>1. PICK j : j = AfterAttempt(job[q])
  OBVIOUS
<1>2. /\ job[q].state = "active" /\ job' = [job EXCEPT ![q] = j] /\ crashes' = crashes
      /\ Replayed(q) \/ UNCHANGED <<reached, req>>
  BY <1>1 DEF ReplayFails, environment
<1>3. job[q].attempts \in Nat /\ job[q].attempts < MaxAttempts /\ MaxAttempts \in Nat
  BY <1>2, Facts, CallTyped DEF Consistent
<1>4. /\ j \in Job /\ j.attempts = job[q].attempts + 1 /\ j.attempts <= MaxAttempts
      /\ IF j.attempts >= MaxAttempts THEN j.state = "dead" ELSE j.state = "waiting"
  BY <1>1, <1>3 DEF Job, AfterAttempt
<1>5. j.attempts \in Nat /\ (j.state = "waiting" => j.attempts < MaxAttempts)
  BY <1>3, <1>4
<1> QED BY <1>2, <1>4, <1>5, ReplayActs

\* Every step that is a request's or its worker's.
Turn(q) ==
  \/ Hit(q) \/ Begin(q) \/ Serve(q) \/ Reply(q) \/ SetCache(q)
  \/ MeetOpen(q) \/ CallFails(q) \/ Added(q) \/ AddFails(q)
  \/ TakeJob(q) \/ ReplayOk(q) \/ ReplayFails(q)

\* Every step of a request or of its job acts well.
LEMMA TurnActs == ASSUME RegistryInv, NEW q \in Requests, Turn(q) PROVE ActsWell(q)
  BY HitActs, BeginActs, ServeActs, ReplyActs, SetCacheActs, MeetOpenActs, CallFailsActs,
     AddedActs, AddFailsActs, TakeJobActs, ReplayOkActs, ReplayFailsActs DEF Turn

-----------------------------------------------------------------------------
(* The invariant is kept *)

\* A turn leaves every request consistent.
LEMMA ActsKeepConsistent ==
  ASSUME RegistryInv, NEW q \in Requests, ActsWell(q)
  PROVE  RequestsConsistent'
<1>1. ASSUME NEW p \in Requests
      PROVE  Consistent(p, req'[p], job'[p], reached'[p], crashes')
  <2>1. CASE p = q
    BY <2>1 DEF ActsWell
  <2>2. CASE p # q
    <3>1. /\ req'[p].pc = req[p].pc /\ req'[p].kind = req[p].kind
          /\ req'[p].got.call = req[p].got.call /\ job'[p] = job[p] /\ reached'[p] = reached[p]
          /\ crashes' = crashes
      BY <2>2 DEF ActsWell, Alike
    <3>2. Consistent(p, req[p], job[p], reached[p], crashes)
      BY Facts
    <3> QED BY <3>1, <3>2 DEF Consistent, Allowed
  <2> QED BY <2>1, <2>2
<1> QED BY <1>1 DEF RequestsConsistent, Consistent, IsMutationMethod

\* What a turn does to the port: entries are added by their own call's request,
\* outdated by a write, and causes of staleness are not lost.
LEMMA CacheStep ==
  ASSUME RegistryInv, NEW q \in Requests, Turn(q)
  PROVE  /\ policy' \in Policies /\ fallback' \in Calls \cup {NoCall} /\ busts' \in Nat
         /\ open' \in BOOLEAN /\ disturbed' \in BOOLEAN
         /\ cache' \in [Calls -> Entry] /\ CacheOwn'
<1>1. /\ policy \in Policies /\ fallback \in Calls \cup {NoCall} /\ busts \in Nat
      /\ open \in BOOLEAN /\ disturbed \in BOOLEAN /\ cache \in [Calls -> Entry]
      /\ CallOf[q] \in Calls
  BY CallTyped DEF RegistryInv, TypeOK
<1>2. CASE UNCHANGED <<policy, fallback, busts, open, disturbed, cache>>
  BY <1>1, <1>2 DEF RegistryInv, CacheOwn
<1>3. ASSUME cache' = [c \in Calls |-> IF IsWrite(q) THEN Outdate(cache[c]) ELSE cache[c]]
      PROVE  cache' \in [Calls -> Entry] /\ CacheOwn'
  <2>1. \A c \in Calls : cache'[c] = cache[c] \/ cache'[c] = Outdate(cache[c])
    BY <1>3
  <2>2. \A c \in Calls : cache[c] \in Entry
    BY <1>1
  <2>3. \A c \in Calls : cache'[c] \in Entry /\ (cache'[c] = NoEntry \/ cache'[c].call = c)
    BY <2>1, <2>2, OutdateFacts DEF RegistryInv, CacheOwn
  <2> QED BY <1>3, <2>3 DEF CacheOwn
<1>4. CASE Serve(q)
  <2>1. UNCHANGED <<policy, fallback, busts, open, disturbed>>
    BY <1>4 DEF Serve, environment
  <2> QED BY <1>1, <1>3, <1>4, <2>1 DEF Serve
<1>5. CASE Reply(q)
  <2>1. /\ UNCHANGED <<policy, open, disturbed, cache>> /\ busts' \in {busts, busts + 1}
        /\ fallback' \in {fallback, CallOf[q]}
    BY <1>5 DEF Reply, environment, history
  <2> QED BY <1>1, <2>1 DEF RegistryInv, CacheOwn
<1>6. CASE SetCache(q)
  <2>1. /\ UNCHANGED <<policy, open, busts>> /\ fallback' = CallOf[q] /\ req[q].pc = "set"
        /\ \/ cache' = [cache EXCEPT ![CallOf[q]] = req[q].got]
              /\ disturbed' = (disturbed \/ req[q].got.stale)
           \/ UNCHANGED <<cache, disturbed>>
    BY <1>6 DEF SetCache, environment, At
  <2>2. req[q].got \in Entry /\ req[q].got.call = CallOf[q] /\ req[q].got.stale \in BOOLEAN
    BY <2>1, Facts DEF Consistent, Entry
  <2>3. cache' \in [Calls -> Entry] /\ disturbed' \in BOOLEAN
    BY <1>1, <2>1, <2>2
  <2>4. \A c \in Calls : cache'[c] = cache[c] \/ (c = CallOf[q] /\ cache'[c] = req[q].got)
    BY <1>1, <2>1
  <2>5. CacheOwn'
    BY <2>2, <2>4 DEF RegistryInv, CacheOwn
  <2> QED BY <1>1, <2>1, <2>3, <2>5
<1>7. CASE CallFails(q)
  <2>1. /\ UNCHANGED <<policy, fallback, busts, cache>> /\ open' \in BOOLEAN
        /\ disturbed' = (disturbed \/ (At(q, "reply") /\ IsWrite(q)))
    BY <1>7 DEF CallFails, port
  <2> QED BY <1>1, <2>1 DEF RegistryInv, CacheOwn
<1>8. CASE ReplayOk(q) \/ ReplayFails(q)
  <2>1. /\ UNCHANGED <<policy, busts, open>> /\ fallback' \in {fallback, CallOf[q]}
        /\ Replayed(q) \/ UNCHANGED <<cache, disturbed>>
    BY <1>8 DEF ReplayOk, ReplayFails, environment
  <2>2. CASE Replayed(q)
    <3>1. disturbed' \in BOOLEAN
      BY <1>1, <2>2 DEF Replayed
    <3>2. cache' \in [Calls -> Entry] /\ CacheOwn'
      BY <1>3, <2>2 DEF Replayed
    <3> QED BY <1>1, <2>1, <3>1, <3>2
  <2>3. CASE UNCHANGED <<cache, disturbed>>
    BY <1>1, <2>1, <2>3 DEF RegistryInv, CacheOwn
  <2> QED BY <2>1, <2>2, <2>3
<1>9. ASSUME Hit(q) \/ Begin(q) \/ MeetOpen(q) \/ Added(q) \/ AddFails(q) \/ TakeJob(q)
      PROVE  UNCHANGED <<policy, fallback, busts, open, disturbed, cache>>
  BY <1>9 DEF Hit, Begin, MeetOpen, Added, AddFails, TakeJob, environment, port, history
<1> QED BY <1>2, <1>4, <1>5, <1>6, <1>7, <1>8, <1>9 DEF Turn

\* An entry is stale: then the cause is there.
StaleCause ==
  \/ busts > 0 \/ disturbed
  \/ \E q \in Requests : IsWrite(q) /\ At(q, "reply")
  \/ WriteMissed

\* A call carried out stays carried out.
LEMMA TurnKeepsReached ==
  ASSUME RegistryInv, NEW q \in Requests, Turn(q), NEW p \in Requests, reached[p] > 0
  PROVE  reached'[p] > 0
<1>1. reached \in [Requests -> Nat] /\ reached[p] \in Nat
  BY DEF RegistryInv, TypeOK
<1>2. CASE Serve(q)
  <2>1. reached'[p] = IF p = q THEN reached[p] + 1 ELSE reached[p]
    BY <1>1, <1>2 DEF Serve
  <2> QED BY <1>1, <2>1
<1>3. CASE ReplayOk(q) \/ ReplayFails(q)
  <2>1. reached'[p] = (IF p = q THEN reached[p] + 1 ELSE reached[p]) \/ reached' = reached
    BY <1>1, <1>3 DEF ReplayOk, ReplayFails, Replayed
  <2> QED BY <1>1, <2>1
<1>4. CASE ~(Serve(q) \/ ReplayOk(q) \/ ReplayFails(q))
  <2>1. reached' = reached
    BY <1>4 DEF Turn, Hit, Begin, Reply, SetCache, MeetOpen, CallFails, Added, AddFails, TakeJob,
                environment, history
  <2> QED BY <2>1
<1> QED BY <1>2, <1>3, <1>4

\* So is a write whose name was missed.
LEMMA MissedStays ==
  ASSUME RegistryInv, NEW q \in Requests, Turn(q), WriteMissed
  PROVE  WriteMissed'
<1>1. PICK p \in Requests : Missed(p) /\ reached[p] > 0
  BY DEF WriteMissed
<1>2. reached'[p] > 0
  BY <1>1, TurnKeepsReached
<1> QED BY <1>1, <1>2 DEF WriteMissed, Missed, IsWrite, IsMutationMethod

\* A turn that makes an entry stale, or ends the cause of one, leaves another cause.
LEMMA CauseStep ==
  ASSUME RegistryInv, NEW q \in Requests, Turn(q)
  PROVE  StaleHasCause'
<1>1. /\ ActsWell(q) /\ cache \in [Calls -> Entry] /\ busts \in Nat /\ disturbed \in BOOLEAN
      /\ req \in [Requests -> Request]
  BY TurnActs DEF RegistryInv, TypeOK
<1>2. \A p \in Requests \ {q} : req'[p].pc = req[p].pc
  BY <1>1 DEF ActsWell, Alike
<1>3. (\E c \in Calls : cache[c].stale) => StaleCause
  BY DEF RegistryInv, StaleHasCause, StaleCause
<1>4. ASSUME \A c \in Calls : cache'[c].stale => cache[c].stale,
             busts' >= busts, disturbed => disturbed', req[q].pc = "reply" => req'[q].pc = "reply"
      PROVE  StaleHasCause'
  <2>1. ASSUME NEW c \in Calls, cache'[c].stale PROVE StaleCause
    BY <1>3, <1>4, <2>1
  <2>2. ASSUME NEW p \in Requests, req[p].pc = "reply" PROVE req'[p].pc = "reply"
    BY <1>2, <1>4, <2>2
  <2>3. busts > 0 => busts' > 0
    <3>1. busts' \in Nat
      BY CacheStep
    <3> QED BY <1>1, <1>4, <3>1
  <2>4. WriteMissed => WriteMissed'
    BY MissedStays
  <2> QED BY <1>4, <2>1, <2>2, <2>3, <2>4 DEF StaleHasCause, StaleCause, At, IsWrite
<1>5. WriteMissed => StaleHasCause'
  BY MissedStays DEF StaleHasCause
<1>6. CASE Serve(q)
  <2>1. CASE IsWrite(q)
    <3>1. req[q] \in Request
      BY <1>1
    <3>2. PICK x : x = [req[q] EXCEPT !.pc = "reply", !.got = [call |-> CallOf[q], stale |-> FALSE]]
      OBVIOUS
    <3>3. req'[q] = x /\ x.pc = "reply"
      BY <1>6, <3>1, <3>2 DEF Serve, Request
    <3> QED BY <2>1, <3>3 DEF StaleHasCause, At, IsWrite
  <2>2. CASE ~IsWrite(q)
    <3>1. /\ \A c \in Calls : cache'[c] = cache[c]
          /\ busts' = busts /\ disturbed' = disturbed /\ req[q].pc = "call"
      BY <1>6, <2>2 DEF Serve, At
    <3> QED BY <1>1, <1>4, <3>1
  <2> QED BY <2>1, <2>2
<1>7. CASE Reply(q)
  <2>1. cache' = cache /\ disturbed' = disturbed /\ req[q].pc = "reply"
    BY <1>7 DEF Reply, history, At
  <2>2. CASE IsMutationMethod(q)
    <3>1. busts' = busts + 1
      BY <1>7, <2>2 DEF Reply
    <3> QED BY <1>1, <3>1 DEF StaleHasCause
  <2>3. CASE ~IsMutationMethod(q) /\ IsWrite(q)
    <3>1. reached[q] > 0
      BY <2>1, Facts DEF Consistent
    <3>2. WriteMissed
      BY <2>3, <3>1 DEF WriteMissed, Missed
    <3> QED BY <3>2, <1>5
  <2>4. CASE ~IsMutationMethod(q) /\ ~IsWrite(q)
    <3>1. busts' = busts
      BY <1>7, <2>4 DEF Reply
    <3>2. ASSUME NEW p \in Requests, IsWrite(p), req[p].pc = "reply"
          PROVE  req'[p].pc = "reply"
      BY <1>2, <2>4, <3>2
    <3> QED BY <1>1, <1>3, <1>5, <2>1, <3>1, <3>2 DEF StaleHasCause, StaleCause, At, IsWrite
  <2> QED BY <2>2, <2>3, <2>4
<1>8. CASE SetCache(q)
  <2>1. busts' = busts /\ req[q].pc = "set" /\ CallOf[q] \in Calls
    BY <1>8, CallTyped DEF SetCache, At
  <2>2. CASE /\ cache' = [cache EXCEPT ![CallOf[q]] = req[q].got]
             /\ disturbed' = (disturbed \/ req[q].got.stale)
    <3>1. CASE req[q].got.stale
      BY <2>2, <3>1 DEF StaleHasCause
    <3>2. CASE ~req[q].got.stale
      <4>1. \A c \in Calls : cache'[c].stale => cache[c].stale
        BY <1>1, <2>1, <2>2, <3>2
      <4> QED BY <1>1, <1>4, <2>1, <2>2, <4>1
    <3> QED BY <3>1, <3>2
  <2>3. CASE UNCHANGED <<cache, disturbed>>
    BY <1>1, <1>4, <2>1, <2>3
  <2> QED BY <1>8, <2>2, <2>3 DEF SetCache
<1>9. CASE CallFails(q)
  <2>1. /\ cache' = cache /\ busts' = busts
        /\ disturbed' = (disturbed \/ (At(q, "reply") /\ IsWrite(q)))
    BY <1>9 DEF CallFails, port
  <2>2. CASE At(q, "reply") /\ IsWrite(q)
    BY <2>1, <2>2 DEF StaleHasCause
  <2>3. CASE ~(At(q, "reply") /\ IsWrite(q))
    <3>1. ASSUME NEW p \in Requests, IsWrite(p), req[p].pc = "reply"
          PROVE  req'[p].pc = "reply"
      BY <1>2, <2>3, <3>1 DEF At
    <3> QED BY <1>1, <1>3, <1>5, <2>1, <2>3, <3>1 DEF StaleHasCause, StaleCause, At, IsWrite
  <2> QED BY <2>2, <2>3
<1>10. CASE ReplayOk(q) \/ ReplayFails(q)
  <2>1. /\ busts' = busts /\ job[q].state = "active"
        /\ Replayed(q) \/ UNCHANGED <<cache, disturbed>>
    BY <1>10 DEF ReplayOk, ReplayFails
  <2>2. req[q].pc # "reply"
    BY <2>1, Facts DEF Consistent
  <2>3. CASE Replayed(q) /\ IsWrite(q)
    BY <2>3 DEF Replayed, StaleHasCause
  <2>4. CASE Replayed(q) /\ ~IsWrite(q)
    <3>1. (\A c \in Calls : cache'[c] = cache[c]) /\ disturbed' = disturbed
      BY <1>1, <2>4 DEF Replayed
    <3> QED BY <1>1, <1>4, <2>1, <2>2, <3>1
  <2>5. CASE UNCHANGED <<cache, disturbed>>
    BY <1>1, <1>4, <2>1, <2>2, <2>5
  <2> QED BY <2>1, <2>3, <2>4, <2>5
<1>11. CASE Hit(q) \/ Begin(q) \/ MeetOpen(q)
  <2>1. cache' = cache /\ busts' = busts /\ disturbed' = disturbed /\ req[q].pc = "new"
    BY <1>11 DEF Hit, Begin, MeetOpen, port, history, At
  <2> QED BY <1>1, <1>4, <2>1
<1>12. CASE Added(q) \/ AddFails(q) \/ TakeJob(q)
  <2>1. /\ cache' = cache /\ busts' = busts /\ disturbed' = disturbed
        /\ job[q].state \in {"adding", "waiting"}
    BY <1>12 DEF Added, AddFails, TakeJob, port, history
  <2>2. req[q].pc # "reply"
    BY <2>1, Facts DEF Consistent
  <2> QED BY <1>1, <1>4, <2>1, <2>2
<1> QED BY <1>6, <1>7, <1>8, <1>9, <1>10, <1>11, <1>12 DEF Turn

\* Invalidations, expiry and time.
LEMMA QuietKeepsInv ==
  ASSUME RegistryInv, Bust \/ CircuitCloses \/ (\E c \in Calls : Expire(c)) \/ UNCHANGED vars
  PROVE  RegistryInv' /\ req' = req /\ job' = job
<1>1. TypeOK /\ NoEntry \in Entry /\ NoEntry.stale = FALSE
  BY DEF RegistryInv, NoEntry, Entry
<1>2. req' = req /\ job' = job /\ reached' = reached /\ crashes' = crashes /\ policy' = policy
      /\ fallback' = fallback
  BY DEF Bust, CircuitCloses, Expire, vars, port, environment, history
<1>3. RequestsConsistent'
  BY <1>2 DEF RegistryInv, RequestsConsistent, Consistent, IsMutationMethod
<1>4. /\ cache' = cache \/ (\A c \in Calls : cache'[c] \in {cache[c], NoEntry})
      /\ cache' \in [Calls -> Entry]
  BY <1>1 DEF Bust, CircuitCloses, Expire, vars, port, TypeOK
<1>5. CacheOwn'
  BY <1>4 DEF RegistryInv, CacheOwn
<1>6. busts' \in Nat /\ open' \in BOOLEAN /\ disturbed' \in BOOLEAN
  <2>1. busts \in Nat /\ open \in BOOLEAN /\ disturbed \in BOOLEAN
    BY <1>1 DEF TypeOK
  <2>2. CASE Bust
    <3>1. busts > 0 /\ busts' = busts - 1 /\ open' = open /\ (disturbed' = disturbed \/ disturbed' = TRUE)
      BY <2>2 DEF Bust, environment
    <3>2. busts' \in Nat
      BY <2>1, <3>1
    <3>3. open' \in BOOLEAN /\ disturbed' \in BOOLEAN
      BY <2>1, <3>1
    <3> QED BY <3>2, <3>3
  <2>3. CASE ~Bust
    <3>1. busts' = busts /\ disturbed' = disturbed /\ (open' = open \/ open' = FALSE)
      BY <2>3 DEF CircuitCloses, Expire, vars, port, environment, history
    <3> QED BY <2>1, <3>1
  <2> QED BY <2>2, <2>3
<1>7. TypeOK'
  BY <1>1, <1>2, <1>4, <1>6 DEF TypeOK
<1>8. StaleHasCause'
  <2>1. CASE Bust
    <3>1. \/ \A c \in Calls : cache'[c] = NoEntry
          \/ disturbed' = TRUE
      BY <2>1 DEF Bust
    <3> QED BY <1>1, <3>1 DEF StaleHasCause
  <2>2. CASE ~Bust
    <3>1. busts' = busts /\ disturbed' = disturbed
      BY <2>2 DEF CircuitCloses, Expire, vars, port, history
    <3>2. WriteMissed => WriteMissed'
      BY <1>2 DEF WriteMissed, Missed, IsWrite, IsMutationMethod
    <3> QED BY <1>1, <1>2, <1>4, <3>1, <3>2 DEF RegistryInv, StaleHasCause, At, IsWrite
  <2> QED BY <2>1, <2>2
<1> QED BY <1>2, <1>3, <1>5, <1>7, <1>8 DEF RegistryInv

\* What a crash leaves of a job, and of a request.
JobAfterCrash(j) ==
  CASE j.state = "adding" -> [j EXCEPT !.state = "none"]
    [] j.state = "active" -> [j EXCEPT !.state = "waiting"]
    [] OTHER -> j

Aborted == [pc |-> "done", got |-> NoEntry, kind |-> "error"]

\* A crash ends the requests under way and loses no job the queue has taken.
LEMMA CrashActs ==
  ASSUME RegistryInv, Crash, NEW q \in Requests
  PROVE  /\ req'[q] \in Request /\ job'[q] \in Job /\ reached'[q] \in Nat
         /\ Consistent(q, req'[q], job'[q], reached'[q], crashes')
         /\ IF req[q].pc = "done" THEN Told(req'[q], job'[q]) = Told(req[q], job[q])
            ELSE Told(req[q], job[q]) = "none" /\ Told(req'[q], job'[q]) = "error"
<1>1. /\ req'[q] = IF req[q].pc = "done" THEN req[q] ELSE Aborted
      /\ job'[q] = JobAfterCrash(job[q])
      /\ crashes' = crashes + 1
  BY DEF Crash, At, Aborted, JobAfterCrash
<1>2. /\ req[q] \in Request /\ job[q] \in Job /\ job[q].attempts \in Nat /\ reached[q] \in Nat
      /\ crashes \in Nat /\ Consistent(q, req[q], job[q], reached[q], crashes)
  BY Facts
<1>3. reached'[q] \in {reached[q], reached[q] + 1} /\ (reached'[q] # reached[q] => job[q].state = "active")
  BY DEF Crash
<1>4. PICK x : x = req'[q]
  OBVIOUS
<1>5. PICK j : j = job'[q]
  OBVIOUS
<1>6. PICK n : n = reached'[q]
  OBVIOUS
<1>7. /\ j \in Job /\ j.attempts = job[q].attempts
      /\ j.state = IF job[q].state = "adding" THEN "none"
                   ELSE IF job[q].state = "active" THEN "waiting" ELSE job[q].state
  BY <1>1, <1>2, <1>5 DEF JobAfterCrash, Job
<1>8. /\ Aborted \in Request /\ Aborted.pc = "done" /\ Aborted.kind = "error"
  BY DEF Aborted, Request, NoEntry, Entry, Kinds
<1>9. x \in Request /\ x.pc = "done" /\ (x = req[q] \/ (req[q].pc # "done" /\ x.kind = "error"))
  BY <1>1, <1>2, <1>4, <1>8
<1>10. n \in Nat /\ n >= reached[q] /\ n <= reached[q] + 1 /\ (n > reached[q] => job[q].state = "active")
  BY <1>2, <1>3, <1>6
<1>11. n <= Allowed(x, j, crashes + 1)
  BY <1>2, <1>7, <1>9, <1>10 DEF Consistent, Allowed
<1>12. Consistent(q, x, j, n, crashes + 1)
  <2>1. x.kind = "none" <=> x.pc # "done"
    BY <1>2, <1>9 DEF Consistent
  <2>2. x.kind = "data" => x.got.call = CallOf[q] /\ (IsMutationMethod(q) => n > 0)
    BY <1>2, <1>9, <1>10 DEF Consistent
  <2>3. x.kind = "queued" => j.state \in Queued
    BY <1>2, <1>7, <1>9 DEF Consistent, Queued
  <2>4. /\ j.state = "done" => n > 0
        /\ j.attempts <= MaxAttempts
        /\ j.state \in {"none", "adding"} => j.attempts = 0
        /\ j.state \in {"waiting", "active", "done"} => j.attempts < MaxAttempts
    BY <1>2, <1>7, <1>10 DEF Consistent
  <2> QED BY <1>9, <1>11, <2>1, <2>2, <2>3, <2>4 DEF Consistent
<1>13. IF req[q].pc = "done" THEN Told(x, j) = Told(req[q], job[q])
       ELSE Told(req[q], job[q]) = "none" /\ Told(x, j) = "error"
  <2>1. CASE req[q].pc = "done"
    <3>1. x = req[q]
      BY <1>1, <1>4, <2>1
    <3> QED BY <1>2, <1>7, <2>1, <3>1 DEF Told, Consistent, Queued
  <2>2. CASE req[q].pc # "done"
    BY <1>1, <1>2, <1>4, <1>8, <2>2 DEF Told, Consistent
  <2> QED BY <2>1, <2>2
<1> QED BY <1>1, <1>4, <1>5, <1>6, <1>7, <1>9, <1>10, <1>12, <1>13

\* The process dies: callers are cut off, and jobs a worker had are handed out again.
LEMMA CrashKeepsInv == ASSUME RegistryInv, Crash PROVE RegistryInv'
<1>1. TypeOK
  BY DEF RegistryInv
<1>2. \A q \in Requests : /\ req'[q] \in Request /\ job'[q] \in Job /\ reached'[q] \in Nat
                          /\ Consistent(q, req'[q], job'[q], reached'[q], crashes')
  BY CrashActs
<1>3. req' \in [Requests -> Request] /\ job' \in [Requests -> Job] /\ reached' \in [Requests -> Nat]
  <2>1. /\ req' = [q \in Requests |-> req'[q]] /\ job' = [q \in Requests |-> job'[q]]
        /\ reached' = [q \in Requests |-> reached'[q]]
    BY DEF Crash
  <2> QED BY <1>2, <2>1
<1>4. /\ cache' = [c \in Calls |-> cache'[c]]
      /\ \A c \in Calls : cache'[c] = cache[c] \/ cache'[c] = Outdate(cache[c])
  BY DEF Crash
<1>5. \A c \in Calls : cache[c] \in Entry /\ (cache[c] = NoEntry \/ cache[c].call = c)
  BY DEF RegistryInv, TypeOK, CacheOwn
<1>6. \A c \in Calls : cache'[c] \in Entry /\ (cache'[c] = NoEntry \/ cache'[c].call = c)
  BY <1>4, <1>5, OutdateFacts
<1>7. cache' \in [Calls -> Entry] /\ CacheOwn'
  BY <1>4, <1>6 DEF CacheOwn
<1>8. /\ policy' = policy /\ fallback' = NoCall /\ busts' = 0 /\ open' = FALSE
      /\ disturbed' = TRUE /\ crashes' = crashes + 1 /\ crashes < MaxCrashes
  BY DEF Crash
<1>9. TypeOK'
  <2>1. crashes' \in 0..MaxCrashes
    BY <1>1, <1>8, CallTyped DEF TypeOK
  <2> QED BY <1>1, <1>3, <1>7, <1>8, <2>1 DEF TypeOK
<1>10. RequestsConsistent' /\ StaleHasCause'
  BY <1>2, <1>8 DEF RequestsConsistent, Consistent, IsMutationMethod, StaleHasCause
<1> QED BY <1>7, <1>9, <1>10 DEF RegistryInv

\* A step that acts well keeps the invariant.
LEMMA TurnKeepsInv == ASSUME RegistryInv, NEW q \in Requests, Turn(q) PROVE RegistryInv'
<1>1. ActsWell(q) /\ TypeOK
  BY TurnActs DEF RegistryInv
<1>2. RequestsConsistent' /\ StaleHasCause'
  BY <1>1, ActsKeepConsistent, CauseStep
<1>3. /\ policy' \in Policies /\ fallback' \in Calls \cup {NoCall} /\ busts' \in Nat
      /\ open' \in BOOLEAN /\ disturbed' \in BOOLEAN
      /\ cache' \in [Calls -> Entry] /\ CacheOwn'
  BY CacheStep
<1>4. /\ req' \in [Requests -> Request] /\ job' \in [Requests -> Job]
      /\ reached' \in [Requests -> Nat] /\ crashes' = crashes
  BY <1>1 DEF ActsWell
<1>5. TypeOK'
  BY <1>1, <1>3, <1>4 DEF TypeOK
<1> QED BY <1>2, <1>3, <1>5 DEF RegistryInv

\* No call is made, no answer cached and no job queued at the start.
LEMMA RegistryInvInit == Init => RegistryInv
<1> SUFFICES ASSUME Init PROVE RegistryInv
  OBVIOUS
<1> DEFINE x == [pc |-> "new", got |-> NoEntry, kind |-> "none"]
           j == [state |-> "none", attempts |-> 0]
<1>1. NoEntry \in Entry /\ NoEntry.stale = FALSE
  BY DEF NoEntry, Entry
<1>2. x \in Request /\ j \in Job
  BY <1>1 DEF Request, Job, Kinds
<1>3. TypeOK
  <2>1. 0 \in 0..MaxCrashes
    BY CallTyped
  <2>2. req \in [Requests -> Request] /\ job \in [Requests -> Job]
    BY <1>2 DEF Init
  <2> QED BY <1>1, <2>1, <2>2 DEF Init, TypeOK
<1>4. ASSUME NEW q \in Requests PROVE Consistent(q, x, j, 0, 0)
  BY CallTyped DEF Consistent, Allowed
<1>5. RequestsConsistent
  BY <1>4 DEF Init, RequestsConsistent
<1>6. CacheOwn /\ StaleHasCause
  BY <1>1 DEF Init, CacheOwn, StaleHasCause
<1> QED BY <1>3, <1>5, <1>6 DEF RegistryInv

\* Every step, every crash and every expiry keeps the invariant.
LEMMA RegistryInvStep == RegistryInv /\ [Next]_vars => RegistryInv'
<1> SUFFICES ASSUME RegistryInv, [Next]_vars PROVE RegistryInv'
  OBVIOUS
<1>1. ASSUME NEW q \in Requests, Turn(q) PROVE RegistryInv'
  BY <1>1, TurnKeepsInv
<1>2. CASE Bust \/ CircuitCloses \/ (\E c \in Calls : Expire(c)) \/ UNCHANGED vars
  BY <1>2, QuietKeepsInv
<1>3. CASE Crash
  BY <1>3, CrashKeepsInv
<1> QED BY <1>1, <1>2, <1>3 DEF Next, Turn

\* What is cached or answered was carried out downstream.
AnswersCarriedOut ==
  /\ \A c \in Calls : cache[c] # NoEntry => CarriedOut(c)
  /\ \A q \in Requests : req[q].kind = "data" => CarriedOut(CallOf[q])

\* The calls carried out stay so.
LEMMA CarriedOutStays ==
  ASSUME RegistryInv, [Next]_vars, NEW c \in Calls, CarriedOut(c)
  PROVE  CarriedOut(c)'
<1>1. PICK p \in Requests : CallOf[p] = c /\ reached[p] > 0
  BY DEF CarriedOut
<1>2. reached \in [Requests -> Nat] /\ reached[p] \in Nat
  BY DEF RegistryInv, TypeOK
<1>3. reached'[p] > 0
  <2>1. ASSUME NEW q \in Requests, Turn(q) PROVE reached'[p] > 0
    BY <1>1, <2>1, TurnKeepsReached
  <2>2. CASE Bust \/ CircuitCloses \/ (\E d \in Calls : Expire(d)) \/ UNCHANGED vars
    BY <1>1, <2>2 DEF Bust, CircuitCloses, Expire, vars, history
  <2>3. CASE Crash
    <3>1. reached'[p] \in {reached[p], reached[p] + 1}
      BY <2>3 DEF Crash
    <3> QED BY <1>1, <1>2, <3>1
  <2> QED BY <2>1, <2>2, <2>3 DEF Next, Turn
<1> QED BY <1>1, <1>3 DEF CarriedOut

\* An entry is new only as the answer of a call carried out.
LEMMA EntryCarriedOut ==
  ASSUME RegistryInv, [Next]_vars, NEW c \in Calls, cache'[c] # NoEntry
  PROVE  cache[c] # NoEntry \/ CarriedOut(c)
<1>1. cache \in [Calls -> Entry] /\ cache[c] \in Entry
  BY DEF RegistryInv, TypeOK
<1>2. cache'[c] \in {cache[c], Outdate(cache[c])} => cache[c] # NoEntry
  BY <1>1, OutdateFacts
<1>3. ASSUME NEW q \in Requests, Turn(q) PROVE cache[c] # NoEntry \/ CarriedOut(c)
  <2>1. CASE SetCache(q)
    <3>1. reached[q] > 0
      BY <2>1, Facts DEF SetCache, At, Consistent
    <3>2. c = CallOf[q] \/ cache'[c] = cache[c]
      BY <1>1, <2>1 DEF SetCache
    <3> QED BY <1>2, <3>1, <3>2 DEF CarriedOut
  <2>2. CASE ~SetCache(q)
    <3>1. cache'[c] \in {cache[c], Outdate(cache[c])}
      BY <1>1, <1>3, <2>2
      DEF Turn, Serve, ReplayOk, ReplayFails, Replayed, Hit, Begin, Reply, MeetOpen, CallFails,
          Added, AddFails, TakeJob, port
    <3> QED BY <1>2, <3>1
  <2> QED BY <2>1, <2>2
<1>4. CASE Bust \/ CircuitCloses \/ (\E d \in Calls : Expire(d)) \/ UNCHANGED vars
  <2>1. cache'[c] \in {cache[c], NoEntry}
    BY <1>1, <1>4 DEF Bust, CircuitCloses, Expire, vars, port
  <2> QED BY <2>1
<1>5. CASE Crash
  <2>1. cache'[c] \in {cache[c], Outdate(cache[c])}
    BY <1>5 DEF Crash
  <2> QED BY <1>2, <2>1
<1> QED BY <1>3, <1>4, <1>5 DEF Next, Turn

\* So is an answer.
LEMMA AnswerCarriedOut ==
  ASSUME RegistryInv, [Next]_vars, NEW q \in Requests, req'[q].kind = "data"
  PROVE  \/ req[q].kind = "data" \/ cache[CallOf[q]] # NoEntry \/ reached[q] > 0
<1>1. req \in [Requests -> Request] /\ req[q] \in Request
  BY DEF RegistryInv, TypeOK
<1>2. ASSUME NEW p \in Requests, Turn(p), p # q PROVE req[q].kind = "data"
  BY <1>2, TurnActs DEF ActsWell, Alike
<1>3. CASE Turn(q)
  <2>1. CASE Hit(q)
    BY <2>1 DEF Hit
  <2>2. CASE Reply(q) \/ SetCache(q)
    BY <2>2, Facts DEF Reply, SetCache, At, Consistent
  <2>3. CASE Serve(q)
    BY <1>1, <2>3 DEF Serve, Request
  <2>4. CASE MeetOpen(q) \/ CallFails(q)
    BY <1>1, <2>4 DEF MeetOpen, CallFails, ExecuteWithQueue, ExecuteFallback, Return, Request
  <2>5. CASE Added(q) \/ AddFails(q)
    BY <1>1, <2>5 DEF Added, AddFails, Return, Request
  <2>6. CASE Begin(q) \/ TakeJob(q)
    BY <1>1, <2>6 DEF Begin, TakeJob, Request
  <2>7. CASE ReplayOk(q) \/ ReplayFails(q)
    <3>1. req'[q] = req[q] \/ req'[q] = Outdated(req[q])
      BY <2>7 DEF ReplayOk, ReplayFails, Replayed
    <3> QED BY <1>1, <3>1, OutdatedFacts DEF Alike
  <2> QED BY <1>3, <2>1, <2>2, <2>3, <2>4, <2>5, <2>6, <2>7 DEF Turn
<1>4. CASE Bust \/ CircuitCloses \/ (\E d \in Calls : Expire(d)) \/ UNCHANGED vars
  BY <1>4, QuietKeepsInv
<1>5. CASE Crash
  <2>1. req'[q] = req[q] \/ req'[q] = Aborted
    BY <1>5 DEF Crash, Aborted
  <2> QED BY <2>1 DEF Aborted
<1> QED BY <1>2, <1>3, <1>4, <1>5 DEF Next, Turn

\* Answers stay covered by a call carried out.
LEMMA AnswersStep == RegistryInv /\ AnswersCarriedOut /\ [Next]_vars => AnswersCarriedOut'
<1> SUFFICES ASSUME RegistryInv, AnswersCarriedOut, [Next]_vars PROVE AnswersCarriedOut'
  OBVIOUS
<1>1. ASSUME NEW c \in Calls, cache'[c] # NoEntry PROVE CarriedOut(c)'
  BY <1>1, EntryCarriedOut, CarriedOutStays DEF AnswersCarriedOut
<1>2. ASSUME NEW q \in Requests, req'[q].kind = "data" PROVE CarriedOut(CallOf[q])'
  <2>1. CallOf[q] \in Calls
    BY CallTyped
  <2>2. reached[q] > 0 => CarriedOut(CallOf[q])
    BY DEF CarriedOut
  <2>3. CarriedOut(CallOf[q])
    BY <1>2, <2>1, <2>2, AnswerCarriedOut DEF AnswersCarriedOut
  <2> QED BY <2>1, <2>3, CarriedOutStays
<1> QED BY <1>1, <1>2 DEF AnswersCarriedOut

\* The strengthened invariant holds throughout.
LEMMA RegistryInvAlways == Spec => []RegistryInv
  BY RegistryInvInit, RegistryInvStep, PTL DEF Spec

LEMMA AnswersAlways == Spec => []AnswersCarriedOut
<1>1. Init => AnswersCarriedOut
  BY DEF Init, AnswersCarriedOut
<1> QED BY <1>1, AnswersStep, RegistryInvAlways, PTL DEF Spec

\* Whatever the queuePolicy, the order of calls, invalidations and replays, and
\* crashes, an answer that execute() does not mark degraded is the downstream's to
\* the very call made, and a call reaches it a bounded number of times.
THEOREM PortIsSafe == Spec => []PortSafe
<1>1. RegistryInv /\ AnswersCarriedOut => PortSafe
  <2> SUFFICES ASSUME RegistryInv, AnswersCarriedOut PROVE PortSafe
    OBVIOUS
  <2>1. OwnAnswer
    BY Facts DEF OwnAnswer, Consistent, AnswersCarriedOut
  <2>2. ASSUME NEW q \in Requests PROVE reached[q] <= 1 + MaxAttempts + crashes
    <3>1. /\ reached[q] \in Nat /\ crashes \in Nat /\ job[q].attempts \in Nat
          /\ reached[q] <= Allowed(req[q], job[q], crashes)
          /\ job[q].attempts <= MaxAttempts
          /\ job[q].state = "done" => job[q].attempts < MaxAttempts
      BY Facts DEF Consistent
    <3> QED BY <3>1, CallTyped DEF Allowed
  <2> QED BY <2>1, <2>2 DEF RegistryInv, PortSafe, ReachedBounded
<1> QED BY <1>1, RegistryInvAlways, AnswersAlways, PTL

\* Staleness of the read cache always has one of the causes StaleHasCause lists:
\* no order of writes, invalidations and late stores leaves an outdated entry that
\* nothing under way accounts for (execute, deleteByPattern, executeReplay).
THEOREM StalenessIsExplained == Spec => []StaleHasCause
<1>1. RegistryInv => StaleHasCause
  BY DEF RegistryInv
<1> QED BY <1>1, RegistryInvAlways, PTL

-----------------------------------------------------------------------------
(* PortRegistry implements QueuedCall *)

status == [q \in Requests |-> Fate(q)]

\* In a consistent state Fate is what Told says, and nothing is lost.
LEMMA FateIsTold ==
  ASSUME RegistryInv, NEW q \in Requests
  PROVE  Fate(q) = Told(req[q], job[q])
<1>1. /\ req[q].kind = "queued" => job[q].state \in Queued
      /\ job[q].state = "done" => reached[q] > 0
  BY Facts DEF Consistent
<1>2. CASE req[q].kind # "queued"
  BY <1>2 DEF Fate, Told
<1>3. CASE req[q].kind = "queued" /\ job[q].state = "done"
  BY <1>1, <1>3 DEF Fate, Told
<1>4. CASE req[q].kind = "queued" /\ job[q].state = "dead"
  BY <1>1, <1>4 DEF Fate, Told
<1>5. CASE req[q].kind = "queued" /\ job[q].state \in {"waiting", "active"}
  BY <1>1, <1>5 DEF Fate, Told
<1> QED BY <1>1, <1>2, <1>3, <1>4, <1>5 DEF Queued

\* Calls start as the promise has them start.
LEMMA StatusInit == Init => Promise!Init
  BY DEF Init, Promise!Init, Fate

\* Every step of the registry is a step of the promise, or leaves every fate as
\* it is.
LEMMA StatusStep == RegistryInv /\ RegistryInv' /\ [Next]_vars => [Promise!Next]_status
<1> SUFFICES ASSUME RegistryInv, RegistryInv', [Next]_vars PROVE [Promise!Next]_status
  OBVIOUS
<1>1. /\ status = [q \in Requests |-> Told(req[q], job[q])]
      /\ status' = [q \in Requests |-> Told(req'[q], job'[q])]
  <2>1. \A q \in Requests : Fate(q) = Told(req[q], job[q])
    BY FateIsTold
  <2>2. ASSUME NEW q \in Requests PROVE Fate(q)' = Told(req'[q], job'[q])
    <3>1. (Fate(q) = Told(req[q], job[q]))'
      BY FateIsTold, PTL
    <3> QED BY <3>1 DEF Told
  <2> QED BY <2>1, <2>2 DEF status
<1>2. ASSUME NEW q \in Requests, Turn(q) PROVE [Promise!Next]_status
  <2>1. ActsWell(q)
    BY <1>2, TurnActs
  <2>2. PICK t : t = Told(req'[q], job'[q])
    OBVIOUS
  <2>3. status' = [status EXCEPT ![q] = t] /\ status[q] = Told(req[q], job[q])
    <3>1. \A p \in Requests \ {q} : Told(req'[p], job'[p]) = Told(req[p], job[p])
      BY <2>1 DEF ActsWell, Alike, Told
    <3> QED BY <1>1, <2>2, <3>1
  <2>4. Proceeds(status[q], t)
    BY <2>1, <2>2, <2>3 DEF ActsWell
  <2>5. CASE status[q] = t
    <3>1. status' = status
      BY <1>1, <2>3, <2>5
    <3> QED BY <3>1
  <2>6. CASE status[q] = "none" /\ t \in {"data", "degraded", "error", "queued"}
    <3>1. Promise!Answer(q)
      BY <2>3, <2>6 DEF Promise!Answer, Promise!Answers, status
    <3> QED BY <3>1 DEF Promise!Next
  <2>7. CASE status[q] = "queued" /\ t \in {"applied", "dead"}
    <3>1. Promise!Settle(q)
      BY <2>3, <2>7 DEF Promise!Settle, Promise!Settled, status
    <3> QED BY <3>1 DEF Promise!Next
  <2> QED BY <2>4, <2>5, <2>6, <2>7 DEF Proceeds
<1>3. CASE Crash
  <2>1. PICK Q : Q = {q \in Requests : req[q].pc # "done"}
    OBVIOUS
  <2>2. \A q \in Requests :
          IF req[q].pc = "done" THEN Told(req'[q], job'[q]) = Told(req[q], job[q])
          ELSE Told(req[q], job[q]) = "none" /\ Told(req'[q], job'[q]) = "error"
    BY <1>3, CrashActs
  <2>3. status' = [q \in Requests |-> IF q \in Q THEN "error" ELSE status[q]]
    BY <1>1, <2>1, <2>2
  <2>4. Q \in SUBSET {q \in Requests : status[q] = "none"}
    BY <1>1, <2>1, <2>2
  <2>5. Promise!Abort
    BY <2>3, <2>4 DEF Promise!Abort, status
  <2> QED BY <2>5 DEF Promise!Next
<1>4. CASE Bust \/ CircuitCloses \/ (\E c \in Calls : Expire(c)) \/ UNCHANGED vars
  <2>1. req' = req /\ job' = job
    BY <1>4, QuietKeepsInv
  <2>2. status' = status
    BY <1>1, <2>1
  <2> QED BY <2>2
<1> QED BY <1>2, <1>3, <1>4 DEF Next, Turn

\* The registry implements QueuedCall, its liveness aside: a caller is answered
\* once, and a call answered 202 stays queued until its job carries it out or ends
\* as a dead letter, through crashes of the process and of its workers
\* (executeWithQueue, executeReplay).
THEOREM PromiseIsKept == Spec => Promise!Safety
<1>1. Init => Promise!Init
  BY StatusInit
<1>2. RegistryInv /\ RegistryInv' /\ [Next]_vars => [Promise!Next]_status
  BY StatusStep
<1> QED BY <1>1, <1>2, RegistryInvAlways, PTL DEF Spec, Promise!Safety, status
=============================================================================
