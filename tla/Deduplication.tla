--------------------------- MODULE Deduplication ---------------------------
(***************************************************************************)
(* The two uses of InboundIdempotencyService                               *)
(* (src/libs/shared/port/inbound-idempotency.service.ts): claim(), made    *)
(* for a webhook's ingress, and check() / store() around the downstream    *)
(* call of PortRegistry.execute; and the @Idempotent command decorator     *)
(* (src/libs/shared/idempotency/idempotent.decorator.ts), which has the    *)
(* shape of the latter.  Deliveries of one message overlap, are repeated,  *)
(* and may lose their process half-way.                                    *)
(*                                                                         *)
(* The store is ICacheService: in memory an entry may be evicted; on Redis *)
(* a command may fail, which get() answers with null and setIfNotExist()   *)
(* with false, neither of them by throwing.                                *)
(***************************************************************************)
EXTENDS Integers, FiniteSets

CONSTANTS Deliveries   \* deliveries of the same message id

VARIABLES store,      \* the value under idempotency:{hash}: "none", "claimed" or "result"
          redis,      \* is the cache service RedisCacheService?
          path,       \* path[d]: which of the three uses d goes through
          progress,   \* progress[d]
          work,       \* history: deliveries whose work was done downstream
          replied,    \* replied[d]
          lost,       \* history: the entry was evicted or expired, or a command failed
          overlap     \* history: two deliveries were between check and store at once

dedupVars == <<store, redis, path, progress, work, replied, lost, overlap>>

\* claim() and check() share their keys; a command has keys of its own.
DedupInit ==
  /\ store = "none" /\ redis \in BOOLEAN
  /\ path \in [Deliveries -> {"webhook", "port"}] \cup [Deliveries -> {"command"}]
  /\ progress = [d \in Deliveries |-> "new"]
  /\ work = {} /\ replied = [d \in Deliveries |-> "none"]
  /\ lost = FALSE /\ overlap = FALSE

FinishDelivery(d, a) ==
  /\ progress' = [progress EXCEPT ![d] = "done"]
  /\ replied' = [replied EXCEPT ![d] = a]

\* claim() wins: SETNX.
ClaimWins(d) ==
  /\ progress[d] = "new" /\ path[d] = "webhook" /\ store = "none"
  /\ store' = "claimed"
  /\ progress' = [progress EXCEPT ![d] = "working"]
  /\ UNCHANGED <<redis, path, work, replied, lost, overlap>>

ClaimLost(d) ==
  /\ progress[d] = "new" /\ path[d] = "webhook" /\ store # "none"
  /\ FinishDelivery(d, "dropped")
  /\ UNCHANGED <<store, redis, path, work, lost, overlap>>

\* Redis fails: setIfNotExist() answers false and claim() passes it on.
ClaimFails(d) ==
  /\ progress[d] = "new" /\ path[d] = "webhook" /\ redis
  /\ FinishDelivery(d, "dropped")
  /\ lost' = TRUE
  /\ UNCHANGED <<store, redis, path, work, overlap>>

\* check() or getExisting() finds something: what claim() leaves under the key
\* is served like a result; a command may ask for an error instead.  On Redis
\* getExisting() never does: storedAt comes back from JSON a string, and the
\* TypeError of logging it is caught as a miss.
CheckHits(d) ==
  /\ progress[d] = "new" /\ path[d] # "webhook" /\ store # "none"
  /\ ~(path[d] = "command" /\ redis)
  /\ \E a \in {IF store = "claimed" THEN "placeholder" ELSE "cached"}
            \cup (IF path[d] = "command" THEN {"duplicate"} ELSE {}) : FinishDelivery(d, a)
  /\ UNCHANGED <<store, redis, path, work, lost, overlap>>

\* Nothing is found, or the store failed: the downstream call begins.
CheckMisses(d) ==
  /\ progress[d] = "new" /\ path[d] # "webhook"
  /\ store = "none" \/ redis
  /\ progress' = [progress EXCEPT ![d] = "working"]
  /\ lost' = (lost \/ store # "none")
  /\ overlap' = (overlap \/ \E e \in Deliveries : progress[e] \in {"working", "worked"})
  /\ UNCHANGED <<store, redis, path, work, replied>>

Works(d) ==
  /\ progress[d] = "working"
  /\ work' = work \cup {d}
  /\ IF path[d] = "webhook" THEN FinishDelivery(d, "result")
     ELSE progress' = [progress EXCEPT ![d] = "worked"] /\ UNCHANGED replied
  /\ UNCHANGED <<store, redis, path, lost, overlap>>

\* The downstream call or the method throws: nothing is stored.
WorkFails(d) ==
  /\ progress[d] = "working"
  /\ FinishDelivery(d, "error")
  /\ UNCHANGED <<store, redis, path, work, lost, overlap>>

\* Mutant: the result is not stored.
StoreSkipped(d) ==
  /\ progress[d] = "worked"
  /\ UNCHANGED store
  /\ FinishDelivery(d, "result")
  /\ UNCHANGED <<redis, path, work, lost, overlap>>

Store(d) ==
  /\ progress[d] = "worked"
  /\ store' = "result"
  /\ FinishDelivery(d, "result")
  /\ UNCHANGED <<redis, path, work, lost, overlap>>

\* The failed set() is caught and logged; the caller has its result.
StoreFails(d) ==
  /\ progress[d] = "worked" /\ redis
  /\ FinishDelivery(d, "result") /\ lost' = TRUE
  /\ UNCHANGED <<store, redis, path, work, overlap>>

\* 24 hours pass, or in memory the entry makes room for another.
EntryGone ==
  /\ store # "none"
  /\ store' = "none" /\ lost' = TRUE
  /\ UNCHANGED <<redis, path, progress, work, replied, overlap>>

\* The process of a delivery dies; the sender delivers again under another d.
DeliveryCrashes(d) ==
  /\ progress[d] \in {"working", "worked"}
  /\ FinishDelivery(d, "error")
  /\ UNCHANGED <<store, redis, path, work, lost, overlap>>

DedupNext ==
  \/ \E d \in Deliveries : ClaimWins(d)
  \/ \E d \in Deliveries : ClaimLost(d)
  \/ \E d \in Deliveries : ClaimFails(d)
  \/ \E d \in Deliveries : CheckHits(d)
  \/ \E d \in Deliveries : CheckMisses(d)
  \/ \E d \in Deliveries : Works(d)
  \/ \E d \in Deliveries : WorkFails(d)
  \/ \E d \in Deliveries : Store(d)
  \/ \E d \in Deliveries : StoreFails(d)
  \/ EntryGone
  \/ \E d \in Deliveries : DeliveryCrashes(d)

DedupSpec == DedupInit /\ [][DedupNext]_dedupVars

-----------------------------------------------------------------------------
\* claim() lets at most one delivery through to the work as long as its entry
\* stands, however the deliveries interleave.
ClaimedOnce ==
  lost \/ Cardinality({d \in work : path[d] = "webhook"}) <= 1

\* check() and store() enclose the work without a lock, yet a message is worked
\* on twice only if two deliveries overlapped, the entry was lost, or a process
\* died between its work and its store.
WorkedTwiceHasCause ==
  Cardinality({d \in work : path[d] # "webhook"}) > 1 =>
    overlap \/ lost \/ \E d \in work : replied[d] = "error"

\* A result served from the store was produced by some delivery's work; what
\* claim() put there is served only where a webhook shares the key.
CachedWasProduced ==
  /\ (\E d \in Deliveries : replied[d] = "cached") => work # {}
  /\ (\E d \in Deliveries : replied[d] = "placeholder") =>
       \E d \in Deliveries : path[d] = "webhook"

\* A message delivered again is worked on once, and its stored result is real, but
\* for the causes the three parts name.
WorkedOnce == ClaimedOnce /\ WorkedTwiceHasCause /\ CachedWasProduced
=============================================================================
