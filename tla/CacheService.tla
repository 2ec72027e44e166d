---------------------------- MODULE CacheService ----------------------------
(***************************************************************************)
(* The two implementations of ICacheService (src/libs/shared/caching/):    *)
(* MemoryCacheService, a Map with expiry times, a size limit that evicts   *)
(* the oldest key, and incr() / decr() that await between read and write;  *)
(* and RedisCacheService, whose server (external) works atomically and     *)
(* whose commands may fail, each method turning the failure into its own   *)
(* answer.  Clients are requests sharing one instance.                     *)
(*                                                                         *)
(* Counters and claims are what callers keep in it: a value is a count.    *)
(***************************************************************************)
EXTENDS Integers, Sequences, FiniteSets, Selection

CONSTANTS CacheKeys, CacheClients,
          MaxEntries,     \* options.maxEntries
          ClaimTtl,       \* ttl given to setIfNotExist, in ticks
          MaxNow,         \* bound on the clock
          MaxIncrs        \* bound: increments of one key

\* "" stands for no key.  Room for one entry at least; a claim has a time to live.
ASSUME CacheAssumption ==
  /\ "" \notin CacheKeys
  /\ MaxEntries \in Nat \ {0} /\ ClaimTtl \in Nat \ {0}

VARIABLES backend,   \* "memory" or "redis"
          cache,     \* the entries in insertion order: [key, value, expiry], expiry 0 for none
          now,
          incr,      \* incr[c]: [key, read] while client c is between get and set
          claimed,   \* history: claimed[k] is when the last claim won runs out, 0 when released
          incrs,     \* history: increments of the key since it was last absent
          excuse     \* history: keys that lost something to eviction, overlap or expiry

cacheVars == <<backend, cache, now, incr, claimed, incrs, excuse>>

Idle == [key |-> "", read |-> -1]

CacheInit ==
  /\ backend \in {"memory", "redis"}
  /\ cache = <<>>
  /\ now = 1
  /\ incr = [c \in CacheClients |-> Idle]
  /\ claimed = [k \in CacheKeys |-> 0]
  /\ incrs = [k \in CacheKeys |-> 0]
  /\ excuse = {}

Has(k) == \E i \in DOMAIN cache : cache[i].key = k
Entry(k) == CHOOSE e \in {cache[i] : i \in DOMAIN cache} : e.key = k
Without(keys) == Filtered(cache, {i \in DOMAIN cache : cache[i].key \notin keys})

\* get() and exists() take `now > expiry' for expired; the server drops at expiry.
Expired(e) == e.expiry # 0 /\ (IF backend = "memory" THEN now > e.expiry ELSE now >= e.expiry)
ExpiredKeys == {k \in CacheKeys : Has(k) /\ Expired(Entry(k))}
Value(k) == IF Has(k) /\ ~Expired(Entry(k)) THEN Entry(k).value ELSE 0

\* Map.set keeps the place of a key it has; otherwise the oldest makes room.
Put(k, v, expiry) ==
  LET e == [key |-> k, value |-> v, expiry |-> expiry]
  IN IF Has(k) THEN [i \in DOMAIN cache |-> IF cache[i].key = k THEN e ELSE cache[i]]
     ELSE IF backend = "memory" /\ Len(cache) >= MaxEntries THEN Append(Tail(cache), e)
     ELSE Append(cache, e)

Evicted(k) ==
  IF backend = "memory" /\ ~Has(k) /\ Len(cache) >= MaxEntries THEN {cache[1].key} ELSE {}

\* get(): an expired entry is deleted on the way.
Get(k) ==
  /\ Has(k) /\ Expired(Entry(k))
  /\ cache' = Without({k})
  /\ excuse' = excuse \cup {k}
  /\ UNCHANGED <<backend, now, incr, claimed, incrs>>

\* setIfNotExist() asks `expiry > now', get() asks `now > expiry'.
FreeForClaim(k) ==
  IF Has(k) THEN Entry(k).expiry # 0 /\ Entry(k).expiry <= now ELSE TRUE

SetIfNotExist(k) ==
  /\ FreeForClaim(k)
  /\ cache' = Put(k, 1, now + ClaimTtl)
  /\ claimed' = [claimed EXCEPT ![k] = now + ClaimTtl]
  /\ excuse' = excuse \cup Evicted(k) \cup {k}
  /\ UNCHANGED <<backend, now, incr, incrs>>

\* set() and mset(): a claim or a count under the key is overwritten.
Set(k, ttl) ==
  /\ cache' = Put(k, 1, IF ttl = 0 THEN 0 ELSE now + ttl)
  /\ claimed' = [claimed EXCEPT ![k] = 0]
  /\ excuse' = excuse \cup Evicted(k) \cup {k}
  /\ UNCHANGED <<backend, now, incr, incrs>>

\* delete(), mdelete(), deleteByPattern() and clear() remove a set of keys.
Delete(keys) ==
  /\ \E k \in keys : Has(k)
  /\ cache' = Without(keys)
  /\ claimed' = [k \in CacheKeys |-> IF k \in keys THEN 0 ELSE claimed[k]]
  /\ excuse' = excuse \cup keys
  /\ UNCHANGED <<backend, now, incr, incrs>>

\* Mutant: a counter that is absent starts at one before it is incremented.
NextCountFromOne(read) == (IF read = 0 THEN 1 ELSE read) + 1

NextCount(read) == read + 1

\* In memory: the read, then an await, then the write, which has no ttl.
IncrRead(c, k) ==
  /\ backend = "memory" /\ incr[c] = Idle
  /\ incr' = [incr EXCEPT ![c] = [key |-> k, read |-> Value(k)]]
  /\ cache' = Without({k} \cap ExpiredKeys)
  /\ excuse' = excuse \cup ({k} \cap ExpiredKeys)
       \cup (IF \E d \in CacheClients : incr[d].key = k THEN {k} ELSE {})
  /\ UNCHANGED <<backend, now, claimed, incrs>>

IncrWrite(c) ==
  LET k == incr[c].key IN
  /\ incr[c] # Idle /\ incrs[k] < MaxIncrs
  /\ cache' = Put(k, NextCount(incr[c].read), 0)
  /\ incr' = [incr EXCEPT ![c] = Idle]
  /\ incrs' = [incrs EXCEPT ![k] = @ + 1]
  /\ excuse' = excuse \cup Evicted(k)
  /\ UNCHANGED <<backend, now, claimed>>

\* On the server INCRBY is one step and keeps the expiry.
IncrOnServer(k) ==
  /\ backend = "redis" /\ incrs[k] < MaxIncrs
  /\ cache' = Put(k, NextCount(Value(k)),
                  IF Has(k) /\ ~Expired(Entry(k)) THEN Entry(k).expiry ELSE 0)
  /\ incrs' = [incrs EXCEPT ![k] = @ + 1]
  /\ excuse' = excuse \cup ({k} \cap ExpiredKeys)
  /\ UNCHANGED <<backend, now, incr, claimed>>

\* cleanup(), every minute; the server does the same on its own.
Cleanup ==
  /\ ExpiredKeys # {}
  /\ cache' = Without(ExpiredKeys)
  /\ excuse' = excuse \cup ExpiredKeys
  /\ UNCHANGED <<backend, now, incr, claimed, incrs>>

CacheTick ==
  /\ now < MaxNow /\ now' = now + 1
  /\ UNCHANGED <<backend, cache, incr, claimed, incrs, excuse>>

CacheNext ==
  \/ \E k \in CacheKeys : Get(k)
  \/ \E k \in CacheKeys : SetIfNotExist(k)
  \/ \E k \in CacheKeys, ttl \in {0, ClaimTtl} : Set(k, ttl)
  \/ \E keys \in SUBSET CacheKeys : Delete(keys)
  \/ \E c \in CacheClients, k \in CacheKeys : IncrRead(c, k)
  \/ \E c \in CacheClients : IncrWrite(c)
  \/ \E k \in CacheKeys : IncrOnServer(k)
  \/ Cleanup
  \/ CacheTick

CacheSpec == CacheInit /\ [][CacheNext]_cacheVars

-----------------------------------------------------------------------------
\* The Map stays within maxEntries and holds a key once, through every order of
\* set, incr, claims, eviction and expiry (MemoryCacheService.set).
CacheBounded ==
  /\ backend = "memory" => Len(cache) <= MaxEntries
  /\ \A i, j \in DOMAIN cache : cache[i].key = cache[j].key => i = j

\* A claim holds for its whole ttl: setIfNotExist() lets a second caller win only
\* once it ran out, was deleted, or its entry was overwritten or evicted to make
\* room (in memory, a flood of other keys takes claims with it).
ClaimHolds ==
  \A k \in CacheKeys :
    claimed'[k] # claimed[k] /\ claimed'[k] # 0 /\ now < claimed[k] => ~Has(k)

\* A counter has counted every incr(), no more and no fewer, as long as
\* no two incr() calls overlapped and nothing was evicted, deleted or expired:
\* the read and the write of the in-memory incr() are separate steps.
CounterExact ==
  \A k \in CacheKeys :
    k \notin excuse => Value(k) = incrs[k]

\* Under concurrent clients every step leaves the cache with its bound, its counts
\* and the claims made on it.
CacheKeepsWord == [][CacheBounded' /\ CounterExact' /\ ClaimHolds]_cacheVars
=============================================================================
