-------------------------- MODULE FallbackProvider --------------------------
(***************************************************************************)
(* FallbackProvider and the @Fallback decorator                            *)
(* (src/libs/shared/resilience/fallback.provider.ts): registered fallback  *)
(* functions, the Map of cached results with one setTimeout per setCached, *)
(* and decorated calls that fill the cache on success and read it on       *)
(* failure.  The registered functions are the ones of CommonFallbacks:     *)
(* those that return something of their own, `cachedValue', and those that *)
(* throw.                                                                  *)
(***************************************************************************)
EXTENDS Integers, FiniteSets

CONSTANTS FallbackKeys,   \* operation and cache keys
          Ttls,           \* the ttlMs values used, in ticks; 0 for none
          MaxTimers,      \* bound: timers armed at once
          MaxVersion      \* bound: results ever produced

ASSUME FallbackAssumption == Ttls \subseteq Nat

VARIABLES fallbacks,      \* key -> kind of the registered function, "none" if absent
          fallbackCache,  \* key -> version of the result cached, 0 if absent
          timers,         \* armed timers: [key, left, version]
          ttl,            \* history: the ttlMs the key was last set with
          age,            \* history: time since then, saturating
          version,        \* the results produced so far, numbered
          lastOutcome     \* what the last call of execute() or a decorated method gave

fallbackVars == <<fallbacks, fallbackCache, timers, ttl, age, version, lastOutcome>>

Kinds == {"value", "cached", "throws"}
LongestTtl == CHOOSE t \in Ttls : \A u \in Ttls : u <= t

FallbackInit ==
  /\ fallbacks = [k \in FallbackKeys |-> "none"]
  /\ fallbackCache = [k \in FallbackKeys |-> 0]
  /\ timers = {}
  /\ ttl = [k \in FallbackKeys |-> 0]
  /\ age = [k \in FallbackKeys |-> 0]
  /\ version = 0
  /\ lastOutcome = "none"

Register(k, kind) ==
  /\ fallbacks' = [fallbacks EXCEPT ![k] = kind]
  /\ UNCHANGED <<fallbackCache, timers, ttl, age, version, lastOutcome>>

Unregister(k) ==
  /\ fallbacks[k] # "none"
  /\ fallbacks' = [fallbacks EXCEPT ![k] = "none"]
  /\ UNCHANGED <<fallbackCache, timers, ttl, age, version, lastOutcome>>

\* execute(): the registered function's answer, and the original error when
\* there is none registered or it throws (cachedValue throws on a miss).
FallbackResult(k) ==
  IF fallbacks[k] = "value" THEN "fallback"
  ELSE IF fallbacks[k] = "cached" /\ fallbackCache[k] # 0 THEN "stale"
  ELSE "originalError"

FallbackExecute(k) ==
  /\ lastOutcome' = FallbackResult(k)
  /\ UNCHANGED <<fallbacks, fallbackCache, timers, ttl, age, version>>

\* Mutant: a key that is cached already keeps the timer it has.
SetCachedOnce(k, t) ==
  /\ fallbackCache' = [fallbackCache EXCEPT ![k] = version + 1]
  /\ timers' = IF t > 0 /\ fallbackCache[k] = 0
               THEN timers \cup {[key |-> k, left |-> t, version |-> version + 1]}
               ELSE timers
  /\ ttl' = [ttl EXCEPT ![k] = t] /\ age' = [age EXCEPT ![k] = 0]

\* setCached(): the Map entry, and a timer of its own when there is a ttl; a
\* timer armed before is neither cancelled nor told apart.
SetCached(k, t) ==
  /\ fallbackCache' = [fallbackCache EXCEPT ![k] = version + 1]
  /\ timers' = IF t > 0 THEN timers \cup {[key |-> k, left |-> t, version |-> version + 1]}
               ELSE timers
  /\ ttl' = [ttl EXCEPT ![k] = t] /\ age' = [age EXCEPT ![k] = 0]

\* A decorated method succeeds and its result is cached under options.cacheKey.
DecoratedSucceeds(k, t) ==
  /\ version < MaxVersion /\ Cardinality(timers) < MaxTimers
  /\ SetCached(k, t)
  /\ version' = version + 1
  /\ lastOutcome' = "result"
  /\ UNCHANGED fallbacks

\* @Fallback('key'): the cached result, or undefined as if it were a result.
DecoratedFailsToCache(k) ==
  /\ lastOutcome' = IF fallbackCache[k] # 0 THEN "stale" ELSE "undefined"
  /\ UNCHANGED <<fallbacks, fallbackCache, timers, ttl, age, version>>

\* @Fallback(fn): the function's result, or its own error.
DecoratedFailsToFunction ==
  /\ lastOutcome' \in {"fallback", "fallbackError"}
  /\ UNCHANGED <<fallbacks, fallbackCache, timers, ttl, age, version>>

ClearCached(k) ==
  /\ fallbackCache[k] # 0
  /\ fallbackCache' = [fallbackCache EXCEPT ![k] = 0]
  /\ UNCHANGED <<fallbacks, timers, ttl, age, version, lastOutcome>>

\* clear(): both Maps; the timers stay armed.
ClearAll ==
  /\ fallbacks' = [k \in FallbackKeys |-> "none"]
  /\ fallbackCache' = [k \in FallbackKeys |-> 0]
  /\ UNCHANGED <<timers, ttl, age, version, lastOutcome>>

\* A timer fires: it deletes the key, whichever result the key holds by now.
TimerFires(m) ==
  /\ m.left = 0
  /\ timers' = timers \ {m}
  /\ fallbackCache' = [fallbackCache EXCEPT ![m.key] = 0]
  /\ UNCHANGED <<fallbacks, ttl, age, version, lastOutcome>>

\* Time passes; a timer that is due fires before more of it does.
FallbackTick ==
  /\ \A m \in timers : m.left > 0
  /\ timers' = {[m EXCEPT !.left = @ - 1] : m \in timers}
  /\ age' = [k \in FallbackKeys |-> IF age[k] > LongestTtl THEN age[k] ELSE age[k] + 1]
  /\ UNCHANGED <<fallbacks, fallbackCache, ttl, version, lastOutcome>>

FallbackNext ==
  \/ \E k \in FallbackKeys, kind \in Kinds : Register(k, kind)
  \/ \E k \in FallbackKeys : Unregister(k)
  \/ \E k \in FallbackKeys : FallbackExecute(k)
  \/ \E k \in FallbackKeys, t \in Ttls : DecoratedSucceeds(k, t)
  \/ \E k \in FallbackKeys : DecoratedFailsToCache(k)
  \/ DecoratedFailsToFunction
  \/ \E k \in FallbackKeys : ClearCached(k)
  \/ ClearAll
  \/ \E m \in timers : TimerFires(m)
  \/ FallbackTick

FallbackSpec == FallbackInit /\ [][FallbackNext]_fallbackVars

-----------------------------------------------------------------------------
\* A result cached with a ttl is never served past it: timers are left over by
\* overwrites, clearCached() and clear(), and may delete a newer result early,
\* but none of that lets a result outlive its own ttl.
FallbackIsHonest ==
  \A k \in FallbackKeys :
    fallbackCache[k] # 0 /\ ttl[k] > 0 =>
      /\ age[k] <= ttl[k]
      /\ \E m \in timers : m.key = k /\ m.left <= ttl[k] - age[k]
=============================================================================
