---------------------------- MODULE DatabasePools ----------------------------
(***************************************************************************)
(* DatabaseService: the named connection pools, checkConnection with its   *)
(* retries (what the database health indicator asks), and the closing of   *)
(* all pools at shutdown.  Probes run while the application shuts down and *)
(* keep the pool they looked up across their waits.                        *)
(*                                                                         *)
(* pg's Pool is external: connect() is refused once the pool is ending, by *)
(* a database that is down, and when no client is free for as long as      *)
(* connectionTimeoutMillis; end() is over when every client is back, or    *)
(* fails.                                                                  *)
(***************************************************************************)
EXTENDS Integers, FiniteSets

CONSTANTS Pools,         \* names of the registered pools
          CheckedPool,   \* the one the health indicator names
          HealthChecks,  \* concurrent checkConnection() calls
          MaxClients,    \* max of the pool
          MaxAttempts    \* maxAttempts of withRetry

VARIABLES pools,     \* names in the service's map
          pool,      \* name -> [ending, clients]: the Pool objects
          database,  \* is the database up
          check,     \* probe -> [stage, attempt, failures, answer]
          closing,   \* closePool() calls of the shutdown that are not settled
          shutdown,  \* "no", "closing" or "done"
          endFailed  \* history: names whose end() failed

poolVars == <<pools, pool, database, check, closing, shutdown, endFailed>>

NoCheck == [stage |-> "idle", attempt |-> 0, failures |-> 0, answer |-> TRUE]

\* registerPool() of each provider's factory, before anything else runs.
PoolsInit ==
  /\ pools = Pools
  /\ pool = [p \in Pools |-> [ending |-> FALSE, clients |-> {}]]
  /\ database = TRUE
  /\ check = [k \in HealthChecks |-> NoCheck]
  /\ closing = {} /\ shutdown = "no" /\ endFailed = {}

DatabaseChanges ==
  /\ database' = ~database
  /\ UNCHANGED <<pools, pool, check, closing, shutdown, endFailed>>

\* checkConnection: false at once for a name that is not in the map.
CheckConnection(k) ==
  /\ check[k].stage = "idle"
  /\ check' = [check EXCEPT ![k] = IF CheckedPool \in pools
                                   THEN [NoCheck EXCEPT !.stage = "connecting", !.attempt = 1]
                                   ELSE [NoCheck EXCEPT !.answer = FALSE]]
  /\ UNCHANGED <<pools, pool, database, closing, shutdown, endFailed>>

\* The catch of withRetry: wait, or throw the last error, which answers false.
Failed(c) ==
  IF c.attempt < MaxAttempts
  THEN [c EXCEPT !.stage = "waiting", !.failures = @ + 1]
  ELSE [c EXCEPT !.stage = "idle", !.failures = @ + 1, !.answer = FALSE]

Connect(k) ==
  /\ check[k].stage = "connecting"
  /\ database /\ ~pool[CheckedPool].ending
  /\ Cardinality(pool[CheckedPool].clients) < MaxClients
  /\ pool' = [pool EXCEPT ![CheckedPool].clients = @ \cup {k}]
  /\ check' = [check EXCEPT ![k].stage = "querying"]
  /\ UNCHANGED <<pools, database, closing, shutdown, endFailed>>

ConnectFails(k) ==
  /\ check[k].stage = "connecting"
  /\ \/ ~database \/ pool[CheckedPool].ending
     \/ Cardinality(pool[CheckedPool].clients) = MaxClients
  /\ check' = [check EXCEPT ![k] = Failed(@)]
  /\ UNCHANGED <<pools, pool, database, closing, shutdown, endFailed>>

\* client.release() in the finally, whatever the query did.
Release(k) == pool' = [pool EXCEPT ![CheckedPool].clients = @ \ {k}]

Query(k) ==
  /\ check[k].stage = "querying" /\ database
  /\ Release(k)
  /\ check' = [check EXCEPT ![k].stage = "idle", ![k].answer = TRUE]
  /\ UNCHANGED <<pools, database, closing, shutdown, endFailed>>

\* Mutant: the client is released after the query, not in a finally.
QueryFailsUnreleased(k) ==
  /\ check[k].stage = "querying" /\ ~database
  /\ check' = [check EXCEPT ![k] = Failed(@)]
  /\ UNCHANGED <<pools, pool, database, closing, shutdown, endFailed>>

QueryFails(k) ==
  /\ check[k].stage = "querying" /\ ~database
  /\ Release(k)
  /\ check' = [check EXCEPT ![k] = Failed(@)]
  /\ UNCHANGED <<pools, database, closing, shutdown, endFailed>>

\* The timer of withRetry fires; fn() has kept the pool.
NextAttempt(k) ==
  /\ check[k].stage = "waiting"
  /\ check' = [check EXCEPT ![k].stage = "connecting", ![k].attempt = @ + 1]
  /\ UNCHANGED <<pools, pool, database, closing, shutdown, endFailed>>

\* closeAllPools: closePool() of every name runs up to its await of end().
CloseAllPools ==
  /\ shutdown = "no" /\ shutdown' = "closing"
  /\ closing' = pools
  /\ pool' = [p \in Pools |-> [pool[p] EXCEPT !.ending = @ \/ p \in pools]]
  /\ UNCHANGED <<pools, database, check, endFailed>>

\* end() resolves and the name is deleted.
ClosePool(p) ==
  /\ p \in closing /\ pool[p].clients = {}
  /\ closing' = closing \ {p}
  /\ pools' = pools \ {p}
  /\ UNCHANGED <<pool, database, check, shutdown, endFailed>>

\* end() rejects: closePool rethrows, the catch in closeAllPools logs it.
ClosePoolFails(p) ==
  /\ p \in closing
  /\ closing' = closing \ {p}
  /\ endFailed' = endFailed \cup {p}
  /\ UNCHANGED <<pools, pool, database, check, shutdown>>

\* Promise.all over closings that no longer reject.
AllClosed ==
  /\ shutdown = "closing" /\ closing = {}
  /\ shutdown' = "done"
  /\ UNCHANGED <<pools, pool, database, check, closing, endFailed>>

CheckStep(k) ==
  \/ CheckConnection(k)
  \/ Connect(k)
  \/ ConnectFails(k)
  \/ Query(k)
  \/ QueryFails(k)
  \/ NextAttempt(k)

PoolsNext ==
  \/ \E k \in HealthChecks : CheckStep(k)
  \/ DatabaseChanges
  \/ CloseAllPools
  \/ \E p \in Pools : ClosePool(p) \/ ClosePoolFails(p)
  \/ AllClosed

-----------------------------------------------------------------------------
\* A probe says "down" only after all its attempts failed, or when the pool was
\* already closed as it began; and a shutdown that is over has ended every pool
\* whose end() did not fail, with no client out.
DownHasCause ==
  /\ \A k \in HealthChecks : check[k].stage = "idle" /\ ~check[k].answer =>
       check[k].failures = MaxAttempts \/ CheckedPool \notin pools
  /\ shutdown = "done" => /\ pools = endFailed
                          /\ \A p \in Pools \ endFailed : pool[p].clients = {}

\* closeAllPools comes to an end, though probes go on asking and may hold clients
\* of a database that keeps failing, and though a pool may refuse to close; and
\* DownHasCause holds all along.
ShutdownEnds ==
  /\ []DownHasCause
  /\ shutdown = "closing" ~> shutdown = "done"
=============================================================================
