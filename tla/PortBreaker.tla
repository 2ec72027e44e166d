---------------------------- MODULE PortBreaker ----------------------------
(***************************************************************************)
(* One port's circuit breaker as PortRegistry.execute drives it            *)
(* (src/libs/shared/port/port-registry.service.ts): the gate before the    *)
(* adapter call, the call itself, during which other requests run, and     *)
(* recordSuccess / recordFailure + shouldOpen when it settles.             *)
(*                                                                         *)
(* A request that finds the circuit OPEN before the reset timeout goes to  *)
(* executeWithQueue and leaves the breaker alone; what it is served is the *)
(* subject of module PortRegistry.                                         *)
(***************************************************************************)
EXTENDS CircuitBreakerState, FiniteSets

CONSTANTS Callers,      \* concurrent requests to the port
          MaxRequests   \* bound: no call starts once this many are counted or running

ASSUME CallersAssumption == IsFiniteSet(Callers) /\ MaxRequests \in Nat

VARIABLES cb,       \* the port's CircuitBreakerState
          call,     \* call[c]: not calling, or the gate the adapter call went through
          healthy,  \* does the downstream answer at present?
          rest      \* history: time since open() last ran (saturating)

vars == <<cb, call, healthy, rest>>

CallState == {"idle", "normal", "probe"}

TypeOK ==
  /\ cb \in Breaker
  /\ call \in [Callers -> CallState]
  /\ healthy \in BOOLEAN
  /\ rest \in 0..MaxElapsed

Running == {c \in Callers : call[c] # "idle"}

Init ==
  /\ cb = Fresh
  /\ call = [c \in Callers |-> "idle"]
  /\ healthy = TRUE
  /\ rest = 0

\* CLOSED and HALF_OPEN both let the request through to the adapter.
Admit(c) ==
  /\ call[c] = "idle"
  /\ cb.state # "OPEN"
  /\ cb.successCount + cb.failureCount + Cardinality(Running) < MaxRequests
  /\ call' = [call EXCEPT ![c] = IF cb.state = "CLOSED" THEN "normal" ELSE "probe"]
  /\ UNCHANGED <<cb, healthy, rest>>

\* OPEN long enough: halfOpen(), then the request goes through as the probe.
Probe(c) ==
  /\ call[c] = "idle"
  /\ ShouldAttemptReset(cb)
  /\ cb' = HalfOpen(cb)
  /\ call' = [call EXCEPT ![c] = "probe"]
  /\ UNCHANGED <<healthy, rest>>

\* The ghost restarts when a step runs open().
Rested == IF cb.state # "OPEN" /\ cb'.state = "OPEN" THEN 0 ELSE rest

Settle(c, breaker) ==
  /\ call[c] # "idle"
  /\ call' = [call EXCEPT ![c] = "idle"]
  /\ cb' = breaker
  /\ rest' = Rested
  /\ UNCHANGED healthy

Succeed(c) == healthy /\ Settle(c, RecordSuccess(cb))

\* A timeout or a 5xx: isInfrastructureError is true.
FailInfra(c) == ~healthy /\ Settle(c, AfterFailure(cb, TRUE))

\* A 4xx: isInfrastructureError is false.
FailClient(c) == Settle(c, AfterFailure(cb, FALSE))

Tick ==
  /\ cb' = [cb EXCEPT !.elapsed = Age(@)]
  /\ rest' = Age(rest)
  /\ UNCHANGED <<call, healthy>>

\* The downstream goes down or comes back.
Turn == healthy' = ~healthy /\ UNCHANGED <<cb, call, rest>>

Next ==
  \/ \E c \in Callers : Admit(c)
  \/ \E c \in Callers : Probe(c)
  \/ \E c \in Callers : Succeed(c)
  \/ \E c \in Callers : FailInfra(c)
  \/ \E c \in Callers : FailClient(c)
  \/ Tick
  \/ Turn

Spec == Init /\ [][Next]_vars

(***************************************************************************)
(* Fairness: the clock runs, adapter calls settle (the HTTP client aborts  *)
(* them at the port's timeout), customers keep calling the port, and not   *)
(* every request they send is answered 4xx.                                *)
(***************************************************************************)
Fairness ==
  /\ WF_vars(Tick)
  /\ \A c \in Callers : WF_vars(Admit(c) \/ Probe(c))
  /\ \A c \in Callers : WF_vars(Succeed(c) \/ FailInfra(c) \/ FailClient(c))
  /\ SF_vars(\E c \in Callers : Succeed(c))

FairSpec == Spec /\ Fairness

-----------------------------------------------------------------------------
\* The counters stay consistent across trips, probes, late answers and window
\* roll-overs (recordSuccess, recordFailure, cleanupOldRequests): `failures' is
\* exactly the running failure count, `requests' lies between the successes and
\* the true total, and a HALF_OPEN circuit starts from zero.
MetricsCoherent == Coherent(cb)

\* A closed circuit trips only on real evidence: at least MinRequests calls
\* settled since the metrics were last cleared, and at least one of them failed
\* with an infrastructure error (shouldOpen, whatever cleanupOldRequests did).
TripNeedsEvidence ==
  [][cb.state = "CLOSED" /\ cb'.state = "OPEN" =>
       /\ cb'.successCount + cb'.failureCount >= MinRequests
       /\ cb'.failureCount >= 1]_vars

\* After open() the downstream is left alone for the whole reset timeout: the
\* circuit does not leave OPEN earlier, however many calls admitted before the
\* trip answer meanwhile (recordSuccess, cleanupOldRequests moving
\* stateChangedAt, shouldAttemptReset).
OpenRests ==
  [][cb.state = "OPEN" /\ cb'.state # "OPEN" => rest >= ResetTimeout]_vars

\* An open circuit is always tried again while customers keep calling
\* (shouldAttemptReset / halfOpen in PortRegistry.execute).
OpenIsLeft == cb.state = "OPEN" ~> cb.state # "OPEN"

\* Once the downstream stays up, the circuit ends up closed for good: late
\* failures, client errors and metrics left over from the outage cannot keep
\* re-opening it.
RecoveryCloses == <>[]healthy => <>[](cb.state = "CLOSED")

\* A port's circuit is left after its rest and closes once calls succeed again.
CircuitRecovers == OpenIsLeft /\ RecoveryCloses
=============================================================================
