------------------------------- MODULE Health -------------------------------
(***************************************************************************)
(* HealthService, its three indicators and GET /health/ready, probed by a  *)
(* load balancer that may gate the traffic on the answer. The balancer and *)
(* the dependencies are external.                                          *)
(*                                                                         *)
(* The circuit breakers are reduced to what the probe sees of them (module *)
(* PortBreaker has them in full): a failing downstream opens one, and only *)
(* a call after the reset timeout takes it on to HALF_OPEN.  A call is a   *)
(* request the balancer let in before, or one of the ticker of             *)
(* ChatOutboxForwarder, which runs on every instance, routed or not.       *)
(***************************************************************************)
EXTENDS Integers, FiniteSets

CONSTANTS HealthPorts,     \* registered ports
          BackgroundPorts, \* those a background ticker calls (cskh-chat)
          MaxOutages,      \* bound on outages of the dependencies
          MaxTogether      \* how many of them one outage takes down

VARIABLES gated,     \* does the balancer stop traffic to an instance not ready
          routed,    \* does traffic reach this instance
          up,        \* "database", "redis" or port -> is it working
          outages,
          circuit,   \* port -> [state, elapsed]
          inside,    \* port -> are requests on their way to its gate
          backlog,   \* does chat_outbox hold a row to forward
          probe,     \* [stage, checks]: checkHealth under way
          ready      \* last answer of GET /health/ready

balancer == <<gated, routed>>
calls == <<inside, backlog>>
healthVars == <<balancer, up, outages, circuit, calls, probe, ready>>

ASSUME HealthAssumption == BackgroundPorts \subseteq HealthPorts

Indicators == {"database", "redis", "ports"}
Dependencies == {"database", "redis"} \cup HealthPorts
NoProbe == [stage |-> "idle", checks |-> [i \in {} |-> "UP"]]

HealthInit ==
  /\ gated \in BOOLEAN /\ routed = TRUE
  /\ up = [d \in Dependencies |-> TRUE] /\ outages = 0
  /\ circuit = [p \in HealthPorts |-> [state |-> "CLOSED", elapsed |-> FALSE]]
  /\ inside = [p \in HealthPorts |-> FALSE] /\ backlog = FALSE
  /\ probe = NoProbe
  /\ ready = TRUE

\* Dependencies fail, a few together, and recover one by one.
Outage ==
  /\ outages < MaxOutages /\ outages' = outages + 1
  /\ \E down \in SUBSET Dependencies :
       /\ Cardinality(down) \in 1..MaxTogether
       /\ up' = [d \in Dependencies |-> up[d] /\ d \notin down]
  /\ UNCHANGED <<balancer, circuit, calls, probe, ready>>

Recovery(d) ==
  /\ ~up[d] /\ up' = [up EXCEPT ![d] = TRUE]
  /\ UNCHANGED <<balancer, outages, circuit, calls, probe, ready>>

-----------------------------------------------------------------------------
\* A request for the port arrives; the balancer lets it in on a routed instance.
Arrives(p) ==
  /\ routed /\ ~inside[p] /\ inside' = [inside EXCEPT ![p] = TRUE]
  /\ UNCHANGED <<balancer, up, outages, circuit, backlog, probe, ready>>

\* Rows are accepted and forwarded, by this instance or by another on the same table.
BacklogChanges ==
  /\ backlog' = ~backlog
  /\ UNCHANGED <<balancer, up, outages, circuit, inside, probe, ready>>

\* The port is called: some of the requests inside reach its gate, or the ticker's
\* flushOnce does, with a row to send.
Called(p) ==
  \/ inside[p] /\ \E more \in BOOLEAN : inside' = [inside EXCEPT ![p] = more]
  \/ p \in BackgroundPorts /\ backlog /\ UNCHANGED inside

\* The last of them go by a gate that is closed to them, or opened wide.
PassesBy(p) ==
  /\ inside[p] /\ ~(circuit[p].state = "OPEN" /\ circuit[p].elapsed)
  /\ inside' = [inside EXCEPT ![p] = FALSE]
  /\ UNCHANGED <<balancer, up, outages, circuit, backlog, probe, ready>>

\* Enough failures of a port's calls open its circuit.
Opens(p) ==
  /\ ~up[p] /\ circuit[p].state = "CLOSED" /\ Called(p)
  /\ circuit' = [circuit EXCEPT ![p] = [state |-> "OPEN", elapsed |-> FALSE]]
  /\ UNCHANGED <<balancer, up, outages, backlog, probe, ready>>

ResetTimeoutElapses(p) ==
  /\ circuit[p].state = "OPEN" /\ ~circuit[p].elapsed
  /\ circuit' = [circuit EXCEPT ![p].elapsed = TRUE]
  /\ UNCHANGED <<balancer, up, outages, calls, probe, ready>>

\* The gate of the next call after the timeout.
Trial(p) ==
  /\ circuit[p].state = "OPEN" /\ circuit[p].elapsed /\ Called(p)
  /\ circuit' = [circuit EXCEPT ![p] = [state |-> "HALF_OPEN", elapsed |-> FALSE]]
  /\ UNCHANGED <<balancer, up, outages, backlog, probe, ready>>

\* Mutant: the outcome is read the wrong way round.
TrialEndsInverted(p) ==
  /\ circuit[p].state = "HALF_OPEN"
  /\ circuit' = [circuit EXCEPT ![p].state = IF up[p] THEN "OPEN" ELSE "CLOSED"]
  /\ UNCHANGED <<balancer, up, outages, calls, probe, ready>>

\* The trial request under way ends, gated or not.
TrialEnds(p) ==
  /\ circuit[p].state = "HALF_OPEN"
  /\ circuit' = [circuit EXCEPT ![p].state = IF up[p] THEN "CLOSED" ELSE "OPEN"]
  /\ UNCHANGED <<balancer, up, outages, calls, probe, ready>>

-----------------------------------------------------------------------------
CircuitStates == {circuit[p].state : p \in HealthPorts}

\* PortHealthIndicator.check
PortStatus ==
  CASE "OPEN" \in CircuitStates -> "DOWN"
    [] "OPEN" \notin CircuitStates /\ "HALF_OPEN" \in CircuitStates -> "DEGRADED"
    [] OTHER -> "UP"

\* A round trip each; a failure or an unexpected answer is DOWN. The database is
\* asked up to three times (module DatabasePools): its answer is the last one's.
DatabaseStatus == IF up["database"] THEN "UP" ELSE "DOWN"
RedisStatus == IF up["redis"] THEN "UP" ELSE "DOWN"

Check(i) ==
  CASE i = "ports" -> PortStatus
    [] i = "database" -> DatabaseStatus
    [] i = "redis" -> RedisStatus

DetermineOverallStatus(statuses) ==
  CASE statuses = {} -> "DEGRADED"
    [] "DOWN" \in statuses -> "DOWN"
    [] "DOWN" \notin statuses /\ "DEGRADED" \in statuses -> "DEGRADED"
    [] OTHER -> "UP"

ProbeBegins ==
  /\ probe.stage = "idle" /\ probe' = [NoProbe EXCEPT !.stage = "checking"]
  /\ UNCHANGED <<balancer, up, outages, circuit, calls, ready>>

\* The indicators answer one by one, in any order.
Checked(i) ==
  /\ probe.stage = "checking" /\ i \notin DOMAIN probe.checks
  /\ probe' = [probe EXCEPT
       !.checks = [j \in DOMAIN probe.checks \cup {i} |-> IF j = i THEN Check(i) ELSE probe.checks[j]]]
  /\ UNCHANGED <<balancer, up, outages, circuit, calls, ready>>

\* Promise.allSettled: all are in. Only DOWN is 503; a gating balancer acts on it.
Readiness ==
  /\ probe.stage = "checking" /\ DOMAIN probe.checks = Indicators
  /\ ready' = (DetermineOverallStatus({probe.checks[i] : i \in Indicators}) # "DOWN")
  /\ routed' = (gated => ready')
  /\ probe' = NoProbe
  /\ UNCHANGED <<gated, up, outages, circuit, calls>>

HealthNext ==
  \/ Outage \/ (\E d \in Dependencies : Recovery(d))
  \/ (\E p \in HealthPorts : Arrives(p) \/ PassesBy(p)) \/ BacklogChanges
  \/ \E p \in HealthPorts : Opens(p) \/ ResetTimeoutElapses(p) \/ Trial(p) \/ TrialEnds(p)
  \/ ProbeBegins \/ (\E i \in Indicators : Checked(i)) \/ Readiness

-----------------------------------------------------------------------------
\* Out of service for want of a call: the balancer sends nothing, the port's circuit
\* is open, nothing let in earlier is on its way to it, no ticker calls it, and the
\* probe under way has not looked at the ports before they opened.
DeadEnd(p) ==
  /\ ~routed /\ circuit[p].state = "OPEN" /\ ~inside[p] /\ p \notin BackgroundPorts
  /\ "ports" \in DOMAIN probe.checks => probe.checks["ports"] = "DOWN"

\* No probe, timer, ticker of another port or recovery leads out of it: a balancer that
\* follows /health/ready keeps the instance out, however long the downstream is back.
DeadEndIsFinal == [][\A p \in HealthPorts : DeadEnd(p) => DeadEnd(p)']_healthVars

\* The port's circuit is open and nothing is there to try it.
Abandoned(p) ==
  /\ ~routed /\ circuit[p].state = "OPEN" /\ ~inside[p]
  /\ ~(p \in BackgroundPorts /\ backlog)

\* Recovered dependencies and some traffic make the instance ready for good, also when
\* the balancer gates it: a request let in before, or a chat row the ticker forwards,
\* closes the circuit again. The one way to stay out is a port nothing calls.
ReadinessRecovers ==
  /\ DeadEndIsFinal
  /\ <>[]ready \/ \E p \in HealthPorts : []<>Abandoned(p)
=============================================================================
