---------------------------- MODULE MCResilience ----------------------------
(* Model-checking instance of what must eventually happen when things fail:
   the port's circuit breaker closes again, a retry loop ends, the readiness
   probe recovers, the database pools close and the chat backlog drains.  The
   parts share no state, so a behaviour is about one of them: the scene. *)
EXTENDS PortBreaker, RetryService, Health, DatabasePools, TLC

CONSTANTS user, ChatMessages, ChatFlushers, Nobody, NoMessage

VARIABLES scene,
          row, sentAt, inbox, fallback, thread, busting, open, answers, tcp, flusher, faults

Err(name, class, words) == [name |-> name, class |-> class, words |-> words]

\* Transient errors, client errors, client errors whose text looks transient, and
\* client errors (409, 422, Nest's 401) that nothing in the word lists knows.
SomeErrors ==
  {Err("Error", "Error", {"ECONNREFUSED"}),
   Err("Error", "Error", {"ECONNREFUSED", "401"}),
   Err("Error", "Error", {"timeout"}),
   Err("Error", "Error", {"deadlock"}),
   Err("Error", "Error", {"EBUSY"}),
   Err("ServerError", "ServerError", {"503"}),
   Err("BadRequestException", "BadRequestException", {"500"}),
   Err("UnauthorizedException", "UnauthorizedException", {"timeout"}),
   Err("ConflictException", "ConflictException", {"connection"}),
   Err("UnprocessableEntityException", "UnprocessableEntityException", {}),
   Err("Error", "HttpError", {"404", "connection"}),
   Err("Error", "ValidationError", {"validation"})}

\* The presets, a plan with a delayCalculator removed, and a long one.
SomePlans ==
  {ExternalAPI, Database, MessageQueue, FileSystem, Aggressive, Conservative,
   [delayCalculator |-> {}, maxAttempts |-> 6, maxDelayMs |-> 8000],
   [delayCalculator |-> {}] @@ Aggressive}

\* One customer's messages, overlapping flushes with a batch of one, no crash.
Chat == INSTANCE ChatOutbox WITH
  Messages <- ChatMessages, Users <- {user}, Owner <- [m \in ChatMessages |-> user],
  Flushers <- ChatFlushers, Readers <- {}, FlushBatch <- 1, MaxFaults <- 0,
  up <- answers, probe <- tcp, reader <- <<>>

chatVars == <<row, sentAt, inbox, fallback, thread, busting, open, answers, tcp, flusher, faults>>
all == <<scene, vars, retryVars, healthVars, poolVars, chatVars>>

MCInit ==
  /\ scene \in {"port", "retry", "health", "pools", "chat"}
  /\ Init /\ RetryInit
  /\ HealthInit /\ (scene = "health" \/ ~gated)
  /\ PoolsInit
  /\ Chat!Init /\ (scene = "chat" \/ answers)

MCNext ==
  /\ UNCHANGED scene
  /\ \/ /\ scene = "port" /\ Next
        /\ UNCHANGED <<retryVars, healthVars, poolVars, chatVars>>
     \/ /\ scene = "retry" /\ RetryNext
        /\ UNCHANGED <<vars, healthVars, poolVars, chatVars>>
     \/ /\ scene = "health" /\ HealthNext
        /\ UNCHANGED <<vars, retryVars, poolVars, chatVars>>
     \/ /\ scene = "pools" /\ PoolsNext
        /\ UNCHANGED <<vars, retryVars, healthVars, chatVars>>
     \/ /\ scene = "chat" /\ Chat!Next
        /\ UNCHANGED <<vars, retryVars, healthVars, poolVars>>

\* The fairness of PortBreaker and ChatOutbox; dependencies recover, reset timeouts elapse, traffic arrives and ends, and the
\* balancer keeps probing; connects, queries and timers of a database check end,
\* and so does end() of a pool without clients.
MCFairness ==
  /\ WF_vars(scene = "port" /\ Tick)
  /\ \A c \in Callers : WF_vars(scene = "port" /\ (Admit(c) \/ Probe(c)))
  /\ \A c \in Callers : WF_vars(scene = "port" /\ (Succeed(c) \/ FailInfra(c) \/ FailClient(c)))
  /\ SF_vars(scene = "port" /\ \E c \in Callers : Succeed(c))
  /\ \A d \in Dependencies : WF_healthVars(scene = "health" /\ Recovery(d))
  /\ \A p \in HealthPorts :
       /\ WF_healthVars(scene = "health" /\ ResetTimeoutElapses(p))
       /\ WF_healthVars(scene = "health" /\ Arrives(p))
       /\ WF_healthVars(scene = "health" /\ Trial(p))
       /\ WF_healthVars(scene = "health" /\ TrialEnds(p))
  /\ WF_healthVars(scene = "health" /\ (ProbeBegins \/ Readiness))
  /\ \A i \in Indicators : WF_healthVars(scene = "health" /\ Checked(i))
  /\ \A k \in HealthChecks :
       /\ WF_poolVars(scene = "pools" /\ (Connect(k) \/ ConnectFails(k)))
       /\ WF_poolVars(scene = "pools" /\ (Query(k) \/ QueryFails(k)))
       /\ WF_poolVars(scene = "pools" /\ NextAttempt(k))
  /\ \A p \in Pools : WF_poolVars(scene = "pools" /\ ClosePool(p))
  /\ WF_poolVars(scene = "pools" /\ AllClosed)
  /\ WF_chatVars(scene = "chat" /\ Chat!ProbeExpires)
  /\ WF_chatVars(scene = "chat" /\ Chat!CircuitCloses)
  /\ \A f \in ChatFlushers : WF_chatVars(scene = "chat" /\ Chat!Proceed(f))
  /\ \A m \in ChatMessages :
       SF_chatVars(scene = "chat" /\ \E f \in ChatFlushers : Chat!SendOk(f, m))

MCSpec == MCInit /\ [][MCNext]_all /\ MCFairness

-----------------------------------------------------------------------------
\* When the receiver is back for good, flushOnce marks every accepted message
\* forwarded.
BacklogDrains == Chat!BacklogDrains
=============================================================================
