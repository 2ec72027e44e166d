---------------------------- MODULE HttpPipeline ----------------------------
(***************************************************************************)
(* A request on its way through the server, in the order NestJS runs the   *)
(* parts the repository supplies: CorrelationIdMiddleware, then            *)
(* AuthPropagationMiddleware (which signs one JWT for the whole request),  *)
(* SessionAuthGuard and the further guards, the logging, tracing and audit *)
(* interceptors, the validation pipe, the handler with its downstream      *)
(* call, the interceptors again on the way out, and GlobalExceptionFilter. *)
(* Every await is a step of its own, so requests interleave, and a user    *)
(* may sign out between any two of them.                                   *)
(*                                                                         *)
(* AsyncLocalStorage is modelled by what it guarantees: `context[r]' is    *)
(* what current() answers anywhere below the middleware of request r.      *)
(***************************************************************************)
EXTENDS ErrorResponses

CONSTANTS HttpRequests, HttpUsers, NoUser,
          SessionOnRequest,  \* values of "does something put the session on req.session"
          Routes,            \* [public, excluded, audited : BOOLEAN]
          HandlerErrors,     \* exceptions a handler may end with
          MaxIds             \* bound: correlation ids; 1..MaxIds, the last is a client's own

ASSUME PipelineAssumption ==
  /\ Routes \subseteq [public : BOOLEAN, excluded : BOOLEAN, audited : BOOLEAN]
  /\ HandlerErrors \subseteq Exceptions
  /\ NoUser \notin HttpUsers /\ MaxIds \in Nat

VARIABLES sessionOnReq,  \* whether req.session is populated before the middleware
          route, cookie, \* request -> its route; the user its session cookie belongs to
          signedOut,     \* users whose sessions are revoked
          stage, context, requestUser,
          answer,        \* request -> status, 0 while open
          header,        \* request -> x-correlation-id of the response
          trail,         \* request -> log entries [what, correlationId, user]
          spans,         \* request -> [started, ended]
          outcome,       \* request -> the exception on its way out, or NoError
          forwarded,     \* request -> headers of its downstream call
          nextId

pipelineVars == <<sessionOnReq, route, cookie, signedOut, stage, context, requestUser, answer,
                  header, trail, spans, outcome, forwarded, nextId>>

NoContext == [correlationId |-> 0, userId |-> NoUser, signedJwt |-> NoUser]
Fine == [class |-> "none", status |-> 200, words |-> {}]
Nothing == [sent |-> FALSE, correlationId |-> 0, jwt |-> NoUser]

PipelineInit ==
  /\ sessionOnReq \in SessionOnRequest
  /\ route \in [HttpRequests -> Routes]
  /\ cookie \in [HttpRequests -> HttpUsers \cup {NoUser}]
  /\ signedOut = {}
  /\ stage = [r \in HttpRequests |-> "new"]
  /\ context = [r \in HttpRequests |-> NoContext]
  /\ requestUser = [r \in HttpRequests |-> NoUser]
  /\ answer = [r \in HttpRequests |-> 0]
  /\ header = [r \in HttpRequests |-> 0]
  /\ trail = [r \in HttpRequests |-> <<>>]
  /\ spans = [r \in HttpRequests |-> [started |-> 0, ended |-> 0]]
  /\ outcome = [r \in HttpRequests |-> Fine]
  /\ forwarded = [r \in HttpRequests |-> Nothing]
  /\ nextId = 1

Session(r) == IF cookie[r] \in signedOut THEN NoUser ELSE cookie[r]

Goes(r, from, to) == stage[r] = from /\ stage' = [stage EXCEPT ![r] = to]

\* StructuredLogger: the entry takes its ids from the current context; what the
\* caller passes in is merged over them.
LogEntry(r, what, user) ==
  [what |-> what, correlationId |-> context[r].correlationId, user |-> user]

\* LoggingInterceptor names nobody itself, AuditLoggerInterceptor the guard's user.
LogRequest(r) == <<LogEntry(r, "request start", context[r].userId)>>
LogResponse(r) == <<LogEntry(r, "request end", context[r].userId)>>
LogError(r) == <<LogEntry(r, "request error", context[r].userId)>>

Audited(r, what) == IF route[r].audited THEN <<LogEntry(r, what, requestUser[r])>> ELSE <<>>
CreateAuditEntry(r) == Audited(r, "AUDIT STARTED")
LogAuditSuccess(r) == Audited(r, "AUDIT COMPLETED")
LogAuditError(r) == Audited(r, "AUDIT FAILED")

\* TracingInterceptor: one span from intercept to tap or catchError.
StartSpan(s) == [s EXCEPT !.started = @ + 1]
EndSpan(s) == [s EXCEPT !.ended = @ + 1]

\* CorrelationIdMiddleware: the client's id, or a fresh one.
Correlate(r) ==
  /\ Goes(r, "new", "propagating")
  /\ \E id \in {nextId, MaxIds} :
       /\ id = nextId => nextId < MaxIds
       /\ nextId' = IF id = nextId THEN nextId + 1 ELSE nextId
       /\ context' = [context EXCEPT ![r].correlationId = id]
       /\ header' = [header EXCEPT ![r] = id]
  /\ UNCHANGED <<sessionOnReq, route, cookie, signedOut, requestUser, answer, trail, spans,
                 outcome, forwarded>>

\* AuthPropagationMiddleware: excluded paths, and requests without a user on
\* req.session, go on as they are.
PropagateNothing(r) ==
  /\ route[r].excluded \/ ~sessionOnReq \/ Session(r) = NoUser
  /\ Goes(r, "propagating", "guarding")
  /\ UNCHANGED <<sessionOnReq, route, cookie, signedOut, context, requestUser, answer, header,
                 trail, spans, outcome, forwarded, nextId>>

\* Mutant: the enriched context is built without the correlation id.
PropagateAfresh(r) ==
  /\ ~route[r].excluded /\ sessionOnReq /\ Session(r) # NoUser
  /\ Goes(r, "propagating", "guarding")
  /\ context' = [context EXCEPT ![r] = [correlationId |-> 0,
                                        userId |-> Session(r), signedJwt |-> Session(r)]]
  /\ UNCHANGED <<sessionOnReq, route, cookie, signedOut, requestUser, answer, header,
                 trail, spans, outcome, forwarded, nextId>>

\* sign() awaited, then createFull() and run(): the enriched context, same id.
Propagate(r) ==
  /\ ~route[r].excluded /\ sessionOnReq /\ Session(r) # NoUser
  /\ Goes(r, "propagating", "guarding")
  /\ context' = [context EXCEPT ![r] = [correlationId |-> context[r].correlationId,
                                        userId |-> Session(r), signedJwt |-> Session(r)]]
  /\ UNCHANGED <<sessionOnReq, route, cookie, signedOut, requestUser, answer, header,
                 trail, spans, outcome, forwarded, nextId>>

\* A guard's exception reaches the filter with no interceptor in between.
Refused(r, e) ==
  /\ stage' = [stage EXCEPT ![r] = "answered"]
  /\ outcome' = [outcome EXCEPT ![r] = e]
  /\ answer' = [answer EXCEPT ![r] = Catch(e)]
  /\ UNCHANGED <<sessionOnReq, route, cookie, signedOut, context, header, trail, spans,
                 forwarded, nextId>>

Unauthorized == [class |-> "UnauthorizedException", status |-> 0, words |-> {}]
Forbidden == [class |-> "HttpException", status |-> 403, words |-> {}]
BadRequest == [class |-> "HttpException", status |-> 400, words |-> {}]

\* SessionAuthGuard admits: a public route, or a session with a user.
SessionGuardAdmits(r) ==
  /\ Goes(r, "guarding", "guarded")
  /\ route[r].public \/ Session(r) # NoUser
  /\ requestUser' = [requestUser EXCEPT ![r] = IF route[r].public THEN NoUser ELSE Session(r)]
  /\ UNCHANGED <<sessionOnReq, route, cookie, signedOut, context, answer, header, trail,
                 spans, outcome, forwarded, nextId>>

\* No session, or getSession throws: UnauthorizedException either way.
SessionGuardRefuses(r) ==
  /\ stage[r] = "guarding" /\ ~route[r].public
  /\ Refused(r, Unauthorized)
  /\ UNCHANGED requestUser

\* A further guard (binding, roles, rate limit) refuses.
GuardRefuses(r) ==
  /\ stage[r] = "guarded" /\ Refused(r, Forbidden)
  /\ UNCHANGED requestUser

\* The interceptors, outermost first: request logged, span started, audit STARTED.
Intercept(r) ==
  /\ Goes(r, "guarded", "handling")
  /\ trail' = [trail EXCEPT ![r] = @ \o LogRequest(r) \o CreateAuditEntry(r)]
  /\ spans' = [spans EXCEPT ![r] = StartSpan(@)]
  /\ UNCHANGED <<sessionOnReq, route, cookie, signedOut, context, requestUser, answer, header,
                 outcome, forwarded, nextId>>

\* The pipe throws BadRequestException below the interceptors.
PipeRejects(r) ==
  /\ Goes(r, "handling", "unwinding")
  /\ ~forwarded[r].sent
  /\ outcome' = [outcome EXCEPT ![r] = BadRequest]
  /\ UNCHANGED <<sessionOnReq, route, cookie, signedOut, context, requestUser, answer, header,
                 trail, spans, forwarded, nextId>>

\* The handler calls downstream: PortHttpClient takes both ids from the context.
HandlerForwards(r) ==
  /\ stage[r] = "handling" /\ ~forwarded[r].sent
  /\ forwarded' = [forwarded EXCEPT ![r] =
       [sent |-> TRUE, correlationId |-> context[r].correlationId, jwt |-> context[r].signedJwt]]
  /\ UNCHANGED <<sessionOnReq, route, cookie, signedOut, stage, context, requestUser, answer,
                 header, trail, spans, outcome, nextId>>

HandlerSettles(r) ==
  /\ Goes(r, "handling", "unwinding")
  /\ outcome' \in {[outcome EXCEPT ![r] = e] : e \in HandlerErrors \cup {Fine}}
  /\ UNCHANGED <<sessionOnReq, route, cookie, signedOut, context, requestUser, answer, header,
                 trail, spans, forwarded, nextId>>

\* tap and catchError of the audit and logging interceptors, innermost first.
UnwindEntries(r) ==
  IF outcome[r] = Fine THEN LogAuditSuccess(r) \o LogResponse(r)
                       ELSE LogAuditError(r) \o LogError(r)

\* ResponseInterceptor wraps what the handler returned; the filter takes the rest.
Respond(e) == IF e = Fine THEN 200 ELSE Catch(e)

\* The way out: audit, span and log closed, then the answer.
Unwind(r) ==
  /\ Goes(r, "unwinding", "answered")
  /\ trail' = [trail EXCEPT ![r] = @ \o UnwindEntries(r)]
  /\ spans' = [spans EXCEPT ![r] = EndSpan(@)]
  /\ answer' = [answer EXCEPT ![r] = Respond(outcome[r])]
  /\ UNCHANGED <<sessionOnReq, route, cookie, signedOut, context, requestUser, header, outcome,
                 forwarded, nextId>>

\* The user signs out on another device.
SignOut(u) ==
  /\ u \notin signedOut /\ signedOut' = signedOut \cup {u}
  /\ UNCHANGED <<sessionOnReq, route, cookie, stage, context, requestUser, answer, header, trail,
                 spans, outcome, forwarded, nextId>>

RequestStep(r) ==
  \/ Correlate(r)
  \/ PropagateNothing(r)
  \/ Propagate(r)
  \/ SessionGuardAdmits(r)
  \/ SessionGuardRefuses(r)
  \/ GuardRefuses(r)
  \/ Intercept(r)
  \/ PipeRejects(r)
  \/ HandlerForwards(r)
  \/ HandlerSettles(r)
  \/ Unwind(r)

PipelineNext ==
  \/ \E r \in HttpRequests : RequestStep(r)
  \/ \E u \in HttpUsers : SignOut(u)

PipelineSpec == PipelineInit /\ [][PipelineNext]_pipelineVars

-----------------------------------------------------------------------------
Whats(r) == {trail[r][i].what : i \in DOMAIN trail[r]}
Count(r, what) == Cardinality({i \in DOMAIN trail[r] : trail[r][i].what = what})

\* The audit trail tells what the client was told: an answered request that
\* reached its interceptors has one STARTED and one closing entry, COMPLETED
\* exactly for a success; FAILED also for a queued request, which the filter
\* turns into 202 after the interceptor saw an exception; and a request refused
\* by a guard left no entry and no span.
TrailTellsAnswer ==
  \A r \in HttpRequests : answer[r] # 0 =>
    /\ spans[r].ended = spans[r].started
    /\ Count(r, "AUDIT STARTED") = Count(r, "AUDIT COMPLETED") + Count(r, "AUDIT FAILED")
    /\ "AUDIT COMPLETED" \in Whats(r) => answer[r] < 300
    /\ "AUDIT FAILED" \in Whats(r) => answer[r] >= 400 \/ outcome[r].class = "PortQueuedException"
    /\ spans[r].started = 0 => trail[r] = <<>> /\ ~forwarded[r].sent

\* Whatever two requests and a sign-out do between its awaits, a request that
\* reaches a handler has a user unless its route is public, and a JWT it sends
\* downstream is that user's, or on a public route that of its own cookie; nobody
\* else is named in its log, and its audit entries name the user it ran for.
IdentityIsOne ==
  \A r \in HttpRequests : forwarded[r].sent =>
    /\ ~route[r].public => requestUser[r] = cookie[r] /\ cookie[r] # NoUser
    /\ forwarded[r].jwt # NoUser => forwarded[r].jwt = cookie[r]
    /\ \A i \in DOMAIN trail[r] :
         /\ trail[r][i].user \in {NoUser, cookie[r]}
         /\ trail[r][i].what \in {"AUDIT STARTED", "AUDIT COMPLETED", "AUDIT FAILED"}
              => trail[r][i].user = requestUser[r]

\* One correlation id names the request everywhere: response header, each log
\* entry, downstream call; enriching the context does not lose it.
OneCorrelationId ==
  \A r \in HttpRequests :
    /\ \A i \in DOMAIN trail[r] : trail[r][i].correlationId = header[r]
    /\ forwarded[r].sent => forwarded[r].correlationId = header[r]

\* Answer, audit trail, log and downstream call of a request tell the same story
\* about the same user under the same id.
OneStory == TrailTellsAnswer /\ IdentityIsOne /\ OneCorrelationId
=============================================================================
