------------------------------- MODULE PortHttp -------------------------------
(***************************************************************************)
(* PortHttpClient under InternalAdapterBase: one downstream HTTP call with *)
(* its correlation id, JWT, idempotency key and timeout, and the one retry *)
(* after a 401 with a JWT signed afresh.                                   *)
(*                                                                         *)
(* Downstream is external: it verifies the JWT with its current and its    *)
(* previous key (JwtSignerService.verify is that procedure), drops a       *)
(* request whose idempotency key it has seen, and otherwise applies it.    *)
(* Requests and answers travel on their own: a call that timed out here    *)
(* may still be applied there later.                                       *)
(***************************************************************************)
EXTENDS Integers, FiniteSets

CONSTANTS HttpCalls,
          Operations,     \* [prefix : how the operation's name starts, body]
          Correlations,   \* ids of requests
          NoCorrelation,  \* 'no-correlation-id': a call outside every request
          NoKey

ASSUME HttpAssumption == Operations # {}

VARIABLES call,      \* call -> [op, correlation, user, stage, result]
          inFlight,  \* requests under way: [call, retry, token, key]
          replies,   \* answers under way: [call, retry, status]
          seenKeys,  \* downstream: idempotency keys already applied
          effects,   \* call -> times downstream applied it
          swallowed, \* calls downstream took for a duplicate
          accepted   \* downstream: signing keys it verifies with

httpVars == <<call, inFlight, replies, seenKeys, effects, swallowed, accepted>>

ResolveHttpMethod(op) ==
  CASE op.prefix \in {"get-", "search", "list"} -> "GET"
    [] op.prefix \in {"update", "edit"} -> "PUT"
    [] op.prefix \in {"delete", "remove", "cancel"} -> "DELETE"
    [] OTHER -> "POST"

\* `${correlationId}:${hash({portName, method, body})}', POST and PUT only: the
\* hash does not cover the operation's path.
IdempotencyKey(op, correlation) ==
  IF ResolveHttpMethod(op) \in {"POST", "PUT"}
  THEN <<correlation, ResolveHttpMethod(op), op.body>> ELSE NoKey

\* JWTs: NoToken, or a key and whether the 15 minutes are over.
NoToken == [key |-> "none", expired |-> FALSE]
Sign == [key |-> "current", expired |-> FALSE]

\* verify(): expiry is absolute; then the current key, then the old one.
Verify(token) == ~token.expired /\ token.key \in accepted

HttpInit ==
  /\ call = [c \in HttpCalls |-> [op |-> CHOOSE o \in Operations : TRUE, correlation |-> NoCorrelation,
                                  user |-> FALSE, stage |-> "idle", result |-> "none"]]
  /\ inFlight = {} /\ replies = {}
  /\ seenKeys = {} /\ swallowed = {}
  /\ effects = [c \in HttpCalls |-> 0]
  /\ accepted = {"current"}

Fetch(c, retry, token, op, correlation) ==
  inFlight' = inFlight \cup {[call |-> c, retry |-> retry, token |-> token,
                      key |-> IdempotencyKey(op, correlation)]}

\* request(): inside a request with or without a user, or outside any request
\* (queue replay, scheduler). The middleware's cached JWT may have expired.
HttpRequest(c) ==
  /\ call[c].stage = "idle"
  /\ \E op \in Operations, correlation \in Correlations \cup {NoCorrelation}, user \in BOOLEAN,
        cachedExpired \in BOOLEAN :
       /\ user => correlation # NoCorrelation
       /\ cachedExpired => user
       /\ call' = [call EXCEPT ![c] = [op |-> op, correlation |-> correlation, user |-> user,
                                       stage |-> "waiting", result |-> "none"]]
       /\ Fetch(c, FALSE, IF user THEN [Sign EXCEPT !.expired = cachedExpired] ELSE NoToken,
                op, correlation)
  /\ UNCHANGED <<replies, seenKeys, effects, swallowed, accepted>>

Answers(m, status) ==
  /\ inFlight' = inFlight \ {m}
  /\ replies' = replies \cup {[call |-> m.call, retry |-> m.retry, status |-> status]}

\* Downstream refuses before doing anything: 401, another 4xx, or a 5xx.
DownstreamRefuses ==
  /\ \E m \in inFlight, status \in {401, 404, 503} :
       /\ status = 401 <=> (m.token = NoToken \/ ~Verify(m.token))
       /\ Answers(m, status)
  /\ UNCHANGED <<call, seenKeys, effects, swallowed, accepted>>

\* Downstream applies the request, or has seen its key; the answer may be a 5xx
\* or no JSON all the same (it is lost after the commit).
DownstreamApplies ==
  /\ \E m \in inFlight, status \in {200, 503} :
       /\ m.token # NoToken /\ Verify(m.token)
       /\ Answers(m, status)
       /\ IF m.key # NoKey /\ m.key \in seenKeys
          THEN swallowed' = swallowed \cup {m.call} /\ UNCHANGED <<seenKeys, effects>>
          ELSE /\ seenKeys' = seenKeys \cup ({m.key} \ {NoKey})
               /\ effects' = [effects EXCEPT ![m.call] = @ + 1]
               /\ UNCHANGED swallowed
  /\ UNCHANGED <<call, accepted>>

RequestLost ==
  /\ \E m \in inFlight : inFlight' = inFlight \ {m}
  /\ UNCHANGED <<call, replies, seenKeys, effects, swallowed, accepted>>

\* A finished call has no listener: an answer that comes late is dropped.
Received(r) == r \in replies /\ replies' = replies \ {r} /\ UNCHANGED <<seenKeys, effects, swallowed, accepted>>

Ends(c, result) == call' = [call EXCEPT ![c].stage = "done", ![c].result = result]

Current(r) == call[r.call].stage = IF r.retry THEN "retrying" ELSE "waiting"

\* Mutant: a DELETE that failed is sent again, being idempotent by its name.
RegeneratesDelete(r) ==
  /\ Current(r) /\ ~r.retry /\ call[r.call].user
  /\ r.status = 401 \/ (r.status = 503 /\ ResolveHttpMethod(call[r.call].op) = "DELETE")
  /\ Received(r)
  /\ call' = [call EXCEPT ![r.call].stage = "retrying"]
  /\ Fetch(r.call, TRUE, Sign, call[r.call].op, call[r.call].correlation)

\* First 401 of a call with a user: sign again, send once more with a new timer.
Regenerates(r) ==
  /\ Current(r) /\ ~r.retry /\ r.status = 401 /\ call[r.call].user
  /\ Received(r)
  /\ call' = [call EXCEPT ![r.call].stage = "retrying"]
  /\ Fetch(r.call, TRUE, Sign, call[r.call].op, call[r.call].correlation)

\* !response.ok: PortDownstreamException with the status.
Fails(r) ==
  /\ Current(r) /\ r.status # 200
  /\ ~(r.status = 401 /\ ~r.retry /\ call[r.call].user)
  /\ Received(r) /\ Ends(r.call, CASE r.status = 401 -> "401" [] r.status = 404 -> "4xx" [] OTHER -> "5xx")
  /\ UNCHANGED inFlight

\* The body parses, or it does not (or the timer fires under json()): 502.
Parses(r) ==
  /\ Current(r) /\ r.status = 200
  /\ Received(r) /\ (Ends(r.call, "ok") \/ Ends(r.call, "5xx"))
  /\ UNCHANGED inFlight

TooLate(r) ==
  /\ ~Current(r) /\ Received(r)
  /\ UNCHANGED <<call, inFlight>>

\* The timer aborts fetch: PortTimeoutException; or fetch itself rejects.
Abort(c) ==
  /\ call[c].stage \in {"waiting", "retrying"} /\ Ends(c, "no answer")
  /\ UNCHANGED <<inFlight, replies, seenKeys, effects, swallowed, accepted>>

\* JWT_SECRET rotates downstream; the previous key goes 24 hours later.
Rotate ==
  /\ accepted' = CASE accepted = {"current"} -> {"current", "next"}
                   [] accepted = {"current", "next"} -> {"next"}
                   [] OTHER -> accepted
  /\ accepted' # accepted
  /\ UNCHANGED <<call, inFlight, replies, seenKeys, effects, swallowed>>

HttpNext ==
  \/ \E c \in HttpCalls : HttpRequest(c) \/ Abort(c)
  \/ DownstreamRefuses
  \/ DownstreamApplies
  \/ RequestLost
  \/ \E r \in replies : Regenerates(r) \/ Fails(r) \/ Parses(r) \/ TooLate(r)
  \/ Rotate

HttpSpec == HttpInit /\ [][HttpNext]_httpVars

-----------------------------------------------------------------------------
\* The retry never doubles an effect, with no help from downstream's keys (a
\* DELETE has none): what was answered 401 was not applied.
AppliedAtMostOnce == \A c \in HttpCalls : effects[c] <= 1

\* What the caller is told is true for good: success means downstream applied the
\* call (or took it for a duplicate), a 4xx that it did not and never will.
ResultIsFinal ==
  \A c \in HttpCalls :
    /\ call[c].result = "ok" => effects[c] = 1 \/ c \in swallowed
    /\ call[c].result \in {"401", "4xx"} =>
         effects[c] = 0 /\ c \notin swallowed /\ \A m \in inFlight : m.call # c

\* Expiry of the cached JWT alone never costs the user the session: a call with a
\* user ends in 401 only once downstream has forgotten the signing key.
ReauthenticateHasCause ==
  \A c \in HttpCalls : call[c].result = "401" /\ call[c].user => "current" \notin accepted

\* A call downstream takes for a duplicate follows an applied call of the same
\* request (or of none) with the same body; the operation may still be another one.
SwallowedHasCause ==
  \A c \in swallowed : \E d \in HttpCalls \ {c} :
    /\ effects[d] = 1
    /\ call[d].correlation = call[c].correlation /\ call[d].op.body = call[c].op.body

\* Aborts, late answers, expired credentials and idempotency keys included, a call
\* is applied once, told one result, and refused or swallowed for a cause.
CallsAreSound ==
  /\ AppliedAtMostOnce /\ ResultIsFinal
  /\ ReauthenticateHasCause /\ SwallowedHasCause
=============================================================================
