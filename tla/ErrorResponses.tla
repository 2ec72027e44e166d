--------------------------- MODULE ErrorResponses ---------------------------
(***************************************************************************)
(* What an exception becomes: GlobalExceptionFilter (installed by main.ts, *)
(* src/libs/shared/http/filters/), StructuredErrorFilter                   *)
(* (src/libs/shared/errors/), and the exception classes they tell apart    *)
(* (port-exceptions.ts, domain-exception.base.ts, core/common/exceptions). *)
(* The module is pure; `failure' holds the exception under examination.    *)
(*                                                                         *)
(* An exception is [class, status, words]: its class, the HTTP status it   *)
(* carries (0 for none), and which of the words the filters look for occur *)
(* in its message.                                                         *)
(***************************************************************************)
EXTENDS Integers, FiniteSets, Sequences

CONSTANTS Statuses,      \* HTTP statuses a downstream may refuse with
          HttpStatuses,  \* those of the HttpExceptions thrown
          MessageWords   \* sets of words in a generic error's message

\* An HttpException carries a status that mapHttpStatusToErrorCode lists, 500 or 502
\* (the pipes throw 400, the guards 401, 403, 429 and 500, the readiness probe 503,
\* Nest 404); a downstream refuses with any error status.
ListedStatuses == {400, 401, 403, 404, 409, 422, 429, 500, 502, 503, 504}
ErrorStatuses == 400..599
ASSUME StatusAssumption ==
  Statuses \subseteq ErrorStatuses /\ HttpStatuses \subseteq ListedStatuses

VARIABLES failure

\* The classes below BaseException with a status of their own, in the order of
\* getHttpStatus, and what each is answered with.
BaseStatus ==
  [PortTimeoutException |-> 504, PortNotRegisteredException |-> 500,
   NotFoundException |-> 404, UnauthorizedException |-> 401,
   ForbiddenException |-> 403, ConflictException |-> 409,
   LockoutException |-> 429, ConcurrencyException |-> 409,
   ValidationException |-> 400]

PortExceptions ==
  {"PortDownstreamException", "PortTimeoutException", "PortNotRegisteredException",
   "PortFallbackException", "PortQueuedException"}

BaseExceptions == PortExceptions \cup DOMAIN BaseStatus

\* Classes below the domain layer's DomainException, which extends Error and not
\* BaseException: those a retry cannot help, and those with retryable: true.
FinalDomainExceptions ==
  {"DomainException", "BusinessRuleException", "BusinessRuleViolationException", "ResourceNotFoundException",
   "DuplicateResourceException", "InvalidStateException",
   "InsufficientPermissionsException"}

RetryableDomainExceptions ==
  {"ConcurrentModificationException", "ExternalServiceException", "RateLimitExceededException"}

DomainExceptions == FinalDomainExceptions \cup RetryableDomainExceptions

\* Words in the names of the classes, which mapErrorToErrorCode looks at as well.
NameWords(class) ==
  CASE class = "ValidationException" -> {"validation"}
    [] class = "NotFoundException" -> {"not found"}
    [] class = "UnauthorizedException" -> {"unauthorized"}
    [] class = "ForbiddenException" -> {"forbidden"}
    [] class = "ConflictException" -> {"conflict"}
    [] class = "PortTimeoutException" -> {"timeout"}
    [] OTHER -> {}

Exceptions ==
  [class : {"HttpException"}, status : HttpStatuses, words : {{}}]
    \cup [class : {"PortDownstreamException"}, status : Statuses, words : {{}}]
    \cup [class : DomainExceptions \cup {"ValidationErrors", "QueryFailedError", "thrown value"},
          status : {0}, words : {{}}]
    \cup [class : (BaseExceptions \ {"PortDownstreamException"}) \cup {"Error"},
          status : {0}, words : MessageWords]

-----------------------------------------------------------------------------
(* GlobalExceptionFilter *)

GetHttpStatus(e) ==
  IF e.class = "PortDownstreamException" THEN (IF e.status >= 500 THEN 502 ELSE e.status)
  ELSE IF e.class \in DOMAIN BaseStatus THEN BaseStatus[e.class] ELSE 500

\* Mutant: the queued exception is treated like every other BaseException.
CatchQueuedLate(e) ==
  IF e.class = "HttpException" THEN e.status
  ELSE IF e.class \in BaseExceptions THEN GetHttpStatus(e) ELSE 500

\* catch(): instanceof checks, first match wins.
Catch(e) ==
  IF e.class = "HttpException" THEN e.status
  ELSE IF e.class = "PortQueuedException" THEN 202
  ELSE IF e.class \in BaseExceptions THEN GetHttpStatus(e)
  ELSE 500

\* The body says success: true for a queued request only.
SaysSuccess(e) == e.class = "PortQueuedException"

\* The port registry's judgement of the same exception (isInfrastructureError).
IsInfrastructureError(e) ==
  IF e.class = "PortDownstreamException" THEN e.status >= 500 ELSE TRUE

-----------------------------------------------------------------------------
(* StructuredErrorFilter *)

MapHttpStatusToErrorCode(status) ==
  CASE status = 400 -> "INVALID_INPUT" [] status = 401 -> "UNAUTHORIZED"
    [] status = 403 -> "FORBIDDEN" [] status = 404 -> "NOT_FOUND"
    [] status = 409 -> "CONFLICT" [] status = 422 -> "BUSINESS_RULE_VIOLATION"
    [] status = 429 -> "RATE_LIMIT_EXCEEDED" [] status = 503 -> "SERVICE_UNAVAILABLE"
    [] status = 504 -> "GATEWAY_TIMEOUT" [] OTHER -> "INTERNAL_ERROR"

\* Both tables are read top-down: the first row with one of its words wins.
FirstRow(rows, words, default) ==
  LET hits == {i \in DOMAIN rows : rows[i][1] \cap words # {}}
  IN IF hits = {} THEN default ELSE rows[CHOOSE i \in hits : \A j \in hits : i <= j][2]

MapErrorToStatus(words) == FirstRow(
  << <<{"not found", "does not exist"}, 404>>, <<{"unauthorized", "authentication"}, 401>>,
     <<{"forbidden", "permission"}, 403>>, <<{"validation", "invalid"}, 400>>,
     <<{"conflict", "duplicate"}, 409>>, <<{"timeout"}, 504>>,
     <<{"rate limit", "too many requests"}, 429>> >>, words, 500)

MapErrorToErrorCode(class, words) == FirstRow(
  << <<{"validation"}, "VALIDATION_FAILED">>, <<{"not found"}, "NOT_FOUND">>,
     <<{"unauthorized"}, "UNAUTHORIZED">>, <<{"forbidden"}, "FORBIDDEN">>,
     <<{"conflict"}, "CONFLICT">>, <<{"timeout"}, "TIMEOUT">> >>,
  words \cup NameWords(class), "INTERNAL_ERROR")

\* handleError(): status and code of the response.
HandleError(e) ==
  CASE e.class = "HttpException" ->
         [status |-> e.status, code |-> MapHttpStatusToErrorCode(e.status)]
    [] e.class \in DomainExceptions -> [status |-> 422, code |-> "DOMAIN_ERROR"]
    [] e.class = "ValidationErrors" -> [status |-> 400, code |-> "VALIDATION_FAILED"]
    [] e.class = "QueryFailedError" -> [status |-> 500, code |-> "DATABASE_ERROR"]
    [] e.class = "thrown value" -> [status |-> 500, code |-> "INTERNAL_ERROR"]
    [] OTHER ->
         [status |-> MapErrorToStatus(e.words), code |-> MapErrorToErrorCode(e.class, e.words)]

\* The status over each group of codes in the enum ErrorCodes.
Category ==
  [INVALID_INPUT |-> 400, VALIDATION_FAILED |-> 400, UNAUTHORIZED |-> 401,
   FORBIDDEN |-> 403, NOT_FOUND |-> 404, CONFLICT |-> 409,
   BUSINESS_RULE_VIOLATION |-> 422, DOMAIN_ERROR |-> 422, RATE_LIMIT_EXCEEDED |-> 429,
   INTERNAL_ERROR |-> 500, DATABASE_ERROR |-> 500, SERVICE_UNAVAILABLE |-> 500,
   TIMEOUT |-> 504, GATEWAY_TIMEOUT |-> 504]

\* The status the comment of an exception class promises; a DomainException's stands
\* in getHttpStatus.
Promised ==
  [NotFoundException |-> 404, UnauthorizedException |-> 401, ForbiddenException |-> 403,
   ConflictException |-> 409, LockoutException |-> 429, DomainException |-> 400,
   BusinessRuleException |-> 400]

\* The classes the code throws at a caller for what the caller asked.
CallerErrors ==
  DOMAIN Promised \cup {"ValidationException", "ConcurrencyException"}
                  \cup FinalDomainExceptions

FailureInit == failure \in Exceptions
FailureNext == failure' \in Exceptions \ {failure}
FailureSpec == FailureInit /\ [][FailureNext]_failure

-----------------------------------------------------------------------------
\* The two judges of a port failure agree: the client is told of a server fault
\* (5xx) exactly when the port's breaker counts the failure against downstream;
\* and a body saying success: true goes with a 2xx status only.
BlameAgrees ==
  /\ failure.class \in PortExceptions \ {"PortQueuedException"} =>
       (IsInfrastructureError(failure) <=> Catch(failure) >= 500)
  /\ SaysSuccess(failure) <=> Catch(failure) < 300

\* A downstream server status never reaches the client as such: 5xx answers are
\* this server's own 500, 502 or 504 unless an HttpException asks for another.
OwnServerStatus ==
  failure.class # "HttpException" /\ Catch(failure) >= 500 => Catch(failure) \in {500, 502, 504}

\* No failure of this server or of a downstream is blamed on the caller, and no caller's
\* error on the server, with the status its class promises; but for the whole branch
\* of domain exceptions, answered 500 since they are no BaseException and getHttpStatus,
\* which has their 400, never sees them.
BlameIsRight ==
  /\ Catch(failure) \in 400..499 =>
       \/ failure.class \in CallerErrors
       \/ failure.class \in {"HttpException", "PortDownstreamException"} /\ Catch(failure) = failure.status
  /\ failure.class \in CallerErrors => Catch(failure) \in 400..499 \/ failure.class \in DomainExceptions
  /\ failure.class \in DOMAIN Promised \ DomainExceptions => Catch(failure) = Promised[failure.class]
  /\ failure.class \in DomainExceptions => Catch(failure) = 500

\* Status and code of a structured error belong together (the groups of ErrorCodes),
\* for every exception but those judged by the words of their message, whose status
\* and code are looked up in two different tables; an HttpException's 502 and 503 go
\* out with codes of the group 500.
CodeMatchesStatus ==
  LET shown == HandleError(failure) IN
  failure.class \notin BaseExceptions \cup {"Error"} =>
    \/ shown.status = Category[shown.code]
    \/ failure.class = "HttpException" /\ shown.status \in {502, 503} /\ Category[shown.code] = 500

\* Whatever is thrown, status, code and blame of the answer fit together.
StatusIsHonest == BlameAgrees /\ OwnServerStatus /\ BlameIsRight /\ CodeMatchesStatus
=============================================================================
