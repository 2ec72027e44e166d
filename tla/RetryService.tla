---------------------------- MODULE RetryService ----------------------------
(***************************************************************************)
(* RetryService.execute and the RetryInterceptor in front of it            *)
(* (src/libs/shared/resilience/retry.decorator.ts): one decorated call,    *)
(* its attempts, the verdict on every error and the waits between the      *)
(* attempts.  Executions share nothing, so one is enough.                  *)
(*                                                                         *)
(* An error is its name, its class's name and the words the code looks for *)
(* that occur in its message.  `shouldRetry' is the set of words the       *)
(* predicate accepts, {} for the default that accepts every error;         *)
(* `delayCalculator' holds the delay it returns, {} when there is none.    *)
(* Multipliers are fractions <<num, den>>, the jitter a percentage.        *)
(***************************************************************************)
EXTENDS Integers, Sequences

CONSTANTS RetryErrors,   \* the errors a decorated method may throw
          Plans,         \* the option objects given to @Retry
          NoError        \* no error so far

VARIABLE retry   \* the execution in progress, and how the last one ended

retryVars == <<retry>>

RetryDefaults ==
  [maxAttempts |-> 3, initialDelayMs |-> 1000, maxDelayMs |-> 30000,
   backoffMultiplier |-> <<2, 1>>, jitterFactor |-> 10,
   shouldRetry |-> {}, delayCalculator |-> {1000},
   retryableErrors |-> {}, nonRetryableErrors |-> {}]

\* RetryConfigs: the presets the file offers.
ExternalAPI ==
  [backoffMultiplier |-> <<2, 1>>,
   retryableErrors |-> {"ECONNREFUSED", "ETIMEDOUT", "ENOTFOUND"}]
Database ==
  [maxAttempts |-> 2, initialDelayMs |-> 500, backoffMultiplier |-> <<3, 2>>,
   jitterFactor |-> 20, shouldRetry |-> {"connection", "timeout", "deadlock"}]
MessageQueue ==
  [maxAttempts |-> 5, initialDelayMs |-> 2000, maxDelayMs |-> 60000,
   jitterFactor |-> 30,
   nonRetryableErrors |-> {"ValidationError", "SerializationError"}]
FileSystem ==
  [initialDelayMs |-> 100, retryableErrors |-> {"EBUSY", "EMFILE", "ENFILE"}]
Aggressive ==
  [maxAttempts |-> 10, initialDelayMs |-> 100, backoffMultiplier |-> <<6, 5>>,
   maxDelayMs |-> 10000, jitterFactor |-> 50]
Conservative ==
  [maxAttempts |-> 2, initialDelayMs |-> 2000, backoffMultiplier |-> <<1, 1>>,
   nonRetryableErrors |-> {"Error"}]

MergeOptions(options) ==
  [field \in DOMAIN RetryDefaults |->
     IF field \in DOMAIN options THEN options[field] ELSE RetryDefaults[field]]

\* error.name === id || error.constructor.name === id || message.includes(id)
Names(error, id) == id \in {error.name, error.class} \cup error.words

ClientNames == {"UnauthorizedError", "ForbiddenError", "ValidationError",
                "BadRequestException", "NotFoundException"}
ClientWords == {"401", "403", "400", "validation", "404"}
NetworkNames == {"ECONNREFUSED", "ETIMEDOUT", "ENOTFOUND", "ECONNRESET"}
ServerWords == {"timeout", "connection", "500", "502", "503", "504"}

\* Mutant: the refusals for client errors are forgotten.
IsRetryableAnyway(error) ==
  error.name \in NetworkNames \/ error.words \cap ServerWords # {} \/ error.words # {}

\* The name or the message is one the code knows for the client's fault.
TellsClient(error) == error.name \in ClientNames \/ error.words \cap ClientWords # {}

IsRetryableError(error) ==
  /\ ~ TellsClient(error)
  /\ error.name \in NetworkNames \/ error.words \cap ServerWords # {}

ShouldRetry(error, attempt, o) ==
  /\ attempt < o.maxAttempts
  /\ o.shouldRetry # {} => error.words \cap o.shouldRetry # {}
  /\ ~ \E id \in o.nonRetryableErrors : Names(error, id)
  /\ IF o.retryableErrors # {}
     THEN \E id \in o.retryableErrors : Names(error, id)
     ELSE IsRetryableError(error)

\* initialDelayMs * backoffMultiplier ** (attempt - 1)
Backoff(attempt, o) ==
  (o.initialDelayMs * o.backoffMultiplier[1]^(attempt - 1))
    \div o.backoffMultiplier[2]^(attempt - 1)

\* The delays calculateDelay may return; Math.random() is any value in [0, 1),
\* of which the two ends are kept.
Delays(attempt, o) ==
  LET base == Backoff(attempt, o)
      capped == IF base < o.maxDelayMs THEN base ELSE o.maxDelayMs
      most == (capped * o.jitterFactor) \div 100
  IN IF o.delayCalculator # {} THEN o.delayCalculator
     ELSE {capped, capped + (IF most > 0 THEN most - 1 ELSE 0)}

\* A plan makes one attempt at least, and its delays are numbers.
ASSUME RetryAssumption ==
  \A options \in Plans \cup {<<>>} :
    LET o == MergeOptions(options)
    IN /\ o.maxAttempts \in Nat \ {0} /\ o.maxDelayMs \in Nat /\ o.jitterFactor \in Nat
       /\ \A attempt \in 1..o.maxAttempts : Backoff(attempt, o) \in Nat

RetryInit ==
  retry = [plan |-> MergeOptions(<<>>), phase |-> "idle", attempt |-> 0,
           lastError |-> NoError, waits |-> <<>>]

\* RetryInterceptor.intercept: without metadata the handler runs on its own,
\* otherwise execute() makes the first attempt.
Intercept(options) ==
  /\ retry.phase = "idle"
  /\ retry' = [retry EXCEPT !.plan = MergeOptions(options), !.phase = "calling", !.attempt = 1]

AttemptSucceeds ==
  /\ retry.phase = "calling"
  /\ retry' = [retry EXCEPT !.phase = "returned"]

AttemptRetried(error) ==
  /\ retry.phase = "calling"
  /\ ShouldRetry(error, retry.attempt, retry.plan)
  /\ \E delay \in Delays(retry.attempt, retry.plan) :
       retry' = [retry EXCEPT !.phase = "sleeping", !.lastError = error,
                              !.waits = Append(@, delay)]

AttemptIsLast(error) ==
  /\ retry.phase = "calling"
  /\ ~ShouldRetry(error, retry.attempt, retry.plan)
  /\ retry' = [retry EXCEPT !.phase = "thrown", !.lastError = error]

\* The timer of sleep() fires and the loop comes round.
Wake ==
  /\ retry.phase = "sleeping"
  /\ retry' = [retry EXCEPT !.phase = "calling", !.attempt = @ + 1]

RetryNext ==
  \/ \E options \in Plans : Intercept(options)
  \/ AttemptSucceeds
  \/ \E error \in RetryErrors : AttemptRetried(error)
  \/ \E error \in RetryErrors : AttemptIsLast(error)
  \/ Wake

RetrySpec == RetryInit /\ [][RetryNext]_retryVars

-----------------------------------------------------------------------------
\* An error that tells the client's fault is sent again only where the plan asks
\* for it: the plan lists retryable errors, one of them occurs in the error, and no
\* exclusion does.  So the presets without such a list send a 400, 401, 403 or 404
\* once, whatever else its message mentions (an amount of 5000, a connection);
\* ExternalAPI does send a 401 again whose text names ECONNREFUSED, since
\* shouldRetry asks the list before isRetryableError.  An error that does not tell
\* (a 409, a 422, Nest's UnauthorizedException) is judged by its other words.
ClientErrorResentOnlyIfListed ==
  retry.phase = "sleeping" /\ TellsClient(retry.lastError) =>
    /\ \E id \in retry.plan.retryableErrors : Names(retry.lastError, id)
    /\ ~ \E id \in retry.plan.nonRetryableErrors : Names(retry.lastError, id)

\* Whatever the plan, the caller is held no longer than the cap promises: each
\* wait is within maxDelayMs and its jitter share, or is the calculator's own,
\* and there is one wait fewer than attempts (calculateDelay, execute).
WaitsBounded ==
  /\ \A i \in DOMAIN retry.waits :
       \/ retry.waits[i] \in retry.plan.delayCalculator
       \/ retry.waits[i] * 100 <= retry.plan.maxDelayMs * (100 + retry.plan.jitterFactor)
  /\ Len(retry.waits) < retry.plan.maxAttempts

\* The i-th wait is at least the i-th power of the backoff, or the cap: never
\* shorter for a later attempt.  It is so for plans that take the default
\* calculator away only; with it every wait is the calculator's, whatever
\* initialDelayMs and backoffMultiplier the decorator was given.
WaitsBackOff ==
  retry.plan.delayCalculator = {} =>
    \A i \in DOMAIN retry.waits :
      retry.waits[i] >= Backoff(i, retry.plan) \/ retry.waits[i] >= retry.plan.maxDelayMs

\* A retry never makes a failure worse: what the client did wrong is not sent again
\* unasked, and the caller waits for a bounded number of bounded, growing delays.
RetryIsContained == ClientErrorResentOnlyIfListed /\ WaitsBounded /\ WaitsBackOff
=============================================================================
