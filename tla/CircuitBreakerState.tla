------------------------ MODULE CircuitBreakerState ------------------------
(***************************************************************************)
(* The class CircuitBreakerState (src/libs/shared/resilience/              *)
(* circuit-breaker.state.ts) as operators on a record: the fields of the   *)
(* object and what each method makes of them.  Every method runs to its    *)
(* end without an await, so a method is one value-to-value operator;       *)
(* PortBreaker and BreakerService call them from concurrent requests.      *)
(*                                                                         *)
(* stateChangedAt is kept as `elapsed', the time since it was written,     *)
(* which stops at MaxElapsed where every comparison the class makes with   *)
(* it is decided.  lastFailureTime is written and never read: left out.    *)
(***************************************************************************)
EXTENDS Integers

CONSTANTS MinRequests,     \* options.minRequests
          ErrorThreshold,  \* options.errorThreshold, a percentage
          ResetTimeout,    \* options.resetTimeout, in ticks
          TimeWindow       \* options.timeout, in ticks

ASSUME BreakerAssumption ==
  /\ MinRequests \in Nat \ {0}
  /\ ErrorThreshold \in 1..100
  /\ ResetTimeout \in Nat \ {0}
  /\ TimeWindow \in Nat \ {0}

CircuitState == {"CLOSED", "OPEN", "HALF_OPEN"}

MaxElapsed == IF ResetTimeout > TimeWindow THEN ResetTimeout ELSE TimeWindow + 1

Breaker == [state : CircuitState, elapsed : 0..MaxElapsed,
            requests : Nat, failures : Nat,
            successCount : Nat, failureCount : Nat]

\* A new object: closed, all counters zero.
Fresh == [state |-> "CLOSED", elapsed |-> 0, requests |-> 0, failures |-> 0,
          successCount |-> 0, failureCount |-> 0]

\* One tick of the clock as the object sees it.
Age(t) == IF t < MaxElapsed THEN t + 1 ELSE t

ResetMetrics(cb) ==
  [cb EXCEPT !.requests = 0, !.failures = 0,
             !.successCount = 0, !.failureCount = 0]

Enter(cb, s) == [cb EXCEPT !.state = s, !.elapsed = 0]

\* open() keeps the metrics; close(), halfOpen() and reset() clear them.
Open(cb) == Enter(cb, "OPEN")

Close(cb) == ResetMetrics(Enter(cb, "CLOSED"))

HalfOpen(cb) == ResetMetrics(Enter(cb, "HALF_OPEN"))

\* getFailureRate() >= p, without the division.
FailureRateAtLeast(cb, p) ==
  IF cb.requests = 0 THEN 0 >= p ELSE cb.failures * 100 >= p * cb.requests

\* Mutant: the volume check is off by one.
ShouldOpenEarly(cb) ==
  /\ cb.state # "OPEN"
  /\ cb.requests + 1 >= MinRequests
  /\ FailureRateAtLeast(cb, ErrorThreshold)

ShouldOpen(cb) ==
  /\ cb.state # "OPEN"
  /\ cb.requests >= MinRequests
  /\ FailureRateAtLeast(cb, ErrorThreshold)

ShouldAttemptReset(cb) == cb.state = "OPEN" /\ cb.elapsed >= ResetTimeout

\* Mutant: the window keeps the total and forgets the failures.
CleanupDropsFailures(cb) ==
  IF cb.elapsed > TimeWindow
  THEN [cb EXCEPT !.failures = 0, !.elapsed = 0]
  ELSE cb

\* Mutant: the roll-over takes the failures off the successes.
CleanupSubtracts(cb) ==
  IF cb.elapsed > TimeWindow
  THEN [cb EXCEPT !.requests = cb.successCount - cb.failureCount, !.elapsed = 0]
  ELSE cb

\* Window roll-over: requests becomes the successes alone, failures is set to
\* the running failure count it already equals, and stateChangedAt moves.
CleanupOldRequests(cb) ==
  IF cb.elapsed > TimeWindow
  THEN [cb EXCEPT !.requests = cb.successCount,
                  !.failures = cb.failureCount,
                  !.elapsed = 0]
  ELSE cb

CountSuccess(cb) == [cb EXCEPT !.requests = @ + 1, !.successCount = @ + 1]

CountFailure(cb) ==
  [cb EXCEPT !.requests = @ + 1, !.failures = @ + 1, !.failureCount = @ + 1]

\* Mutant: any success closes the circuit, the late answer of a call admitted
\* before the trip included.
SuccessAlwaysCloses(cb) ==
  LET counted == CountSuccess(cb)
  IN CleanupOldRequests(IF cb.state # "CLOSED" THEN Close(counted) ELSE counted)

\* Mutant: a successful probe is counted and the circuit stays HALF_OPEN.
SuccessNeverCloses(cb) == CleanupOldRequests(CountSuccess(cb))

RecordSuccess(cb) ==
  LET counted == CountSuccess(cb)
  IN CleanupOldRequests(IF cb.state = "HALF_OPEN" THEN Close(counted) ELSE counted)

\* `counts' is the verdict of options.errorFilter on the error.
RecordFailure(cb, counts) ==
  LET counted == CountFailure(cb)
  IN IF counts
     THEN CleanupOldRequests(IF cb.state = "HALF_OPEN" THEN Open(counted) ELSE counted)
     ELSE cb

\* The catch blocks of PortRegistry.execute and CircuitBreakerService.execute:
\* recordFailure, then open() if shouldOpen().
AfterFailure(cb, counts) ==
  LET recorded == RecordFailure(cb, counts)
  IN IF ShouldOpen(recorded) THEN Open(recorded) ELSE recorded

-----------------------------------------------------------------------------
\* What the methods preserve of an object's counters: `failures' is exactly the
\* running failure count, `requests' lies between the successes and the true
\* total, and a HALF_OPEN object has counted nothing yet.
Coherent(cb) ==
  /\ cb.failures = cb.failureCount
  /\ cb.successCount <= cb.requests
  /\ cb.requests <= cb.successCount + cb.failureCount
  /\ cb.state = "HALF_OPEN" => cb.requests = 0 /\ cb.failures = 0
=============================================================================
