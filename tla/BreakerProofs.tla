---------------------------- MODULE BreakerProofs ---------------------------
(***************************************************************************)
(* Proofs about the circuit breakers and the retry loop, for every number  *)
(* of callers and keys and every choice of thresholds, timeouts and plans. *)
(* PortBreaker: type correctness, coherent metrics, trips only on          *)
(* evidence, and the full rest after a trip.  BreakerService: an object    *)
(* judges only the calls that began on it, and two keys never share one.   *)
(* RetryService: a client's error is sent once, and the waits are bounded. *)
(***************************************************************************)
EXTENDS PortBreaker, BreakerService, RetryService, SequenceTheorems,
        FiniteSetTheorems, TLAPS

\* The saturated clock has room for zero.
LEMMA ClockRange == MaxElapsed \in Nat /\ 0 \in 0..MaxElapsed
  BY BreakerAssumption DEF BreakerAssumption, MaxElapsed

\* The field updates the methods make yield an object again.
LEMMA FieldUpdates ==
  ASSUME NEW x \in Breaker
  PROVE  /\ \A s \in CircuitState, e \in 0..MaxElapsed :
              [x EXCEPT !.state = s, !.elapsed = e] \in Breaker
         /\ \A e \in 0..MaxElapsed : [x EXCEPT !.elapsed = e] \in Breaker
         /\ \A r, s \in Nat : [x EXCEPT !.requests = r, !.successCount = s] \in Breaker
         /\ \A r, f, g \in Nat :
              [x EXCEPT !.requests = r, !.failures = f, !.failureCount = g] \in Breaker
         /\ \A r, f \in Nat, e \in 0..MaxElapsed :
              [x EXCEPT !.requests = r, !.failures = f, !.elapsed = e] \in Breaker
  BY DEF Breaker

\* The private helpers of the class return objects.
LEMMA HelpersTyped ==
  ASSUME NEW x \in Breaker
  PROVE  /\ \A s \in CircuitState : Enter(x, s) \in Breaker
         /\ ResetMetrics(x) \in Breaker
         /\ CountSuccess(x) \in Breaker
         /\ CountFailure(x) \in Breaker
         /\ CleanupOldRequests(x) \in Breaker
<1>1. /\ x.requests \in Nat /\ x.requests + 1 \in Nat
      /\ x.successCount \in Nat /\ x.successCount + 1 \in Nat
      /\ x.failures + 1 \in Nat
      /\ x.failureCount \in Nat /\ x.failureCount + 1 \in Nat
  BY DEF Breaker
<1>2. \A s \in CircuitState : Enter(x, s) \in Breaker
  BY FieldUpdates, ClockRange DEF Enter
<1>3. ResetMetrics(x) \in Breaker
  BY DEF ResetMetrics, Breaker
<1>4. CountSuccess(x) \in Breaker /\ CountFailure(x) \in Breaker
  BY <1>1, FieldUpdates, Zenon DEF CountSuccess, CountFailure
<1>5. CleanupOldRequests(x) \in Breaker
  BY <1>1, ClockRange, FieldUpdates, Zenon DEF CleanupOldRequests
<1> QED BY <1>2, <1>3, <1>4, <1>5

\* Every public method maps an object to an object.
LEMMA MethodsTyped ==
  ASSUME NEW b \in Breaker, NEW k \in BOOLEAN
  PROVE  /\ HalfOpen(b) \in Breaker
         /\ RecordSuccess(b) \in Breaker
         /\ RecordFailure(b, k) \in Breaker
         /\ AfterFailure(b, k) \in Breaker
         /\ [b EXCEPT !.elapsed = Age(@)] \in Breaker
<1>1. \A x \in Breaker : Open(x) \in Breaker /\ Close(x) \in Breaker /\ HalfOpen(x) \in Breaker
  BY HelpersTyped DEF Open, Close, HalfOpen, CircuitState
<1>2. RecordSuccess(b) \in Breaker
  BY <1>1, HelpersTyped DEF RecordSuccess
<1>3. RecordFailure(b, k) \in Breaker
  BY <1>1, HelpersTyped DEF RecordFailure
<1>4. AfterFailure(b, k) \in Breaker
  BY <1>1, <1>3 DEF AfterFailure
<1>5. Age(b.elapsed) \in 0..MaxElapsed
  BY ClockRange DEF Age, Breaker
<1>6. [b EXCEPT !.elapsed = Age(@)] \in Breaker
  BY <1>5, FieldUpdates, Zenon
<1> QED BY <1>1, <1>2, <1>3, <1>4, <1>6

\* Every method keeps the counters coherent.
LEMMA MethodsCoherent ==
  ASSUME NEW b \in Breaker, NEW k \in BOOLEAN, Coherent(b)
  PROVE  /\ Coherent(HalfOpen(b))
         /\ Coherent(RecordSuccess(b))
         /\ Coherent(RecordFailure(b, k))
         /\ Coherent(AfterFailure(b, k))
         /\ Coherent([b EXCEPT !.elapsed = Age(@)])
<1> USE DEF Coherent, Breaker, CircuitState
<1>1. Coherent(HalfOpen(b))
  BY DEF HalfOpen, Enter, ResetMetrics
<1>2. Coherent(RecordSuccess(b))
  BY DEF RecordSuccess, CountSuccess, Close, Enter, ResetMetrics, CleanupOldRequests
<1>3. Coherent(RecordFailure(b, k))
  BY DEF RecordFailure, CountFailure, Open, Enter, CleanupOldRequests
<1>4. Coherent(AfterFailure(b, k))
  BY <1>3, MethodsTyped DEF AfterFailure, Open, Enter
<1>5. Coherent([b EXCEPT !.elapsed = Age(@)])
  OBVIOUS
<1> QED BY <1>1, <1>2, <1>3, <1>4, <1>5

-----------------------------------------------------------------------------
\* The inductive invariant: types, coherent counters, and an OPEN object never
\* believes it has rested longer than it has (cleanupOldRequests may move
\* stateChangedAt forward, never back).
IInv ==
  /\ TypeOK
  /\ MetricsCoherent
  /\ cb.state = "OPEN" => cb.elapsed <= rest

\* The only steps that change the circuit's state, with what each requires.
LEMMA StateChanges ==
  ASSUME NEW b \in Breaker, NEW k \in BOOLEAN
  PROVE  /\ b.state = "OPEN" => RecordSuccess(b).state = "OPEN"
         /\ b.state = "OPEN" => AfterFailure(b, k).state = "OPEN"
         /\ RecordSuccess(b).state = "OPEN" => b.state = "OPEN"
         /\ HalfOpen(b).state = "HALF_OPEN"
<1> USE DEF Breaker, CircuitState
<1>1. b.state = "OPEN" => RecordSuccess(b).state = "OPEN"
  BY DEF RecordSuccess, CountSuccess, CleanupOldRequests
<1>2. b.state = "OPEN" => RecordFailure(b, k).state = "OPEN"
  BY DEF RecordFailure, CountFailure, CleanupOldRequests
<1>3. b.state = "OPEN" => AfterFailure(b, k).state = "OPEN"
  BY <1>2 DEF AfterFailure, ShouldOpen
<1>4. RecordSuccess(b).state = "OPEN" => b.state = "OPEN"
  BY DEF RecordSuccess, CountSuccess, CleanupOldRequests, Close, Enter, ResetMetrics
<1>5. HalfOpen(b).state = "HALF_OPEN"
  BY DEF HalfOpen, Enter, ResetMetrics
<1> QED BY <1>1, <1>3, <1>4, <1>5

\* The clock of an OPEN object: late answers only ever move it back to zero, and
\* a step that opens the circuit leaves it at zero.
LEMMA OpenClock ==
  ASSUME NEW b \in Breaker, NEW k \in BOOLEAN
  PROVE  /\ b.state = "OPEN" => RecordSuccess(b).elapsed <= b.elapsed
         /\ b.state = "OPEN" => AfterFailure(b, k).elapsed <= b.elapsed
         /\ b.state # "OPEN" /\ AfterFailure(b, k).state = "OPEN"
              => AfterFailure(b, k).elapsed = 0
<1> USE ClockRange DEF Breaker, CircuitState
<1>1. b.state = "OPEN" => RecordSuccess(b).elapsed <= b.elapsed
  BY DEF RecordSuccess, CountSuccess, CleanupOldRequests
<1>2. b.state = "OPEN" => RecordFailure(b, k).elapsed <= b.elapsed
                          /\ RecordFailure(b, k).state = "OPEN"
  BY DEF RecordFailure, CountFailure, CleanupOldRequests
<1>3. b.state = "OPEN" => AfterFailure(b, k).elapsed <= b.elapsed
  BY <1>2 DEF AfterFailure, ShouldOpen
<1>4. b.state # "OPEN" /\ RecordFailure(b, k).state = "OPEN"
        => RecordFailure(b, k).elapsed = 0
  BY BreakerAssumption
     DEF BreakerAssumption, RecordFailure, CountFailure, CleanupOldRequests, Open, Enter
<1>5. b.state # "OPEN" /\ AfterFailure(b, k).state = "OPEN"
        => AfterFailure(b, k).elapsed = 0
  BY <1>4, MethodsTyped DEF AfterFailure, Open, Enter
<1> QED BY <1>1, <1>3, <1>5

\* What Settle makes of the ghost clock.
LEMMA SettleKeepsInv ==
  ASSUME IInv, NEW c \in Callers, NEW n \in Breaker, Coherent(n), Settle(c, n),
         cb.state = "OPEN" => n.state = "OPEN" /\ n.elapsed <= cb.elapsed,
         cb.state # "OPEN" /\ n.state = "OPEN" => n.elapsed = 0
  PROVE  IInv'
<1> USE DEF IInv, Settle, Rested
<1>1. TypeOK'
  BY ClockRange DEF TypeOK, CallState
<1>2. MetricsCoherent'
  BY DEF MetricsCoherent
<1>3. (cb.state = "OPEN" => cb.elapsed <= rest)'
  <2>1. CASE cb.state = "OPEN"
    BY <2>1, ClockRange DEF TypeOK, Breaker
  <2>2. CASE cb.state # "OPEN"
    BY <2>2
  <2> QED BY <2>1, <2>2
<1> QED BY <1>1, <1>2, <1>3

\* IInv is inductive.
LEMMA Inductive == IInv /\ [Next]_vars => IInv'
<1> SUFFICES ASSUME IInv, [Next]_vars PROVE IInv'
  OBVIOUS
<1>0. cb \in Breaker /\ Coherent(cb)
  BY DEF IInv, TypeOK, MetricsCoherent
<1>1. ASSUME NEW c \in Callers, Admit(c) PROVE IInv'
  BY <1>1 DEF IInv, Admit, TypeOK, CallState, MetricsCoherent
<1>2. ASSUME NEW c \in Callers, Probe(c) PROVE IInv'
  <2>1. cb' \in Breaker /\ Coherent(cb') /\ cb'.state = "HALF_OPEN"
    BY <1>0, <1>2, MethodsTyped, MethodsCoherent, StateChanges DEF Probe
  <2> QED BY <1>2, <2>1 DEF IInv, Probe, TypeOK, CallState, MetricsCoherent
<1>3. ASSUME NEW c \in Callers, Succeed(c) PROVE IInv'
  <2>1. RecordSuccess(cb) \in Breaker /\ Coherent(RecordSuccess(cb))
    BY <1>0, MethodsTyped, MethodsCoherent
  <2>2. /\ cb.state = "OPEN" => /\ RecordSuccess(cb).state = "OPEN"
                                /\ RecordSuccess(cb).elapsed <= cb.elapsed
        /\ RecordSuccess(cb).state = "OPEN" => cb.state = "OPEN"
    BY <1>0, StateChanges, OpenClock
  <2> QED BY <1>3, <2>1, <2>2, SettleKeepsInv DEF Succeed
<1>4. ASSUME NEW c \in Callers, NEW k \in BOOLEAN, Settle(c, AfterFailure(cb, k))
      PROVE IInv'
  <2>1. AfterFailure(cb, k) \in Breaker /\ Coherent(AfterFailure(cb, k))
    BY <1>0, MethodsTyped, MethodsCoherent
  <2>2. /\ cb.state = "OPEN" => /\ AfterFailure(cb, k).state = "OPEN"
                                /\ AfterFailure(cb, k).elapsed <= cb.elapsed
        /\ cb.state # "OPEN" /\ AfterFailure(cb, k).state = "OPEN"
             => AfterFailure(cb, k).elapsed = 0
    BY <1>0, StateChanges, OpenClock
  <2> QED BY <1>4, <2>1, <2>2, SettleKeepsInv
<1>5. ASSUME Tick PROVE IInv'
  <2>1. cb' \in Breaker /\ Coherent(cb')
    BY <1>0, <1>5, MethodsTyped, MethodsCoherent DEF Tick
  <2>2. rest' \in 0..MaxElapsed
    BY <1>5, ClockRange DEF Tick, IInv, TypeOK, Age
  <2>3. cb'.state = cb.state /\ cb'.elapsed = Age(cb.elapsed)
    BY <1>0, <1>5 DEF Tick, Breaker
  <2>4. cb.elapsed <= rest => Age(cb.elapsed) <= Age(rest)
    BY <1>0, ClockRange DEF Age, Breaker, IInv, TypeOK
  <2> QED BY <1>5, <2>1, <2>2, <2>3, <2>4 DEF IInv, Tick, TypeOK, MetricsCoherent
<1>6. ASSUME Turn PROVE IInv'
  BY <1>6 DEF IInv, Turn, TypeOK, MetricsCoherent
<1>7. CASE UNCHANGED vars
  BY <1>7 DEF IInv, TypeOK, MetricsCoherent, vars
<1> QED
  BY <1>1, <1>2, <1>3, <1>4, <1>5, <1>6, <1>7 DEF Next, FailInfra, FailClient

\* IInv holds throughout.
THEOREM InvariantHolds == Spec => []IInv
<1>1. Init => IInv
  BY ClockRange
     DEF Init, IInv, TypeOK, MetricsCoherent, Coherent, Fresh, Breaker, CircuitState, CallState
<1> QED BY <1>1, Inductive, PTL DEF Spec

\* Type correctness of the port's breaker and of its callers.
THEOREM TypeCorrect == Spec => []TypeOK
<1>1. IInv => TypeOK
  BY DEF IInv
<1> QED BY <1>1, InvariantHolds, PTL

\* The breaker's counters are coherent in every reachable state
\* (recordSuccess, recordFailure, cleanupOldRequests, halfOpen, close).
THEOREM MetricsAlwaysCoherent == Spec => []MetricsCoherent
<1>1. IInv => MetricsCoherent
  BY DEF IInv
<1> QED BY <1>1, InvariantHolds, PTL

\* The circuit is left alone for the whole reset timeout after open(): only the
\* probe branch of PortRegistry.execute leaves OPEN, and its clock never runs
\* ahead of the real one.
THEOREM OpenAlwaysRests == Spec => OpenRests
<1> DEFINE Rests == cb.state = "OPEN" /\ cb'.state # "OPEN" => rest >= ResetTimeout
<1>1. IInv /\ [Next]_vars => [Rests]_vars
  <2> SUFFICES ASSUME IInv, Next, cb.state = "OPEN", cb'.state # "OPEN"
               PROVE  rest >= ResetTimeout
    OBVIOUS
  <2>0. cb \in Breaker
    BY DEF IInv, TypeOK
  <2>1. ASSUME NEW c \in Callers, Probe(c) PROVE rest >= ResetTimeout
    BY <2>0, <2>1, BreakerAssumption, ClockRange
       DEF BreakerAssumption, Probe, ShouldAttemptReset, IInv, TypeOK, Breaker
  <2>2. ASSUME NEW c \in Callers, Succeed(c) PROVE FALSE
    BY <2>0, <2>2, StateChanges DEF Succeed, Settle
  <2>3. ASSUME NEW c \in Callers, NEW k \in BOOLEAN, Settle(c, AfterFailure(cb, k))
        PROVE FALSE
    BY <2>0, <2>3, StateChanges DEF Settle
  <2>4. ASSUME Tick PROVE FALSE
    BY <2>0, <2>4 DEF Tick, Breaker
  <2> QED
    BY <2>1, <2>2, <2>3, <2>4 DEF Next, Admit, Turn, FailInfra, FailClient
<1> QED BY <1>1, InvariantHolds, PTL DEF Spec, OpenRests

\* A positive product of naturals.
LEMMA PositiveProduct == \A a, b \in Nat \ {0} : a * b >= 1
  OBVIOUS

\* A closed circuit trips only after MinRequests settled calls, at least one of
\* them an infrastructure failure (AfterFailure: recordFailure, then shouldOpen).
THEOREM TripsOnlyOnEvidence == Spec => TripNeedsEvidence
<1> DEFINE Evidence == cb.state = "CLOSED" /\ cb'.state = "OPEN" =>
                         /\ cb'.successCount + cb'.failureCount >= MinRequests
                         /\ cb'.failureCount >= 1
<1>1. IInv /\ [Next]_vars => [Evidence]_vars
  <2> SUFFICES ASSUME IInv, Next, cb.state = "CLOSED", cb'.state = "OPEN"
               PROVE  /\ cb'.successCount + cb'.failureCount >= MinRequests
                      /\ cb'.failureCount >= 1
    OBVIOUS
  <2>0. cb \in Breaker /\ Coherent(cb)
    BY DEF IInv, TypeOK, MetricsCoherent
  <2>1. ASSUME NEW c \in Callers, NEW k \in BOOLEAN, Settle(c, AfterFailure(cb, k))
        PROVE  /\ cb'.successCount + cb'.failureCount >= MinRequests
               /\ cb'.failureCount >= 1
    <3> DEFINE r == RecordFailure(cb, k)
    <3>1. r \in Breaker /\ Coherent(r)
      BY <2>0, MethodsTyped, MethodsCoherent
    <3>2. r.state = "CLOSED"
      BY <2>0 DEF RecordFailure, CountFailure, CleanupOldRequests, Breaker
    <3>3. ShouldOpen(r) /\ cb' = Open(r)
      BY <2>1, <3>2 DEF Settle, AfterFailure
    <3> HIDE DEF r
    <3>4. /\ cb'.successCount = r.successCount
          /\ cb'.failureCount = r.failureCount
      BY <3>1, <3>3 DEF Open, Enter, Breaker
    <3>5. r.requests >= MinRequests /\ r.failures * 100 >= ErrorThreshold * r.requests
      BY <3>1, <3>3, BreakerAssumption
         DEF BreakerAssumption, ShouldOpen, FailureRateAtLeast, Breaker
    <3>6. r.requests \in Nat \ {0} /\ r.failures \in Nat
      BY <3>1, <3>5, BreakerAssumption DEF BreakerAssumption, Breaker
    <3>7. ErrorThreshold * r.requests >= 1
      BY <3>6, PositiveProduct, BreakerAssumption DEF BreakerAssumption
    <3>8. r.failures >= 1
      BY <3>5, <3>6, <3>7, BreakerAssumption DEF BreakerAssumption
    <3> QED
      BY <3>1, <3>4, <3>5, <3>8, BreakerAssumption DEF BreakerAssumption, Coherent, Breaker
  <2>2. ASSUME NEW c \in Callers, Succeed(c) PROVE FALSE
    BY <2>0, <2>2, StateChanges DEF Succeed, Settle
  <2>3. ASSUME NEW c \in Callers, Probe(c) PROVE FALSE
    BY <2>3 DEF Probe, ShouldAttemptReset
  <2>4. ASSUME Tick PROVE FALSE
    BY <2>0, <2>4 DEF Tick, Breaker
  <2> QED
    BY <2>1, <2>2, <2>3, <2>4 DEF Next, Admit, Turn, FailInfra, FailClient
<1> QED BY <1>1, InvariantHolds, PTL DEF Spec, TripNeedsEvidence

-----------------------------------------------------------------------------
(* BreakerService *)

\* The calls that run under object o.
Under(o) == {c \in ServiceCallers : inFlight[c] = o}

\* The calls an object has judged.
Judged(b) == b.successCount + b.failureCount

\* Object o, with `running' calls under it, has judged only calls begun on it.
OwnCalls(b, running, started) == Judged(b) + running <= started

\* The map and the calls in flight point to objects there are, each with its own
\* number of calls begun.
ServiceTyped ==
  /\ objects \in Seq(Breaker)
  /\ begun \in Seq(Nat) /\ Len(begun) = Len(objects)
  /\ circuitBreakers \in [BreakerKeys -> 0..Len(objects)]
  /\ inFlight \in [ServiceCallers -> 0..Len(objects)]

ServiceInv ==
  /\ ServiceTyped
  /\ \A o \in 1..Len(objects) :
       /\ IsFiniteSet(Under(o))
       /\ OwnCalls(objects[o], Cardinality(Under(o)), begun[o])
  /\ KeysApart

\* A settled call is counted once; close() forgets all, the clock nothing
\* (recordSuccess, recordFailure, close).
LEMMA MethodsCount ==
  ASSUME NEW b \in Breaker, NEW k \in BOOLEAN
  PROVE  /\ Judged(b) \in Nat
         /\ Judged(RecordSuccess(b)) <= Judged(b) + 1
         /\ Judged(AfterFailure(b, k)) <= Judged(b) + 1
         /\ Judged(Close(b)) = 0 /\ Close(b) \in Breaker
         /\ Judged([b EXCEPT !.elapsed = Age(@)]) = Judged(b)
<1> USE DEF Judged, Breaker, CircuitState
<1>1. Judged(RecordSuccess(b)) <= Judged(b) + 1
  BY DEF RecordSuccess, CountSuccess, Close, Enter, ResetMetrics, CleanupOldRequests
<1>2. Judged(RecordFailure(b, k)) <= Judged(b) + 1
  BY DEF RecordFailure, CountFailure, Open, Enter, CleanupOldRequests
<1>3. Judged(AfterFailure(b, k)) <= Judged(b) + 1
  BY <1>2, MethodsTyped DEF AfterFailure, Open, Enter
<1>4. Judged(Close(b)) = 0
  BY DEF Close, Enter, ResetMetrics
<1>5. Close(b) \in Breaker
  BY HelpersTyped DEF Close
<1> QED BY <1>1, <1>3, <1>4, <1>5

\* The calls under each object when caller c leaves i for j.
LEMMA CallerMoves ==
  ASSUME ServiceInv, NEW c \in ServiceCallers, NEW j,
         inFlight' = [inFlight EXCEPT ![c] = j], inFlight[c] # j,
         NEW o \in 1..Len(objects)
  PROVE  /\ IsFiniteSet(Under(o)')
         /\ Cardinality(Under(o)) \in Nat /\ Cardinality(Under(o)') \in Nat
         /\ o = j => Cardinality(Under(o)') = Cardinality(Under(o)) + 1
         /\ o = inFlight[c] => Cardinality(Under(o)') = Cardinality(Under(o)) - 1
         /\ o # j /\ o # inFlight[c] => Under(o)' = Under(o)
<1>1. IsFiniteSet(Under(o)) /\ inFlight \in [ServiceCallers -> 0..Len(objects)]
  BY DEF ServiceInv, ServiceTyped
<1>2. Cardinality(Under(o)) \in Nat
  BY <1>1, FS_CardinalityType
<1>3. CASE o = j
  <2>1. Under(o)' = Under(o) \cup {c} /\ c \notin Under(o)
    BY <1>1, <1>3 DEF Under
  <2>2. IsFiniteSet(Under(o) \cup {c}) /\ Cardinality(Under(o) \cup {c}) = Cardinality(Under(o)) + 1
    BY <1>1, <2>1, FS_AddElement
  <2> QED BY <1>1, <1>2, <1>3, <2>1, <2>2
<1>4. CASE o = inFlight[c]
  <2>1. Under(o)' = Under(o) \ {c} /\ c \in Under(o)
    BY <1>1, <1>4 DEF Under
  <2>2. /\ IsFiniteSet(Under(o) \ {c})
        /\ Cardinality(Under(o) \ {c}) = Cardinality(Under(o)) - 1
    BY <1>1, <2>1, FS_RemoveElement
  <2>3. Cardinality(Under(o)') \in Nat
    BY <2>1, <2>2, FS_CardinalityType
  <2> QED BY <1>1, <1>2, <1>4, <2>1, <2>2, <2>3
<1>5. CASE o # j /\ o # inFlight[c]
  <2>1. Under(o)' = Under(o)
    BY <1>1, <1>5 DEF Under
  <2> QED BY <1>1, <1>2, <1>5, <2>1
<1> QED BY <1>3, <1>4, <1>5

\* What is known of one object.
LEMMA ObjectFacts ==
  ASSUME ServiceInv, NEW o \in 1..Len(objects)
  PROVE  /\ objects[o] \in Breaker /\ Judged(objects[o]) \in Nat /\ begun[o] \in Nat
         /\ IsFiniteSet(Under(o)) /\ Cardinality(Under(o)) \in Nat
         /\ Judged(objects[o]) + Cardinality(Under(o)) <= begun[o]
<1>1. objects[o] \in Breaker /\ begun[o] \in Nat
  BY DEF ServiceInv, ServiceTyped
<1>2. Judged(objects[o]) \in Nat
  BY <1>1, MethodsCount
<1>3. IsFiniteSet(Under(o)) /\ Judged(objects[o]) + Cardinality(Under(o)) <= begun[o]
  BY DEF ServiceInv, OwnCalls
<1>4. Cardinality(Under(o)) \in Nat
  BY <1>3, FS_CardinalityType
<1> QED BY <1>1, <1>2, <1>3, <1>4

\* A step that replaces one object, and neither begins a call nor changes the map.
LEMMA ObjectReplaced ==
  ASSUME ServiceInv, NEW p \in 1..Len(objects), NEW b \in Breaker,
         objects' = [objects EXCEPT ![p] = b],
         begun' \in Seq(Nat), Len(begun') = Len(begun), circuitBreakers' = circuitBreakers,
         inFlight' \in [ServiceCallers -> 0..Len(objects)],
         \A o \in 1..Len(objects) :
           /\ IsFiniteSet(Under(o)')
           /\ OwnCalls(IF o = p THEN b ELSE objects[o], Cardinality(Under(o)'), begun'[o])
  PROVE  ServiceInv'
<1>1. objects \in Seq(Breaker)
  BY DEF ServiceInv, ServiceTyped
<1>2. /\ objects' \in Seq(Breaker) /\ Len(objects') = Len(objects)
      /\ \A o \in 1..Len(objects) : objects'[o] = IF o = p THEN b ELSE objects[o]
  BY <1>1, ExceptSeq
<1>3. ServiceTyped'
  BY <1>2 DEF ServiceInv, ServiceTyped
<1>4. KeysApart'
  BY DEF ServiceInv, KeysApart, Known
<1>5. \A o \in 1..Len(objects') :
        /\ IsFiniteSet(Under(o)')
        /\ OwnCalls(objects'[o], Cardinality(Under(o)'), begun'[o])
  BY <1>2
<1> QED BY <1>3, <1>4, <1>5 DEF ServiceInv

\* A new object has judged nothing, and its first call runs under it
\* (getCircuitBreaker for a key that is not in the Map).
LEMMA ExecuteFirstKeepsInv ==
  ASSUME ServiceInv, NEW c \in ServiceCallers, NEW k \in BreakerKeys, ExecuteFirst(c, k)
  PROVE  ServiceInv'
<1>m. PICK m : m = Len(objects) + 1
  OBVIOUS
<1>0. /\ objects \in Seq(Breaker) /\ begun \in Seq(Nat) /\ Len(begun) = Len(objects)
      /\ circuitBreakers \in [BreakerKeys -> 0..Len(objects)]
      /\ inFlight \in [ServiceCallers -> 0..Len(objects)]
      /\ Len(objects) \in Nat /\ m \in 1..m
  BY <1>m DEF ServiceInv, ServiceTyped
<1>1. Fresh \in Breaker /\ Judged(Fresh) = 0
  BY ClockRange DEF Fresh, Breaker, CircuitState, Judged
<1>2. /\ objects' \in Seq(Breaker) /\ Len(objects') = m /\ objects'[m] = Fresh
      /\ \A o \in 1..Len(objects) : objects'[o] = objects[o]
  BY <1>m, <1>0, <1>1, AppendProperties DEF ExecuteFirst
<1>3. /\ begun' \in Seq(Nat) /\ Len(begun') = m /\ begun'[m] = 1
      /\ \A o \in 1..Len(objects) : begun'[o] = begun[o]
  BY <1>m, <1>0, AppendProperties DEF ExecuteFirst
<1>4. /\ inFlight' = [inFlight EXCEPT ![c] = m] /\ inFlight[c] = 0
      /\ circuitBreakers' = [circuitBreakers EXCEPT ![k] = m]
  BY <1>m DEF ExecuteFirst
<1>5. ServiceTyped'
  BY <1>m, <1>0, <1>2, <1>3, <1>4 DEF ServiceTyped
<1>6. KeysApart'
  <2>1. /\ circuitBreakers'[k] = m
        /\ \A j \in BreakerKeys : j # k => /\ circuitBreakers'[j] = circuitBreakers[j]
                                           /\ circuitBreakers[j] # m
    BY <1>m, <1>0, <1>4
  <2> QED BY <2>1 DEF ServiceInv, KeysApart, Known
<1>7. ASSUME NEW o \in 1..Len(objects)
      PROVE  /\ IsFiniteSet(Under(o)')
             /\ OwnCalls(objects'[o], Cardinality(Under(o)'), begun'[o])
  <2>1. o # m /\ o # inFlight[c] /\ inFlight[c] # m
    BY <1>m, <1>0, <1>4
  <2>2. Under(o)' = Under(o)
    BY <1>4, <2>1, CallerMoves
  <2> QED BY <1>2, <1>3, <2>2 DEF ServiceInv
<1>8. /\ IsFiniteSet(Under(m)')
      /\ OwnCalls(objects'[m], Cardinality(Under(m)'), begun'[m])
  <2>1. Under(m)' = {c}
    BY <1>m, <1>0, <1>4 DEF Under
  <2>2. IsFiniteSet({c}) /\ Cardinality({c}) = 1
    BY FS_Singleton
  <2> QED BY <1>1, <1>2, <1>3, <2>1, <2>2 DEF OwnCalls
<1>9. \A o \in 1..Len(objects') : o \in 1..Len(objects) \/ o = m
  BY <1>m, <1>0, <1>2
<1> QED BY <1>5, <1>6, <1>7, <1>8, <1>9 DEF ServiceInv

\* A call begun on an object is counted as begun before it is judged (execute).
LEMMA BeginCounts ==
  ASSUME ServiceInv, NEW p \in 1..Len(objects), Begin(p)
  PROVE  /\ begun' \in Seq(Nat) /\ Len(begun') = Len(begun)
         /\ \A o \in 1..Len(objects) : begun'[o] = IF o = p THEN begun[o] + 1 ELSE begun[o]
<1>1. begun \in Seq(Nat) /\ p \in 1..Len(begun) /\ begun[p] + 1 \in Nat /\ Len(begun) = Len(objects)
  BY DEF ServiceInv, ServiceTyped
<1>2. begun' = [begun EXCEPT ![p] = begun[p] + 1]
  BY DEF Begin
<1> QED BY <1>1, <1>2, ExceptSeq

\* A key that is in the Map has an object.
LEMMA KnownObject ==
  ASSUME ServiceInv, NEW k \in BreakerKeys, Known(k)
  PROVE  circuitBreakers[k] \in 1..Len(objects)
  BY DEF ServiceInv, ServiceTyped, Known

\* A call admitted to a known object (execute, circuit not OPEN).
LEMMA ExecuteKeepsInv ==
  ASSUME ServiceInv, NEW c \in ServiceCallers, NEW k \in BreakerKeys, Execute(c, k)
  PROVE  ServiceInv'
<1>1. PICK p \in 1..Len(objects) : p = circuitBreakers[k]
  BY KnownObject DEF Execute
<1>2. /\ inFlight[c] = 0 /\ Begin(p) /\ inFlight' = [inFlight EXCEPT ![c] = p]
      /\ circuitBreakers' = circuitBreakers /\ objects' = objects
  BY <1>1 DEF Execute
<1>3. /\ objects \in Seq(Breaker) /\ inFlight \in [ServiceCallers -> 0..Len(objects)]
      /\ inFlight[c] # p
  BY <1>1, <1>2 DEF ServiceInv, ServiceTyped
<1>4. objects[p] \in Breaker /\ objects' = [objects EXCEPT ![p] = objects[p]]
  BY <1>2, <1>3, ExceptSeq
<1>5. inFlight' \in [ServiceCallers -> 0..Len(objects)]
  BY <1>2, <1>3
<1>6. ASSUME NEW o \in 1..Len(objects)
      PROVE  /\ IsFiniteSet(Under(o)')
             /\ OwnCalls(IF o = p THEN objects[p] ELSE objects[o], Cardinality(Under(o)'), begun'[o])
  <2>1. /\ IsFiniteSet(Under(o)')
        /\ o = p => Cardinality(Under(o)') = Cardinality(Under(o)) + 1
        /\ o # p => Under(o)' = Under(o)
    <3>1. o # 0
      OBVIOUS
    <3> QED BY <1>2, <1>3, <3>1, CallerMoves
  <2>2. begun'[o] = IF o = p THEN begun[o] + 1 ELSE begun[o]
    BY <1>2, BeginCounts
  <2> QED BY <2>1, <2>2, ObjectFacts DEF OwnCalls
<1>7. begun' \in Seq(Nat) /\ Len(begun') = Len(begun)
  BY <1>2, BeginCounts
<1> QED BY <1>2, <1>4, <1>5, <1>6, <1>7, ObjectReplaced

\* The service's own rejection is begun and judged in one step (execute, the throw
\* inside the try).
LEMMA RejectionKeepsInv ==
  ASSUME ServiceInv, NEW k \in BreakerKeys, ExecuteRejected(k)
  PROVE  ServiceInv'
<1>1. PICK p \in 1..Len(objects) : p = circuitBreakers[k]
  BY KnownObject DEF ExecuteRejected
<1>2. PICK counts \in BOOLEAN : objects' = [objects EXCEPT ![p] = AfterFailure(objects[p], counts)]
  BY <1>1 DEF ExecuteRejected
<1>3. Begin(p) /\ inFlight' = inFlight /\ circuitBreakers' = circuitBreakers
  BY <1>1 DEF ExecuteRejected
<1>4. /\ AfterFailure(objects[p], counts) \in Breaker
      /\ Judged(AfterFailure(objects[p], counts)) \in Nat
      /\ Judged(AfterFailure(objects[p], counts)) <= Judged(objects[p]) + 1
  BY ObjectFacts, MethodsTyped, MethodsCount
<1>5. ASSUME NEW o \in 1..Len(objects)
      PROVE  /\ IsFiniteSet(Under(o)')
             /\ OwnCalls(IF o = p THEN AfterFailure(objects[p], counts) ELSE objects[o],
                         Cardinality(Under(o)'), begun'[o])
  <2>1. Under(o)' = Under(o)
    BY <1>3 DEF Under
  <2>2. begun'[o] = IF o = p THEN begun[o] + 1 ELSE begun[o]
    BY <1>3, BeginCounts
  <2> QED BY <1>4, <2>1, <2>2, ObjectFacts DEF OwnCalls
<1>6. inFlight' \in [ServiceCallers -> 0..Len(objects)]
  BY <1>3 DEF ServiceInv, ServiceTyped
<1>7. begun' \in Seq(Nat) /\ Len(begun') = Len(begun)
  BY <1>3, BeginCounts
<1> QED BY <1>2, <1>3, <1>4, <1>5, <1>6, <1>7, ObjectReplaced

\* A call that settles leaves the object it began on and is judged there at most
\* once, in the Map or not (execute, after its await).
LEMMA SettlesKeepsInv ==
  ASSUME ServiceInv, NEW c \in ServiceCallers, inFlight[c] # 0, NEW b \in Breaker,
         Judged(b) <= Judged(objects[inFlight[c]]) + 1, Settles(c, b)
  PROVE  ServiceInv'
<1>1. PICK p \in 1..Len(objects) : p = inFlight[c]
  BY DEF ServiceInv, ServiceTyped
<1>2. /\ objects' = [objects EXCEPT ![p] = b] /\ inFlight' = [inFlight EXCEPT ![c] = 0]
      /\ circuitBreakers' = circuitBreakers /\ begun' = begun
  BY <1>1 DEF Settles
<1>3. /\ inFlight' \in [ServiceCallers -> 0..Len(objects)]
      /\ begun' \in Seq(Nat) /\ Len(begun') = Len(begun)
  BY <1>2 DEF ServiceInv, ServiceTyped
<1>4. Judged(b) \in Nat
  BY MethodsCount
<1>5. ASSUME NEW o \in 1..Len(objects)
      PROVE  /\ IsFiniteSet(Under(o)')
             /\ OwnCalls(IF o = p THEN b ELSE objects[o], Cardinality(Under(o)'), begun'[o])
  <2>1. /\ IsFiniteSet(Under(o)') /\ Cardinality(Under(o)') \in Nat
        /\ o = p => Cardinality(Under(o)') = Cardinality(Under(o)) - 1
        /\ o # p => Under(o)' = Under(o)
    <3>1. o # 0
      OBVIOUS
    <3> QED BY <1>1, <1>2, <3>1, CallerMoves
  <2> QED BY SMTT(20), <1>1, <1>2, <1>4, <2>1, ObjectFacts DEF OwnCalls
<1> QED BY <1>2, <1>3, <1>5, ObjectReplaced

\* reset() forgets what the object had judged.
LEMMA ResetKeepsInv ==
  ASSUME ServiceInv, NEW k \in BreakerKeys, Reset(k)
  PROVE  ServiceInv'
<1>1. PICK p \in 1..Len(objects) : p = circuitBreakers[k]
  BY KnownObject DEF Reset
<1>2. /\ objects' = [objects EXCEPT ![p] = Close(objects[p])]
      /\ circuitBreakers' = circuitBreakers /\ inFlight' = inFlight /\ begun' = begun
  BY <1>1 DEF Reset
<1>3. Close(objects[p]) \in Breaker /\ Judged(Close(objects[p])) = 0
  BY ObjectFacts, MethodsCount
<1>4. ASSUME NEW o \in 1..Len(objects)
      PROVE  /\ IsFiniteSet(Under(o)')
             /\ OwnCalls(IF o = p THEN Close(objects[p]) ELSE objects[o],
                         Cardinality(Under(o)'), begun'[o])
  <2>1. Under(o)' = Under(o)
    BY <1>2 DEF Under
  <2> QED BY <1>2, <1>3, <2>1, ObjectFacts DEF OwnCalls
<1>5. /\ inFlight' \in [ServiceCallers -> 0..Len(objects)]
      /\ begun' \in Seq(Nat) /\ Len(begun') = Len(begun)
  BY <1>2 DEF ServiceInv, ServiceTyped
<1> QED BY <1>2, <1>3, <1>4, <1>5, ObjectReplaced

\* resetAll() empties the Map and touches no object, and the clock no counter.
LEMMA MapAndClockKeepInv ==
  ASSUME ServiceInv, ResetAll \/ ServiceTick \/ UNCHANGED serviceVars
  PROVE  ServiceInv'
<1>1. /\ inFlight' = inFlight /\ begun' = begun
      /\ \A o : Under(o)' = Under(o)
  BY DEF ResetAll, ServiceTick, serviceVars, Under
<1>2. CASE objects' = objects /\ (circuitBreakers' = [k \in BreakerKeys |-> 0]
                                   \/ circuitBreakers' = circuitBreakers)
  BY <1>1, <1>2 DEF ServiceInv, ServiceTyped, KeysApart, Known
<1>3. CASE ServiceTick
  <2>1. \A o \in 1..Len(objects) : /\ [objects[o] EXCEPT !.elapsed = Age(@)] \in Breaker
                                   /\ Judged([objects[o] EXCEPT !.elapsed = Age(@)])
                                        = Judged(objects[o])
    BY ObjectFacts, MethodsTyped, MethodsCount
  <2>2. DOMAIN objects = 1..Len(objects) /\ Len(objects) \in Nat
    BY DEF ServiceInv, ServiceTyped
  <2>3. objects' = [o \in 1..Len(objects) |-> [objects[o] EXCEPT !.elapsed = Age(@)]]
    BY <1>3, <2>2 DEF ServiceTick
  <2>4. objects' \in Seq(Breaker) /\ Len(objects') = Len(objects)
    BY <2>1, <2>2, <2>3
  <2>5. \A o \in 1..Len(objects) : Judged(objects'[o]) = Judged(objects[o])
    BY <2>1, <2>3
  <2>6. circuitBreakers' = circuitBreakers
    BY <1>3 DEF ServiceTick
  <2> QED BY <1>1, <2>4, <2>5, <2>6 DEF ServiceInv, ServiceTyped, KeysApart, Known, OwnCalls
<1> QED BY <1>2, <1>3 DEF ResetAll, serviceVars

\* Every operation of the service, and every answer to it, keeps the invariant.
LEMMA ServiceInvStep == ServiceInv /\ [ServiceNext]_serviceVars => ServiceInv'
<1> SUFFICES ASSUME ServiceInv, [ServiceNext]_serviceVars PROVE ServiceInv'
  OBVIOUS
<1>1. ASSUME NEW c \in ServiceCallers, NEW k \in BreakerKeys, ExecuteFirst(c, k) \/ Execute(c, k)
      PROVE  ServiceInv'
  BY <1>1, ExecuteFirstKeepsInv, ExecuteKeepsInv
<1>2. ASSUME NEW k \in BreakerKeys, ExecuteRejected(k) \/ Reset(k) PROVE ServiceInv'
  BY <1>2, RejectionKeepsInv, ResetKeepsInv
<1>3. ASSUME NEW c \in ServiceCallers, inFlight[c] # 0 PROVE objects[inFlight[c]] \in Breaker
  BY <1>3 DEF ServiceInv, ServiceTyped
<1>4. ASSUME NEW c \in ServiceCallers, MethodReturns(c) PROVE ServiceInv'
  <2>1. inFlight[c] # 0 /\ Settles(c, RecordSuccess(objects[inFlight[c]]))
    BY <1>4 DEF MethodReturns
  <2>2. TRUE \in BOOLEAN
    OBVIOUS
  <2>3. /\ RecordSuccess(objects[inFlight[c]]) \in Breaker
        /\ Judged(RecordSuccess(objects[inFlight[c]])) <= Judged(objects[inFlight[c]]) + 1
    BY <1>3, <2>1, <2>2, MethodsTyped, MethodsCount
  <2> QED BY <2>1, <2>3, SettlesKeepsInv
<1>5. ASSUME NEW c \in ServiceCallers, MethodThrows(c) PROVE ServiceInv'
  <2>1. PICK counts \in BOOLEAN : Settles(c, AfterFailure(objects[inFlight[c]], counts))
    BY <1>5 DEF MethodThrows
  <2>2. inFlight[c] # 0
    BY <1>5 DEF MethodThrows
  <2>3. /\ AfterFailure(objects[inFlight[c]], counts) \in Breaker
        /\ Judged(AfterFailure(objects[inFlight[c]], counts)) <= Judged(objects[inFlight[c]]) + 1
    BY <1>3, <2>2, MethodsTyped, MethodsCount
  <2> QED BY <2>1, <2>2, <2>3, SettlesKeepsInv
<1> QED BY <1>1, <1>2, <1>4, <1>5, MapAndClockKeepInv DEF ServiceNext

\* A breaker of CircuitBreakerService judges only calls that began on it, through
\* every resetAll() under which they were in flight, and two keys never share one.
THEOREM BreakersStayApart == ServiceSpec => []BreakersApart
<1>1. ServiceInit => ServiceInv
  <2> SUFFICES ASSUME ServiceInit PROVE ServiceInv
    OBVIOUS
  <2>1. objects = <<>> /\ begun = <<>> /\ Len(objects) = 0
    BY DEF ServiceInit
  <2>2. ServiceTyped
    BY <2>1 DEF ServiceInit, ServiceTyped
  <2> QED BY <2>1, <2>2 DEF ServiceInit, ServiceInv, KeysApart, Known
<1>2. ServiceInv => BreakersApart
  <2> SUFFICES ASSUME ServiceInv PROVE BreakersApart
    OBVIOUS
  <2>1. DOMAIN objects = 1..Len(objects)
    BY DEF ServiceInv, ServiceTyped
  <2>2. JudgesOwnCalls
    BY <2>1 DEF ServiceInv, OwnCalls, Judged, Under, JudgesOwnCalls
  <2> QED BY <2>2 DEF ServiceInv, BreakersApart
<1> QED BY <1>1, <1>2, ServiceInvStep, PTL DEF ServiceSpec

-----------------------------------------------------------------------------
(* The retry decorator (RetryService) *)

PlanSet == {MergeOptions(options) : options \in Plans}
WaitSet == Nat \cup UNION {o.delayCalculator : o \in PlanSet}

\* A wait within the cap and its jitter share, or the calculator's own.
Contained(wait, o) ==
  \/ wait \in o.delayCalculator
  \/ wait * 100 <= o.maxDelayMs * (100 + o.jitterFactor)

\* A wait of the attempt no shorter than its backoff, unless the calculator sets it.
BackedOff(wait, attempt, o) ==
  o.delayCalculator = {} => wait >= Backoff(attempt, o) \/ wait >= o.maxDelayMs

\* The error may be sent again although it tells the client's fault.
Resendable(error, o) ==
  TellsClient(error) =>
    /\ \E id \in o.retryableErrors : Names(error, id)
    /\ ~ \E id \in o.nonRetryableErrors : Names(error, id)

\* One wait lies between two attempts, and the error slept on may be sent again.
RetryInv ==
  /\ retry = [plan |-> retry.plan, phase |-> retry.phase, attempt |-> retry.attempt,
              lastError |-> retry.lastError, waits |-> retry.waits]
  /\ retry.waits \in Seq(WaitSet)
  /\ retry.phase \in {"idle", "calling", "sleeping", "returned", "thrown"}
  /\ retry.phase = "idle" => retry.waits = << >> /\ retry.plan = MergeOptions(<< >>)
  /\ retry.phase # "idle" => retry.plan \in PlanSet
  /\ retry.phase = "calling" =>
       /\ retry.attempt \in 1..retry.plan.maxAttempts
       /\ Len(retry.waits) = retry.attempt - 1
  /\ retry.phase = "sleeping" =>
       /\ retry.attempt \in 1..retry.plan.maxAttempts - 1
       /\ Len(retry.waits) = retry.attempt
       /\ Resendable(retry.lastError, retry.plan)
  /\ Len(retry.waits) < retry.plan.maxAttempts
  /\ \A i \in DOMAIN retry.waits :
       Contained(retry.waits[i], retry.plan) /\ BackedOff(retry.waits[i], i, retry.plan)

LEMMA PlanFacts ==
  ASSUME NEW o, o \in PlanSet \/ o = MergeOptions(<< >>)
  PROVE  /\ o.maxAttempts \in Nat \ {0} /\ o.maxDelayMs \in Nat /\ o.jitterFactor \in Nat
         /\ \A attempt \in 1..o.maxAttempts : Backoff(attempt, o) \in Nat
<1>1. PICK options \in Plans \cup {<< >>} : o = MergeOptions(options)
  BY DEF PlanSet
<1> QED BY <1>1, RetryAssumption, Zenon DEF RetryAssumption

\* An error that tells the client's fault passes shouldRetry by the plan's list alone.
LEMMA ClientRefused ==
  ASSUME NEW o, NEW error, NEW attempt, ShouldRetry(error, attempt, o)
  PROVE  Resendable(error, o)
BY Zenon DEF ShouldRetry, IsRetryableError, Resendable

\* calculateDelay keeps within the cap and its jitter share.
LEMMA DelayFacts ==
  ASSUME NEW o \in PlanSet, NEW attempt \in 1..o.maxAttempts, NEW delay \in Delays(attempt, o)
  PROVE  delay \in WaitSet /\ Contained(delay, o) /\ BackedOff(delay, attempt, o)
<1>1. PICK base : base = Backoff(attempt, o)
  OBVIOUS
<1>2. PICK most, jitter : most = o.maxDelayMs /\ jitter = o.jitterFactor
  OBVIOUS
<1>3. base \in Nat /\ most \in Nat /\ jitter \in Nat
  BY <1>1, <1>2, PlanFacts
<1>4. PICK capped : capped = IF base < most THEN base ELSE most
  OBVIOUS
<1>5. capped \in Nat /\ capped <= most /\ (capped = base \/ capped = most)
  BY <1>3, <1>4
<1>6. PICK share : share = (capped * jitter) \div 100
  OBVIOUS
<1>7. capped * jitter \in Nat
  BY <1>3, <1>5
<1>8. share \in Nat /\ share * 100 <= capped * jitter
  BY <1>6, <1>7
<1>9. most * jitter = capped * jitter + (most - capped) * jitter /\ (most - capped) * jitter \in Nat
  <2>1. most - capped \in Nat
    BY <1>3, <1>5
  <2>2. (most - capped) * jitter \in Nat
    BY <1>3, <2>1
  <2> QED BY <1>3, <1>5, <2>2
<1>10. most * (100 + jitter) = most * 100 + most * jitter
  BY <1>3
<1>11. \A x \in {capped, capped + (IF share > 0 THEN share - 1 ELSE 0)} :
         x \in Nat /\ x * 100 <= most * (100 + jitter) /\ (x >= base \/ x >= most)
  <2>1. PICK y : y = most * jitter
    OBVIOUS
  <2>2. PICK z : z = capped * jitter
    OBVIOUS
  <2>3. y \in Int /\ z \in Nat /\ z <= y /\ share * 100 <= z
    BY <1>7, <1>8, <1>9, <2>1, <2>2
  <2>4. most * (100 + jitter) = most * 100 + y
    BY <1>10, <2>1
  <2>5. \A x \in {capped, capped + (IF share > 0 THEN share - 1 ELSE 0)} :
          x \in Nat /\ x >= capped /\ x * 100 <= capped * 100 + z
    BY <1>5, <1>8, <2>3
  <2>6. capped * 100 + z <= most * 100 + y
    BY <1>3, <1>5, <2>3
  <2> QED BY <1>3, <1>5, <2>3, <2>4, <2>5, <2>6
<1>12. CASE o.delayCalculator # {}
  <2>1. delay \in o.delayCalculator
    BY <1>12, Zenon DEF Delays
  <2> QED BY <1>12, <2>1 DEF WaitSet, Contained, BackedOff
<1>13. CASE o.delayCalculator = {}
  <2>1. delay \in {capped, capped + (IF share > 0 THEN share - 1 ELSE 0)}
    BY <1>1, <1>2, <1>4, <1>6, <1>13, Zenon DEF Delays
  <2>2. delay \in Nat /\ delay * 100 <= most * (100 + jitter) /\ (delay >= base \/ delay >= most)
    BY <1>11, <2>1
  <2> QED BY <1>1, <1>2, <2>2, Zenon DEF WaitSet, Contained, BackedOff
<1> QED BY <1>12, <1>13

LEMMA RetryInit_Inv == RetryInit => RetryInv
<1> SUFFICES ASSUME RetryInit PROVE RetryInv
  OBVIOUS
<1>1. PICK o : o = MergeOptions(<< >>)
  OBVIOUS
<1>2. o.maxAttempts \in Nat \ {0}
  BY <1>1, PlanFacts
<1>3. retry = [plan |-> o, phase |-> "idle", attempt |-> 0, lastError |-> NoError, waits |-> << >>]
  BY <1>1 DEF RetryInit
<1>4. << >> \in Seq(WaitSet) /\ Len(<< >>) = 0
  BY EmptySeq
<1>5. Len(<< >>) < o.maxAttempts
  BY <1>2, <1>4
<1> QED BY <1>1, <1>3, <1>4, <1>5 DEF RetryInv

LEMMA RetryStep == RetryInv /\ [RetryNext]_retryVars => RetryInv'
<1> SUFFICES ASSUME RetryInv, [RetryNext]_retryVars PROVE RetryInv'
  OBVIOUS
<1>1. PICK o, phase, attempt, lastError, waits :
        retry = [plan |-> o, phase |-> phase, attempt |-> attempt,
                 lastError |-> lastError, waits |-> waits]
  BY DEF RetryInv
<1>2. /\ waits \in Seq(WaitSet) /\ phase \in {"idle", "calling", "sleeping", "returned", "thrown"}
      /\ phase = "idle" => waits = << >> /\ o = MergeOptions(<< >>)
      /\ phase # "idle" => o \in PlanSet
      /\ phase = "calling" => attempt \in 1..o.maxAttempts /\ Len(waits) = attempt - 1
      /\ phase = "sleeping" => attempt \in 1..o.maxAttempts - 1 /\ Len(waits) = attempt
      /\ Len(waits) < o.maxAttempts
      /\ \A i \in DOMAIN waits : Contained(waits[i], o) /\ BackedOff(waits[i], i, o)
  BY <1>1 DEF RetryInv
<1>3. Len(waits) \in Nat /\ DOMAIN waits = 1..Len(waits) /\ o.maxAttempts \in Nat \ {0}
  BY <1>2, LenProperties, PlanFacts
<1>4. ASSUME NEW options \in Plans, Intercept(options) PROVE RetryInv'
  <2>1. PICK p \in PlanSet : p = MergeOptions(options)
    BY DEF PlanSet
  <2>2. phase = "idle" /\ retry' = [plan |-> p, phase |-> "calling", attempt |-> 1,
                                    lastError |-> lastError, waits |-> waits]
    BY <1>1, <1>4, <2>1 DEF Intercept
  <2>3. p.maxAttempts \in Nat \ {0}
    BY PlanFacts
  <2>4. waits = << >> /\ Len(waits) = 0 /\ DOMAIN waits = {}
    BY <1>2, <2>2, EmptySeq
  <2>5. 1 \in 1..p.maxAttempts /\ Len(waits) = 1 - 1 /\ Len(waits) < p.maxAttempts
    BY <2>3, <2>4
  <2> QED BY <1>2, <2>1, <2>2, <2>4, <2>5 DEF RetryInv
<1>5. CASE AttemptSucceeds
  <2>1. phase = "calling" /\ retry' = [plan |-> o, phase |-> "returned", attempt |-> attempt,
                                       lastError |-> lastError, waits |-> waits]
    BY <1>1, <1>5 DEF AttemptSucceeds
  <2> QED BY <1>2, <2>1 DEF RetryInv
<1>6. ASSUME NEW error \in RetryErrors, AttemptRetried(error) PROVE RetryInv'
  <2>1. phase = "calling" /\ ShouldRetry(error, attempt, o)
    BY <1>1, <1>6 DEF AttemptRetried
  <2>2. PICK delay \in Delays(attempt, o) :
          retry' = [retry EXCEPT !.phase = "sleeping", !.lastError = error,
                                 !.waits = Append(@, delay)]
    BY <1>1, <1>6 DEF AttemptRetried
  <2>3. PICK w : w = Append(waits, delay)
    OBVIOUS
  <2>4. retry' = [plan |-> o, phase |-> "sleeping", attempt |-> attempt,
                  lastError |-> error, waits |-> w]
    BY <1>1, <2>2, <2>3
  <2>5. o \in PlanSet /\ attempt \in 1..o.maxAttempts /\ Len(waits) = attempt - 1
    BY <1>2, <2>1
  <2>6. attempt < o.maxAttempts
    BY <2>1 DEF ShouldRetry
  <2>7. delay \in WaitSet /\ Contained(delay, o) /\ BackedOff(delay, attempt, o)
    BY <2>2, <2>5, DelayFacts
  <2>8. /\ w \in Seq(WaitSet) /\ Len(w) = Len(waits) + 1 /\ w[Len(waits) + 1] = delay
        /\ \A i \in 1..Len(waits) : w[i] = waits[i]
    BY <1>2, <2>3, <2>7, AppendProperties
  <2>9. DOMAIN w = 1..Len(waits) + 1
    BY <2>8, LenProperties
  <2>10. \A i \in DOMAIN w : Contained(w[i], o) /\ BackedOff(w[i], i, o)
    <3>1. \A i \in DOMAIN w : i \in DOMAIN waits \/ i = Len(waits) + 1
      BY <1>3, <2>9
    <3>2. Len(waits) + 1 = attempt
      BY <1>3, <2>5
    <3> QED BY <1>2, <1>3, <2>7, <2>8, <3>1, <3>2
  <2>11. attempt \in 1..o.maxAttempts - 1 /\ Len(w) = attempt /\ Len(w) < o.maxAttempts
    BY <1>3, <2>5, <2>6, <2>8
  <2>12. Resendable(error, o)
    BY <2>1, ClientRefused
  <2> QED BY <2>4, <2>5, <2>8, <2>10, <2>11, <2>12 DEF RetryInv
<1>7. ASSUME NEW error \in RetryErrors, AttemptIsLast(error) PROVE RetryInv'
  <2>1. phase = "calling" /\ retry' = [plan |-> o, phase |-> "thrown", attempt |-> attempt,
                                       lastError |-> error, waits |-> waits]
    BY <1>1, <1>7 DEF AttemptIsLast
  <2> QED BY <1>2, <2>1 DEF RetryInv
<1>8. CASE Wake
  <2>1. phase = "sleeping" /\ retry' = [plan |-> o, phase |-> "calling", attempt |-> attempt + 1,
                                        lastError |-> lastError, waits |-> waits]
    BY <1>1, <1>8 DEF Wake
  <2>2. attempt + 1 \in 1..o.maxAttempts /\ Len(waits) = attempt + 1 - 1
    BY <1>2, <1>3, <2>1
  <2> QED BY <1>2, <2>1, <2>2 DEF RetryInv
<1>9. CASE UNCHANGED retryVars
  BY <1>9 DEF RetryInv, retryVars
<1> QED BY <1>4, <1>5, <1>6, <1>7, <1>8, <1>9 DEF RetryNext

\* For any errors and plans whose delays are numbers: an error that tells the client's
\* fault is sent again only if the plan lists it, and the waits number fewer than the
\* attempts allowed, each within the plan's cap and jitter and, without a calculator,
\* no shorter than its backoff (shouldRetry, calculateDelay).
THEOREM RetryIsKept == RetrySpec => []RetryIsContained
<1>1. RetryInv => ClientErrorResentOnlyIfListed
  BY DEF RetryInv, ClientErrorResentOnlyIfListed, Resendable
<1>2. RetryInv => WaitsBounded
  BY DEF RetryInv, WaitsBounded, Contained
<1>3. RetryInv => WaitsBackOff
  BY DEF RetryInv, WaitsBackOff, BackedOff
<1> QED BY <1>1, <1>2, <1>3, RetryInit_Inv, RetryStep, PTL DEF RetrySpec, RetryIsContained
==============================================================================
