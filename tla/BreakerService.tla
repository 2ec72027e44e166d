--------------------------- MODULE BreakerService ---------------------------
(***************************************************************************)
(* CircuitBreakerService and the interceptor in front of it                *)
(* (src/libs/shared/resilience/circuit-breaker.decorator.ts): a Map from   *)
(* key to CircuitBreakerState, filled on the first call of a key, shared   *)
(* by concurrent calls, and cleared by resetAll() while calls hold on to   *)
(* the object they started with.  The object itself is module              *)
(* CircuitBreakerState.                                                    *)
(*                                                                         *)
(* execute() takes its own rejection of an OPEN circuit for a failure of   *)
(* the method: the throw is inside the try, so the catch block records it. *)
(***************************************************************************)
EXTENDS CircuitBreakerState, Sequences, FiniteSets

CONSTANTS BreakerKeys,      \* options.name, or Class.method
          ServiceCallers,   \* concurrent decorated calls
          MaxServiceCalls,  \* bound: calls begun on one object
          MaxObjects        \* bound: objects ever created

VARIABLES circuitBreakers,  \* the Map: key -> index into objects, 0 when absent
          objects,          \* every CircuitBreakerState created so far
          inFlight,         \* caller -> the object its call runs under, 0 when idle
          begun             \* history: calls begun on an object, rejected ones included

serviceVars == <<circuitBreakers, objects, inFlight, begun>>

ServiceInit ==
  /\ circuitBreakers = [k \in BreakerKeys |-> 0]
  /\ objects = <<>>
  /\ inFlight = [c \in ServiceCallers |-> 0]
  /\ begun = <<>>

Known(k) == circuitBreakers[k] # 0

\* getCircuitBreaker for a key that is not in the Map, and the call's start:
\* a new object is CLOSED, so the method runs.
ExecuteFirst(c, k) ==
  /\ inFlight[c] = 0 /\ ~Known(k) /\ Len(objects) < MaxObjects
  /\ objects' = Append(objects, Fresh)
  /\ begun' = Append(begun, 1)
  /\ circuitBreakers' = [circuitBreakers EXCEPT ![k] = Len(objects) + 1]
  /\ inFlight' = [inFlight EXCEPT ![c] = Len(objects) + 1]

Begin(o) ==
  /\ begun[o] < MaxServiceCalls
  /\ begun' = [begun EXCEPT ![o] = @ + 1]

\* HALF_OPEN would pass too; nothing in the service enters it.
Execute(c, k) ==
  LET o == circuitBreakers[k] IN
  /\ inFlight[c] = 0 /\ Known(k)
  /\ objects[o].state # "OPEN"
  /\ Begin(o)
  /\ inFlight' = [inFlight EXCEPT ![c] = o]
  /\ UNCHANGED <<circuitBreakers, objects>>

\* The circuit is OPEN: the error thrown is caught below and recorded; the
\* fallback, or the error, is the answer.
ExecuteRejected(k) ==
  LET o == circuitBreakers[k] IN
  /\ Known(k) /\ objects[o].state = "OPEN"
  /\ Begin(o)
  /\ \E counts \in BOOLEAN :
       objects' = [objects EXCEPT ![o] = AfterFailure(@, counts)]
  /\ UNCHANGED <<circuitBreakers, inFlight>>

\* Mutant: the breaker is looked up again when the method has settled.
SettlesOnNewest(c, breaker) ==
  /\ objects' = [objects EXCEPT ![Len(objects)] = breaker]
  /\ inFlight' = [inFlight EXCEPT ![c] = 0]
  /\ UNCHANGED <<circuitBreakers, begun>>

\* The method returns or throws; the object is the one execute() looked up
\* when it began, in the Map or not.
Settles(c, breaker) ==
  /\ objects' = [objects EXCEPT ![inFlight[c]] = breaker]
  /\ inFlight' = [inFlight EXCEPT ![c] = 0]
  /\ UNCHANGED <<circuitBreakers, begun>>

MethodReturns(c) ==
  inFlight[c] # 0 /\ Settles(c, RecordSuccess(objects[inFlight[c]]))

MethodThrows(c) ==
  /\ inFlight[c] # 0
  /\ \E counts \in BOOLEAN : Settles(c, AfterFailure(objects[inFlight[c]], counts))

\* reset(key): the object goes back to CLOSED in place.
Reset(k) ==
  /\ Known(k)
  /\ objects' = [objects EXCEPT ![circuitBreakers[k]] = Close(@)]
  /\ UNCHANGED <<circuitBreakers, inFlight, begun>>

\* resetAll(): the Map is cleared; calls in flight keep their objects.
ResetAll ==
  /\ \E k \in BreakerKeys : Known(k)
  /\ circuitBreakers' = [k \in BreakerKeys |-> 0]
  /\ UNCHANGED <<objects, inFlight, begun>>

ServiceTick ==
  /\ objects' = [o \in DOMAIN objects |-> [objects[o] EXCEPT !.elapsed = Age(@)]]
  /\ UNCHANGED <<circuitBreakers, inFlight, begun>>

ServiceNext ==
  \/ \E c \in ServiceCallers, k \in BreakerKeys : ExecuteFirst(c, k)
  \/ \E c \in ServiceCallers, k \in BreakerKeys : Execute(c, k)
  \/ \E k \in BreakerKeys : ExecuteRejected(k)
  \/ \E c \in ServiceCallers : MethodReturns(c)
  \/ \E c \in ServiceCallers : MethodThrows(c)
  \/ \E k \in BreakerKeys : Reset(k)
  \/ ResetAll
  \/ ServiceTick

ServiceSpec == ServiceInit /\ [][ServiceNext]_serviceVars

-----------------------------------------------------------------------------
\* An object judges only calls that began on it: after resetAll() the failures
\* of calls still in flight go to the object they started with and can never
\* trip the one the next caller creates (getCircuitBreaker, the reference
\* execute() holds across its await).
JudgesOwnCalls ==
  \A o \in DOMAIN objects :
    objects[o].successCount + objects[o].failureCount
      + Cardinality({c \in ServiceCallers : inFlight[c] = o}) <= begun[o]

\* Two keys never share an object, so one method's failures cannot trip the
\* breaker of another, through any order of first calls and resets.
KeysApart ==
  \A j, k \in BreakerKeys :
    Known(j) /\ circuitBreakers[j] = circuitBreakers[k] => j = k

\* A breaker of the service is tripped by its own key's and its own life's calls
\* only.
BreakersApart == JudgesOwnCalls /\ KeysApart
=============================================================================
