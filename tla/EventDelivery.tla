--------------------------- MODULE EventDelivery ---------------------------
(***************************************************************************)
(* The read side's end of an event: EventBus.publish                       *)
(* (src/libs/shared/cqrs/events/event-bus.ts), which runs the subscribed   *)
(* handlers side by side and swallows their errors, and                    *)
(* BaseProjection.safeHandle (src/libs/core/application/projections/) as   *)
(* such a handler: check, handle, mark, each an await.  The outbox         *)
(* publishes at least once, so one event may be published again, also      *)
(* while the first publish is still running.                               *)
(***************************************************************************)
EXTENDS Integers, FiniteSets

CONSTANTS Publishes,     \* calls of publish(), all of the same event
          Projections,   \* the projections of the event's type
          Tracking       \* those that override isEventProcessed / markEventProcessed

ASSUME DeliveryAssumption == Tracking \subseteq Projections

VARIABLES subscribed,    \* customHandlers.get(eventType)
          publishing,    \* publish call -> its progress
          handlers,      \* publish call -> the handlers it found
          projecting,    \* <<publish call, projection>> -> progress of safeHandle
          processed,     \* projections that marked the event
          applied,       \* history: times handle() ran to its end
          overlapped         \* history: two publishes overlapped, or a mark failed

deliveryVars == <<subscribed, publishing, handlers, projecting, processed, applied, overlapped>>

DeliveryInit ==
  /\ subscribed = {}
  /\ publishing = [d \in Publishes |-> "new"]
  /\ handlers = [d \in Publishes |-> {}]
  /\ projecting = [x \in Publishes \X Projections |-> "none"]
  /\ processed = {}
  /\ applied = [p \in Projections |-> 0]
  /\ overlapped = FALSE

Subscribe(p) ==
  /\ p \notin subscribed
  /\ subscribed' = subscribed \cup {p}
  /\ UNCHANGED <<publishing, handlers, projecting, processed, applied, overlapped>>

\* publish(): every handler known now is started.
Publish(d) ==
  /\ publishing[d] = "new"
  /\ publishing' = [publishing EXCEPT ![d] = "running"]
  /\ handlers' = [handlers EXCEPT ![d] = subscribed]
  /\ projecting' = [x \in DOMAIN projecting |->
       IF x[1] = d /\ x[2] \in subscribed THEN "checking" ELSE projecting[x]]
  /\ overlapped' = (overlapped \/ \E e \in Publishes : publishing[e] = "running")
  /\ UNCHANGED <<subscribed, processed, applied>>

StepsFrom(d, p, from, to) ==
  /\ projecting[<<d, p>>] = from
  /\ projecting' = [projecting EXCEPT ![<<d, p>>] = to]
  /\ UNCHANGED <<subscribed, publishing, handlers>>

\* isEventProcessed: always false unless overridden.
CheckProcessed(d, p) ==
  /\ StepsFrom(d, p, "checking", IF p \in Tracking /\ p \in processed THEN "done" ELSE "handling")
  /\ UNCHANGED <<processed, applied, overlapped>>

\* Mutant: the event is marked before it is handled.
HandleMarksFirst(d, p) ==
  /\ StepsFrom(d, p, "handling", "failed")
  /\ processed' = processed \cup {p}
  /\ UNCHANGED <<applied, overlapped>>

Handle(d, p) ==
  /\ StepsFrom(d, p, "handling", "marking")
  /\ applied' = [applied EXCEPT ![p] = @ + 1]
  /\ UNCHANGED <<processed, overlapped>>

\* markEventProcessed: a no-op unless overridden.
Mark(d, p) ==
  /\ StepsFrom(d, p, "marking", "done")
  /\ processed' = IF p \in Tracking THEN processed \cup {p} ELSE processed
  /\ UNCHANGED <<applied, overlapped>>

\* An await of safeHandle rejects: logged, rethrown, and swallowed by the bus.
ProjectionFails(d, p) ==
  \E at \in {"checking", "handling", "marking"} :
    /\ StepsFrom(d, p, at, "failed")
    /\ overlapped' = (overlapped \/ at = "marking")
    /\ UNCHANGED <<processed, applied>>

\* Promise.all: every handler has settled; publish() never rejects for one.
Resolves(d) ==
  /\ publishing[d] = "running"
  /\ \A p \in handlers[d] : projecting[<<d, p>>] \in {"done", "failed"}
  /\ publishing' = [publishing EXCEPT ![d] = "resolved"]
  /\ UNCHANGED <<subscribed, handlers, projecting, processed, applied, overlapped>>

DeliveryNext ==
  \/ \E p \in Projections : Subscribe(p)
  \/ \E d \in Publishes : Publish(d)
  \/ \E d \in Publishes, p \in Projections : CheckProcessed(d, p)
  \/ \E d \in Publishes, p \in Projections : Handle(d, p)
  \/ \E d \in Publishes, p \in Projections : Mark(d, p)
  \/ \E d \in Publishes, p \in Projections : ProjectionFails(d, p)
  \/ \E d \in Publishes : Resolves(d)

DeliverySpec == DeliveryInit /\ [][DeliveryNext]_deliveryVars

-----------------------------------------------------------------------------
\* A projection that failed holds nobody else up: when publish() resolves, every
\* handler it found has run safeHandle to its end, whatever the others did.
OthersStillHandle ==
  \A d \in Publishes : publishing[d] = "resolved" =>
    \A p \in handlers[d] : projecting[<<d, p>>] \in {"done", "failed"}

\* An event is marked only after it was applied: a failure between the two can
\* repeat an event but never lose one (the order of handle and mark).
MarkedWasApplied == \A p \in processed : applied[p] >= 1

\* A projection that tracks its events applies a repeated event once, unless two
\* publishes overlapped (both check before either marks) or a mark failed.
AppliedOnce == \A p \in Tracking : applied[p] > 1 => overlapped

\* Every projection gets each event, none through another's failure fewer times than
\* once, and a tracking one not twice but for an overlap.
EachProjectionOnce == OthersStillHandle /\ MarkedWasApplied /\ AppliedOnce
=============================================================================
