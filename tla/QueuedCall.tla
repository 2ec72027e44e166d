----------------------------- MODULE QueuedCall -----------------------------
(***************************************************************************)
(* What PortRegistry.execute promises its callers, whatever the port's     *)
(* queuePolicy (src/libs/shared/port/port-registry.service.ts,             *)
(* executeWithQueue and executeReplay): a call is answered once, and one   *)
(* that was answered "queued" (HTTP 202) is settled exactly once           *)
(* afterwards: it reached the downstream, or it was given up and kept as a *)
(* dead letter.  It is never forgotten.                                    *)
(***************************************************************************)
CONSTANT Requests

VARIABLE status

Answers == {"data", "degraded", "error", "queued"}
Settled == {"applied", "dead"}

Init == status = [q \in Requests |-> "none"]

Answer(q) ==
  /\ status[q] = "none"
  /\ \E a \in Answers : status' = [status EXCEPT ![q] = a]

Settle(q) ==
  /\ status[q] = "queued"
  /\ \E s \in Settled : status' = [status EXCEPT ![q] = s]

\* A process that dies may leave several callers without an answer.
Abort ==
  \E Q \in SUBSET {q \in Requests : status[q] = "none"} :
    status' = [q \in Requests |-> IF q \in Q THEN "error" ELSE status[q]]

Next == Abort \/ \E q \in Requests : Answer(q) \/ Settle(q)

Safety == Init /\ [][Next]_status

Spec ==
  /\ Safety
  /\ \A q \in Requests : WF_status(Settle(q))
=============================================================================
