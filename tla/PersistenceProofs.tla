---------------------------- MODULE PersistenceProofs --------------------------
(***************************************************************************)
(* Proofs about what the gateway persists and delivers, for every number   *)
(* of events, processors, commands, projections, deliveries, crashes and   *)
(* failed statements:                                                      *)
(*   Outbox         an entry has one owner, what is marked processed was   *)
(*                  published, a poison event is given up after MaxRetries;*)
(*   EventDelivery  a projection that tracks events applies each one once; *)
(*   WriteSide      the caller's answer tells what was committed, and a    *)
(*                  command with one event overwrites no version it did    *)
(*                  not see;                                               *)
(*   Deduplication  a key is worked on once unless its claim was lost.     *)
(***************************************************************************)
EXTENDS Outbox, WriteSide, EventDelivery, Deduplication, FiniteSetTheorems, TLAPS

\* processEntry has an entry in hand from its claim to its mark.
HandInUse ==
  \A i \in Instances :
    proc[i].hand # NoEvent <=> proc[i].pc \in {"publish", "mark", "fail"}

\* Only addMany brings a row into the table.
AbsentUntilSaved ==
  \A e \in Events : saver[e] # "saved" <=> table[e].status = "ABSENT"

\* The attempts on e are the ones counted in its row, and while the row is
\* PROCESSING at most one more; a row that may be claimed has one left.
AttemptsCounted(e) ==
  LET r == table[e] IN
  /\ r.status = "ABSENT" => published[e] = 0
  /\ r.status = "PENDING" => published[e] <= r.retryCount /\ r.retryCount < MaxRetries
  /\ r.status = "PROCESSING" =>
       published[e] <= r.retryCount + 1 /\ r.retryCount < MaxRetries
  /\ r.status = "FAILED" => published[e] <= r.retryCount /\ r.retryCount <= MaxRetries
  /\ r.status \in {"PROCESSED", "DELETED"} => 0 < published[e] /\ published[e] <= MaxRetries

\* The instance that has an entry in hand has not published it yet in this
\* attempt, or has and may mark it.
AttemptUnderWay ==
  \A i \in Instances :
    /\ proc[i].pc = "publish" =>
         published[proc[i].hand] <= table[proc[i].hand].retryCount
    /\ proc[i].pc = "mark" => published[proc[i].hand] > 0

OutboxInv ==
  /\ TypeOK
  /\ HandInUse
  /\ AbsentUntilSaved
  /\ ExclusiveClaim
  /\ \A e \in Events : AttemptsCounted(e)
  /\ AttemptUnderWay

\* What the steps write to a processor leaves it one.
LEMMA ProcessorUpdates ==
  ASSUME NEW x \in Processor
  PROVE  /\ \A b \in SUBSET Events : [x EXCEPT !.pc = "next", !.batch = b] \in Processor
         /\ \A r \in BOOLEAN : [x EXCEPT !.running = r] \in Processor
         /\ [x EXCEPT !.pc = "idle", !.batch = {}, !.hand = NoEvent] \in Processor
<1>1. \A b \in SUBSET Events : [x EXCEPT !.pc = "next", !.batch = b] \in Processor
  BY DEF Processor
<1>2. \A r \in BOOLEAN : [x EXCEPT !.running = r] \in Processor
  BY DEF Processor
<1>3. [x EXCEPT !.pc = "idle", !.batch = {}, !.hand = NoEvent] \in Processor
  BY DEF Processor
<1> QED BY <1>1, <1>2, <1>3

\* Polling, stopping and starting leave a processor a processor.
LEMMA ProcessorsTyped ==
  ASSUME TypeOK, NEW i \in Instances, Poll(i) \/ BatchFails(i) \/ Stop(i) \/ Start(i)
  PROVE  proc' \in [Instances -> Processor]
<1>1. proc \in [Instances -> Processor]
  BY DEF TypeOK
<1>2. \E y \in Processor : proc' = [proc EXCEPT ![i] = y]
  <2>1. CASE Poll(i)
    <3>1. PICK b \in SUBSET Events : proc' = [proc EXCEPT ![i].pc = "next", ![i].batch = b]
      BY <2>1 DEF Poll
    <3>2. [proc[i] EXCEPT !.pc = "next", !.batch = b] \in Processor
      BY <1>1, ProcessorUpdates
    <3> QED BY <3>1, <3>2
  <2>2. CASE BatchFails(i)
    <3>1. [proc[i] EXCEPT !.pc = "idle", !.batch = {}, !.hand = NoEvent] \in Processor
      BY <1>1, ProcessorUpdates
    <3> QED BY <2>2, <3>1 DEF BatchFails, Abandon
  <2>3. CASE Stop(i)
    <3>1. [proc[i] EXCEPT !.running = FALSE] \in Processor
      BY <1>1, ProcessorUpdates
    <3> QED BY <2>3, <3>1 DEF Stop
  <2>4. CASE Start(i)
    <3>1. [proc[i] EXCEPT !.running = TRUE] \in Processor
      BY <1>1, ProcessorUpdates
    <3> QED BY <2>4, <3>1 DEF Start
  <2> QED BY <2>1, <2>2, <2>3, <2>4
<1> QED BY <1>1, <1>2

\* The invariant is the guarantee, strengthened.
LEMMA OutboxInvImpliesSafe == OutboxInv => OutboxSafe
  BY OutboxAssumption DEF OutboxInv, OutboxSafe, OutboxAssumption, TypeOK, Row, Status,
     AttemptsCounted, ProcessedIsPublished, AttemptsBounded, Rows

\* No event is saved and no processor has an entry in hand at the start.
LEMMA OutboxInvInit == Init => OutboxInv
  BY OutboxAssumption DEF Init, OutboxInv, OutboxAssumption, TypeOK, Row, Status, Processor,
     Resting, HandInUse, AbsentUntilSaved, ExclusiveClaim, Holders, AttemptsCounted,
     AttemptUnderWay

\* Every statement of the processor and the repository, every crash and every
\* failed statement keeps the invariant.
LEMMA OutboxInvStep == OutboxInv /\ [Next]_vars => OutboxInv'
<1> SUFFICES ASSUME OutboxInv, [Next]_vars PROVE OutboxInv'
  OBVIOUS
<1> USE OutboxAssumption DEF OutboxInv, OutboxAssumption, TypeOK, Row, Status, Processor,
     Resting, HandInUse, AbsentUntilSaved, ExclusiveClaim, Holders, AttemptsCounted,
     AttemptUnderWay, SetStatus, Fault, Advance, Abandon, Rows
<1>1. ASSUME NEW e \in Events, Persist(e) PROVE OutboxInv'
  BY <1>1 DEF Persist
<1>2. ASSUME NEW e \in Events, AddMany(e) PROVE OutboxInv'
  BY <1>2 DEF AddMany
<1>3. ASSUME NEW e \in Events, AddManyFails(e) PROVE OutboxInv'
  BY <1>3 DEF AddManyFails
<1>4. ASSUME NEW i \in Instances, Poll(i) PROVE OutboxInv'
  <2>1. PICK b \in SUBSET Events : proc' = [proc EXCEPT ![i].pc = "next", ![i].batch = b]
    BY <1>4 DEF Poll
  <2>2. proc' \in [Instances -> Processor]
    BY <1>4, ProcessorsTyped
  <2>3. \A j \in Instances :
          /\ proc'[j].hand = proc[j].hand
          /\ j # i => proc'[j].pc = proc[j].pc
    BY <2>1
  <2>4. proc[i].pc = "idle" /\ proc'[i].pc = "next"
    BY <1>4, <2>1 DEF Poll
  <2> QED BY <1>4, <2>2, <2>3, <2>4 DEF Poll
<1>5. ASSUME NEW i \in Instances, Claim(i) PROVE OutboxInv'
  BY <1>5 DEF Claim, Oldest
<1>6. ASSUME NEW i \in Instances, Skip(i) PROVE OutboxInv'
  BY <1>6 DEF Skip
<1>7. ASSUME NEW i \in Instances, PublishOk(i) PROVE OutboxInv'
  BY SMTT(20), <1>7 DEF PublishOk
<1>8. ASSUME NEW i \in Instances, PublishFails(i) PROVE OutboxInv'
  BY <1>8 DEF PublishFails
<1>9. ASSUME NEW i \in Instances, MarkAsProcessed(i) PROVE OutboxInv'
  BY <1>9 DEF MarkAsProcessed
<1>10. ASSUME NEW i \in Instances, MarkAsProcessedFails(i) PROVE OutboxInv'
  BY SMTT(20), <1>10 DEF MarkAsProcessedFails
<1>11. ASSUME NEW i \in Instances, MarkAsFailed(i) PROVE OutboxInv'
  <2>1. PICK h \in Events : h = proc[i].hand
    BY <1>11 DEF MarkAsFailed
  <2>2. PICK n \in Nat : n = table[h].retryCount
    OBVIOUS
  <2>3. /\ table' \in [Events -> Row]
        /\ table'[h].status = "FAILED" /\ table'[h].retryCount = n + 1
        /\ \A e \in Events : e # h => table'[e] = table[e]
    BY <1>11, <2>1, <2>2 DEF MarkAsFailed
  <2>4. table[h].status = "PROCESSING" /\ \A j \in Instances : j # i => proc[j].hand # h
    BY <1>11, <2>1 DEF MarkAsFailed
  <2>5. /\ proc' \in [Instances -> Processor] /\ proc'[i].pc = "next" /\ proc'[i].hand = NoEvent
        /\ \A j \in Instances : j # i => proc'[j] = proc[j]
    BY <1>11 DEF MarkAsFailed
  <2>6. saver' = saver /\ published' = published
    BY <1>11 DEF MarkAsFailed
  <2>7. AttemptsCounted(h)'
    BY <2>2, <2>3, <2>4, <2>6
  <2>8. \A e \in Events : AttemptsCounted(e)'
    BY <2>3, <2>6, <2>7
  <2>9. AbsentUntilSaved'
    BY <2>3, <2>4, <2>6
  <2>10. ASSUME NEW j \in Instances
         PROVE  /\ proc'[j].hand # NoEvent <=> proc'[j].pc \in {"publish", "mark", "fail"}
                /\ proc'[j].pc = "publish" => published'[proc'[j].hand] <= table'[proc'[j].hand].retryCount
                /\ proc'[j].pc = "mark" => published'[proc'[j].hand] > 0
    <3>1. CASE j = i
      BY <2>5, <3>1
    <3>2. CASE j # i
      <4>1. proc'[j] = proc[j] /\ proc[j].hand # h /\ proc[j].hand \in Events \cup {NoEvent}
        BY <2>4, <2>5, <3>2
      <4>2. proc[j].hand # NoEvent => table'[proc[j].hand] = table[proc[j].hand]
        BY <2>3, <4>1
      <4> QED BY <2>6, <4>1, <4>2
    <3> QED BY <3>1, <3>2
  <2>11. \A e \in Events : Holders(e)' = IF e = h THEN {} ELSE Holders(e)
    <3> SUFFICES ASSUME NEW e \in Events PROVE Holders(e)' = IF e = h THEN {} ELSE Holders(e)
      OBVIOUS
    <3>1. e # NoEvent /\ h # NoEvent
      OBVIOUS
    <3>2. \A j \in Instances : proc'[j].hand = e <=> e # h /\ proc[j].hand = e
      BY <2>1, <2>4, <2>5, <3>1
    <3> QED BY <3>2
  <2>12. ExclusiveClaim'
    BY <2>3, <2>11 DEF ExclusiveClaim
  <2> QED BY <1>11, <2>3, <2>5, <2>8, <2>9, <2>10, <2>12 DEF MarkAsFailed
<1>12. ASSUME NEW i \in Instances, BatchDone(i) PROVE OutboxInv'
  BY <1>12 DEF BatchDone
<1>13. ASSUME NEW i \in Instances, ResetForRetry(i) PROVE OutboxInv'
  <2>1. proc' \in [Instances -> Processor]
    BY <1>13 DEF ResetForRetry
  <2>2. /\ proc[i].pc = "reset" /\ proc'[i].pc = "idle"
        /\ \A j \in Instances : proc'[j].hand = proc[j].hand /\ (j # i => proc'[j].pc = proc[j].pc)
    BY <1>13 DEF ResetForRetry
  <2>3. table' \in [Events -> Row]
    BY <1>13 DEF ResetForRetry
  <2>4. \A e \in Events :
          /\ table'[e].retryCount = table[e].retryCount
          /\ \/ table'[e].status = table[e].status
             \/ /\ table[e].status = "FAILED" /\ table'[e].status = "PENDING"
                /\ table[e].retryCount < MaxRetries
    BY <1>13 DEF ResetForRetry
  <2> QED BY <1>13, <2>1, <2>2, <2>3, <2>4 DEF ResetForRetry
<1>14. ASSUME NEW i \in Instances, BatchFails(i) PROVE OutboxInv'
  <2>1. proc' \in [Instances -> Processor]
    BY <1>14, ProcessorsTyped
  <2>2. /\ proc'[i].pc = "idle" /\ proc'[i].hand = NoEvent
        /\ \A j \in Instances : j # i => proc'[j] = proc[j]
    BY <1>14 DEF BatchFails
  <2> QED BY <1>14, <2>1, <2>2 DEF BatchFails
<1>15. ASSUME NEW i \in Instances, Crash(i) PROVE OutboxInv'
  BY <1>15 DEF Crash
<1>16. ASSUME NEW i \in Instances, Stop(i) PROVE OutboxInv'
  <2>1. proc' \in [Instances -> Processor]
    BY <1>16, ProcessorsTyped
  <2>2. \A j \in Instances : proc'[j].hand = proc[j].hand /\ proc'[j].pc = proc[j].pc
    BY <1>16 DEF Stop
  <2> QED BY <1>16, <2>1, <2>2 DEF Stop
<1>17. ASSUME NEW i \in Instances, Start(i) PROVE OutboxInv'
  <2>1. proc' \in [Instances -> Processor]
    BY <1>17, ProcessorsTyped
  <2>2. \A j \in Instances : proc'[j].hand = proc[j].hand /\ proc'[j].pc = proc[j].pc
    BY <1>17 DEF Start
  <2> QED BY <1>17, <2>1, <2>2 DEF Start
<1>18. ASSUME NEW old \in SUBSET Events, DeleteProcessed(old) PROVE OutboxInv'
  BY <1>18 DEF DeleteProcessed
<1>19. CASE UNCHANGED vars
  BY <1>19 DEF vars
<1> QED BY <1>1, <1>2, <1>3, <1>4, <1>5, <1>6, <1>7, <1>8, <1>9, <1>10, <1>11, <1>12, <1>13, <1>14, <1>15, <1>16, <1>17, <1>18, <1>19 DEF Next

\* However many processors poll the table, crash and retry: an entry is in one
\* processor's hand at a time, what is PROCESSED was published, and no event is
\* published more than maxRetries times (processEntry, markAsFailed, resetForRetry).
THEOREM OutboxIsSafe == Spec => []OutboxSafe
<1>1. Init => OutboxInv
  BY OutboxInvInit
<1>2. OutboxInv /\ [Next]_vars => OutboxInv'
  BY OutboxInvStep
<1> QED BY <1>1, <1>2, OutboxInvImpliesSafe, PTL DEF Spec
-----------------------------------------------------------------------------
(* Events and projections (EventDelivery) *)

Handling == {"checking", "handling", "marking"}

DeliveryTypeOK ==
  /\ subscribed \subseteq Projections
  /\ publishing \in [Publishes -> {"new", "running", "resolved"}]
  /\ handlers \in [Publishes -> SUBSET Projections]
  /\ projecting \in [Publishes \X Projections -> {"none", "done", "failed"} \cup Handling]
  /\ processed \subseteq Projections
  /\ applied \in [Projections -> Nat]
  /\ overlapped \in BOOLEAN

\* safeHandle runs for the handlers that a publish still running has found.
HandledWhileRunning ==
  \A d \in Publishes, p \in Projections :
    projecting[<<d, p>>] \in Handling => publishing[d] = "running" /\ p \in handlers[d]

\* publish() that has resolved left no handler it found in the middle.
ResolvedIsSettled ==
  \A d \in Publishes, p \in Projections :
    /\ publishing[d] = "running" /\ p \in handlers[d] => projecting[<<d, p>>] # "none"
    /\ publishing[d] = "resolved" /\ p \in handlers[d] => projecting[<<d, p>>] \in {"done", "failed"}

\* A projection at its mark has applied the event.
MarkingWasApplied ==
  \A d \in Publishes, p \in Projections :
    projecting[<<d, p>>] = "marking" => applied[p] >= 1

\* Without overlap one publish runs at a time, and a projection that tracks its
\* events and has applied this one has marked it or is about to.
TrackedOnce ==
  ~overlapped =>
    /\ \A d, e \in Publishes : publishing[d] = "running" /\ publishing[e] = "running" => d = e
    /\ \A p \in Tracking :
         /\ applied[p] <= 1
         /\ applied[p] = 1 =>
              p \in processed \/ \E d \in Publishes : projecting[<<d, p>>] = "marking"
         /\ \A d \in Publishes : projecting[<<d, p>>] = "handling" => applied[p] = 0

DeliveryInv ==
  /\ DeliveryTypeOK
  /\ HandledWhileRunning
  /\ ResolvedIsSettled
  /\ MarkedWasApplied
  /\ MarkingWasApplied
  /\ TrackedOnce

\* The bus starts with nobody subscribed and nothing published.
LEMMA DeliveryInvInit == DeliveryInit => DeliveryInv
<1> SUFFICES ASSUME DeliveryInit PROVE DeliveryInv
  OBVIOUS
<1>1. DeliveryTypeOK
  BY DEF DeliveryInit, DeliveryTypeOK
<1>2. \A d \in Publishes, p \in Projections : projecting[<<d, p>>] = "none" /\ applied[p] = 0
  BY DEF DeliveryInit
<1>3. TrackedOnce
  BY <1>2, DeliveryAssumption DEF DeliveryAssumption, DeliveryInit, TrackedOnce
<1>4. HandledWhileRunning /\ ResolvedIsSettled /\ MarkedWasApplied /\ MarkingWasApplied
  BY <1>2 DEF DeliveryInit, HandledWhileRunning, ResolvedIsSettled, MarkedWasApplied,
     MarkingWasApplied, Handling
<1> QED BY <1>1, <1>3, <1>4 DEF DeliveryInv

\* publish() starts the handlers it finds and no others, and notices a publish that
\* still runs (EventBus.publish).
LEMMA PublishKeepsInv ==
  ASSUME DeliveryInv, NEW d \in Publishes, Publish(d)
  PROVE  DeliveryInv'
<1> USE DEF Handling
<1>1. /\ publishing[d] = "new" /\ publishing' = [publishing EXCEPT ![d] = "running"]
      /\ handlers' = [handlers EXCEPT ![d] = subscribed]
      /\ UNCHANGED <<subscribed, processed, applied>>
  BY DEF Publish
<1>2. \A e \in Publishes, p \in Projections :
        projecting'[<<e, p>>] = IF e = d /\ p \in subscribed THEN "checking" ELSE projecting[<<e, p>>]
  BY DEF Publish, DeliveryInv, DeliveryTypeOK
<1>3. projecting' \in [Publishes \X Projections -> {"none", "done", "failed"} \cup Handling]
  BY DEF Publish, DeliveryInv, DeliveryTypeOK
<1>4. /\ overlapped' \in BOOLEAN
      /\ ~overlapped' => ~overlapped /\ \A e \in Publishes : publishing[e] # "running"
  BY DEF Publish, DeliveryInv, DeliveryTypeOK
<1>5. DeliveryTypeOK'
  BY <1>1, <1>3, <1>4 DEF DeliveryInv, DeliveryTypeOK
<1>6. HandledWhileRunning' /\ MarkingWasApplied' /\ MarkedWasApplied'
  <2>1. \A e \in Publishes : /\ publishing'[e] = IF e = d THEN "running" ELSE publishing[e]
                             /\ handlers'[e] = IF e = d THEN subscribed ELSE handlers[e]
    BY <1>1 DEF DeliveryInv, DeliveryTypeOK
  <2>2. HandledWhileRunning'
    BY <1>1, <1>2, <2>1 DEF DeliveryInv, HandledWhileRunning
  <2> QED BY <1>1, <1>2, <2>2 DEF DeliveryInv, MarkingWasApplied, MarkedWasApplied
<1>7. ResolvedIsSettled'
  BY <1>1, <1>2 DEF DeliveryInv, DeliveryTypeOK, ResolvedIsSettled
<1>8. TrackedOnce'
  <2> SUFFICES ASSUME ~overlapped' PROVE TrackedOnce'
    BY DEF TrackedOnce
  <2>1. \A e, f \in Publishes : publishing'[e] = "running" /\ publishing'[f] = "running" => e = f
    BY <1>1, <1>4 DEF DeliveryInv, DeliveryTypeOK
  <2>2. ASSUME NEW p \in Tracking
        PROVE  /\ applied'[p] <= 1
               /\ applied'[p] = 1 =>
                    p \in processed' \/ \E e \in Publishes : projecting'[<<e, p>>] = "marking"
               /\ \A e \in Publishes : projecting'[<<e, p>>] = "handling" => applied'[p] = 0
    <3>1. p \in Projections
      BY DeliveryAssumption DEF DeliveryAssumption
    <3>2. \A e \in Publishes : projecting[<<e, p>>] \notin Handling
      BY <1>4, <3>1 DEF DeliveryInv, HandledWhileRunning
    <3> QED BY <1>1, <1>2, <1>4, <3>1, <3>2 DEF DeliveryInv, TrackedOnce
  <2> QED BY <2>1, <2>2 DEF TrackedOnce
<1> QED BY <1>5, <1>6, <1>7, <1>8 DEF DeliveryInv

\* A step of one projection's safeHandle leaves the others where they are.
LEMMA StepsFromActs ==
  ASSUME DeliveryInv, NEW d \in Publishes, NEW p \in Projections, NEW from, NEW to,
         StepsFrom(d, p, from, to), to \in {"done", "failed"} \cup Handling,
         from \in Handling
  PROVE  /\ projecting[<<d, p>>] = from /\ publishing[d] = "running"
         /\ UNCHANGED <<subscribed, publishing, handlers>>
         /\ projecting' \in [Publishes \X Projections -> {"none", "done", "failed"} \cup Handling]
         /\ \A e \in Publishes, q \in Projections :
              projecting'[<<e, q>>] = IF e = d /\ q = p THEN to ELSE projecting[<<e, q>>]
         /\ HandledWhileRunning' /\ ResolvedIsSettled'
<1> USE DEF Handling
<1>1. /\ projecting[<<d, p>>] = from /\ publishing[d] = "running"
      /\ UNCHANGED <<subscribed, publishing, handlers>>
      /\ projecting' \in [Publishes \X Projections -> {"none", "done", "failed"} \cup Handling]
  BY DEF StepsFrom, DeliveryInv, DeliveryTypeOK, HandledWhileRunning
<1>2. \A e \in Publishes, q \in Projections :
        projecting'[<<e, q>>] = IF e = d /\ q = p THEN to ELSE projecting[<<e, q>>]
  BY DEF StepsFrom, DeliveryInv, DeliveryTypeOK
<1>3. HandledWhileRunning'
  BY <1>1, <1>2 DEF DeliveryInv, HandledWhileRunning
<1>4. ResolvedIsSettled'
  BY <1>1, <1>2 DEF DeliveryInv, ResolvedIsSettled
<1> QED BY <1>1, <1>2, <1>3, <1>4

\* isEventProcessed lets a tracking projection handle the event only before it was
\* marked, and without an overlap nobody else is between handle and mark.
LEMMA CheckKeepsInv ==
  ASSUME DeliveryInv, NEW d \in Publishes, NEW p \in Projections, CheckProcessed(d, p)
  PROVE  DeliveryInv'
<1> USE DEF Handling
<1>1. PICK to \in {"done", "handling"} :
        /\ StepsFrom(d, p, "checking", to)
        /\ to = "handling" => ~(p \in Tracking /\ p \in processed)
  BY DEF CheckProcessed
<1>2. UNCHANGED <<processed, applied, overlapped>>
  BY DEF CheckProcessed
<1>3. /\ projecting[<<d, p>>] = "checking" /\ publishing[d] = "running"
      /\ UNCHANGED <<subscribed, publishing, handlers>>
      /\ projecting' \in [Publishes \X Projections -> {"none", "done", "failed"} \cup Handling]
      /\ \A e \in Publishes, q \in Projections :
           projecting'[<<e, q>>] = IF e = d /\ q = p THEN to ELSE projecting[<<e, q>>]
      /\ HandledWhileRunning' /\ ResolvedIsSettled'
  BY <1>1, StepsFromActs
<1>4. DeliveryTypeOK'
  BY <1>2, <1>3 DEF DeliveryInv, DeliveryTypeOK
<1>5. MarkedWasApplied' /\ MarkingWasApplied'
  BY <1>2, <1>3 DEF DeliveryInv, MarkedWasApplied, MarkingWasApplied
<1>6. TrackedOnce'
  <2> SUFFICES ASSUME ~overlapped' PROVE TrackedOnce'
    BY DEF TrackedOnce
  <2>1. ~overlapped
    BY <1>2
  <2>2. p \in Tracking /\ to = "handling" => applied[p] = 0
    <3> SUFFICES ASSUME p \in Tracking, to = "handling" PROVE applied[p] = 0
      OBVIOUS
    <3>1. ~ \E e \in Publishes : projecting[<<e, p>>] = "marking"
      BY <1>3, <2>1 DEF DeliveryInv, HandledWhileRunning, TrackedOnce
    <3>2. applied[p] \in Nat /\ applied[p] <= 1 /\ applied[p] # 1
      BY <1>1, <2>1, <3>1 DEF DeliveryInv, DeliveryTypeOK, TrackedOnce
    <3> QED BY <3>2
  <2>3. \A q \in Tracking : q \in Projections
    BY DeliveryAssumption DEF DeliveryAssumption
  <2> QED BY <1>2, <1>3, <2>1, <2>2, <2>3 DEF DeliveryInv, TrackedOnce
<1> QED BY <1>3, <1>4, <1>5, <1>6 DEF DeliveryInv

\* handle() applies the event before it is marked.
LEMMA HandleKeepsInv ==
  ASSUME DeliveryInv, NEW d \in Publishes, NEW p \in Projections, Handle(d, p)
  PROVE  DeliveryInv'
<1> USE DEF Handling
<1>1. /\ projecting[<<d, p>>] = "handling" /\ publishing[d] = "running"
      /\ UNCHANGED <<subscribed, publishing, handlers>>
      /\ projecting' \in [Publishes \X Projections -> {"none", "done", "failed"} \cup Handling]
      /\ \A e \in Publishes, q \in Projections :
           projecting'[<<e, q>>] = IF e = d /\ q = p THEN "marking" ELSE projecting[<<e, q>>]
      /\ HandledWhileRunning' /\ ResolvedIsSettled'
  <2>1. StepsFrom(d, p, "handling", "marking")
    BY DEF Handle
  <2> QED BY <2>1, StepsFromActs
<1>2. UNCHANGED <<processed, overlapped>>
  BY DEF Handle
<1>3. /\ applied' \in [Projections -> Nat] /\ applied'[p] = applied[p] + 1
      /\ \A q \in Projections : applied[q] \in Nat /\ (q # p => applied'[q] = applied[q])
  BY DEF Handle, DeliveryInv, DeliveryTypeOK
<1>4. DeliveryTypeOK'
  BY <1>1, <1>2, <1>3 DEF DeliveryInv, DeliveryTypeOK
<1>5. MarkedWasApplied' /\ MarkingWasApplied'
  BY <1>1, <1>2, <1>3 DEF DeliveryInv, DeliveryTypeOK, MarkedWasApplied, MarkingWasApplied
<1>6. TrackedOnce'
  <2> SUFFICES ASSUME ~overlapped' PROVE TrackedOnce'
    BY DEF TrackedOnce
  <2>1. ~overlapped
    BY <1>2
  <2>2. \A q \in Tracking : q \in Projections
    BY DeliveryAssumption DEF DeliveryAssumption
  <2>3. p \in Tracking => applied'[p] = 1 /\ \A e \in Publishes : projecting'[<<e, p>>] # "handling"
    <3> SUFFICES ASSUME p \in Tracking
                 PROVE  applied'[p] = 1 /\ \A e \in Publishes : projecting'[<<e, p>>] # "handling"
      OBVIOUS
    <3>1. applied[p] = 0
      BY <1>1, <2>1 DEF DeliveryInv, TrackedOnce
    <3>2. \A e \in Publishes : projecting[<<e, p>>] = "handling" => e = d
      BY <1>1, <2>1 DEF DeliveryInv, TrackedOnce, HandledWhileRunning
    <3> QED BY <1>1, <1>3, <3>1, <3>2
  <2>4. \A e, f \in Publishes : publishing'[e] = "running" /\ publishing'[f] = "running" => e = f
    BY <1>1, <2>1 DEF DeliveryInv, TrackedOnce
  <2>5. ASSUME NEW q \in Tracking
        PROVE  /\ applied'[q] <= 1
               /\ applied'[q] = 1 =>
                    q \in processed' \/ \E e \in Publishes : projecting'[<<e, q>>] = "marking"
               /\ \A e \in Publishes : projecting'[<<e, q>>] = "handling" => applied'[q] = 0
    <3>1. CASE q = p
      BY <1>1, <2>3, <3>1
    <3>2. CASE q # p
      BY ZenonT(40), <1>1, <1>2, <1>3, <2>1, <2>2, <3>2 DEF DeliveryInv, TrackedOnce
    <3> QED BY <3>1, <3>2
  <2> QED BY <2>4, <2>5 DEF TrackedOnce
<1> QED BY <1>1, <1>4, <1>5, <1>6 DEF DeliveryInv

\* markEventProcessed ends safeHandle; a failure before it loses nothing, and one of
\* the mark itself is the other excuse for a repetition.
LEMMA MarkKeepsInv ==
  ASSUME DeliveryInv, NEW d \in Publishes, NEW p \in Projections,
         Mark(d, p) \/ ProjectionFails(d, p)
  PROVE  DeliveryInv'
<1> USE DEF Handling
<1>1. PICK at \in Handling, to \in {"done", "failed"} :
        /\ StepsFrom(d, p, at, to) /\ UNCHANGED applied
        /\ processed \subseteq processed'
        /\ processed' \subseteq processed \cup (IF at = "marking" THEN {p} ELSE {})
        /\ overlapped' \in BOOLEAN
        /\ ~overlapped' =>
             ~overlapped /\ (at = "marking" /\ p \in Tracking => p \in processed')
  <2>1. CASE Mark(d, p)
    <3>1. /\ StepsFrom(d, p, "marking", "done") /\ UNCHANGED <<applied, overlapped>>
          /\ processed' = IF p \in Tracking THEN processed \cup {p} ELSE processed
      BY <2>1 DEF Mark
    <3>2. overlapped' \in BOOLEAN
      BY <3>1 DEF DeliveryInv, DeliveryTypeOK
    <3> QED BY <3>1, <3>2
  <2>2. CASE ProjectionFails(d, p)
    <3>1. PICK at \in Handling :
            /\ StepsFrom(d, p, at, "failed") /\ UNCHANGED <<processed, applied>>
            /\ overlapped' = (overlapped \/ at = "marking")
      BY <2>2 DEF ProjectionFails
    <3>2. overlapped' \in BOOLEAN /\ (~overlapped' => ~overlapped /\ at # "marking")
      BY <3>1 DEF DeliveryInv, DeliveryTypeOK
    <3> QED BY <3>1, <3>2
  <2> QED BY <2>1, <2>2
<1>2. /\ projecting[<<d, p>>] = at /\ publishing[d] = "running"
      /\ UNCHANGED <<subscribed, publishing, handlers>>
      /\ projecting' \in [Publishes \X Projections -> {"none", "done", "failed"} \cup Handling]
      /\ \A e \in Publishes, q \in Projections :
           projecting'[<<e, q>>] = IF e = d /\ q = p THEN to ELSE projecting[<<e, q>>]
      /\ HandledWhileRunning' /\ ResolvedIsSettled'
  BY <1>1, StepsFromActs
<1>3. DeliveryTypeOK'
  BY <1>1, <1>2 DEF DeliveryInv, DeliveryTypeOK
<1>4. MarkedWasApplied' /\ MarkingWasApplied'
  BY <1>1, <1>2 DEF DeliveryInv, MarkedWasApplied, MarkingWasApplied
<1>5. TrackedOnce'
  <2> SUFFICES ASSUME ~overlapped' PROVE TrackedOnce'
    BY DEF TrackedOnce
  <2>1. ~overlapped /\ (at = "marking" /\ p \in Tracking => p \in processed')
    BY <1>1
  <2>2. \A q \in Tracking : q \in Projections
    BY DeliveryAssumption DEF DeliveryAssumption
  <2> QED BY <1>1, <1>2, <2>1, <2>2 DEF DeliveryInv, TrackedOnce
<1> QED BY <1>2, <1>3, <1>4, <1>5 DEF DeliveryInv

\* Each step of the bus and of its projections keeps the invariant.
LEMMA DeliveryInvStep == DeliveryInv /\ [DeliveryNext]_deliveryVars => DeliveryInv'
<1> SUFFICES ASSUME DeliveryInv, [DeliveryNext]_deliveryVars PROVE DeliveryInv'
  OBVIOUS
<1>1. ASSUME NEW p \in Projections, Subscribe(p) PROVE DeliveryInv'
  <2>1. /\ UNCHANGED <<publishing, handlers, projecting, processed, applied, overlapped>>
        /\ subscribed' \subseteq Projections
    BY <1>1 DEF Subscribe, DeliveryInv, DeliveryTypeOK
  <2>2. DeliveryTypeOK'
    BY <2>1 DEF DeliveryInv, DeliveryTypeOK
  <2>3. HandledWhileRunning' /\ ResolvedIsSettled' /\ MarkedWasApplied' /\ MarkingWasApplied'
    BY <2>1 DEF DeliveryInv, HandledWhileRunning, ResolvedIsSettled, MarkedWasApplied,
       MarkingWasApplied
  <2>4. TrackedOnce'
    BY <2>1 DEF DeliveryInv, TrackedOnce
  <2> QED BY <2>2, <2>3, <2>4 DEF DeliveryInv
<1>2. ASSUME NEW d \in Publishes, Publish(d) PROVE DeliveryInv'
  BY <1>2, PublishKeepsInv
<1>3. ASSUME NEW d \in Publishes, NEW p \in Projections,
             CheckProcessed(d, p) \/ Handle(d, p) \/ Mark(d, p) \/ ProjectionFails(d, p)
      PROVE  DeliveryInv'
  BY <1>3, CheckKeepsInv, HandleKeepsInv, MarkKeepsInv
<1>4. ASSUME NEW d \in Publishes, Resolves(d) PROVE DeliveryInv'
  <2>1. /\ publishing' \in [Publishes -> {"new", "running", "resolved"}]
        /\ \A e \in Publishes : publishing'[e] = IF e = d THEN "resolved" ELSE publishing[e]
        /\ \A p \in handlers[d] : projecting[<<d, p>>] \in {"done", "failed"}
        /\ publishing[d] = "running"
        /\ UNCHANGED <<subscribed, handlers, projecting, processed, applied, overlapped>>
    BY <1>4 DEF Resolves, DeliveryInv, DeliveryTypeOK
  <2>2. ResolvedIsSettled'
    BY <2>1 DEF DeliveryInv, DeliveryTypeOK, ResolvedIsSettled
  <2>3. \A p \in Projections : projecting[<<d, p>>] \notin Handling
    BY <2>1 DEF DeliveryInv, HandledWhileRunning, Handling
  <2>4. DeliveryTypeOK'
    BY <2>1 DEF DeliveryInv, DeliveryTypeOK
  <2>5. HandledWhileRunning' /\ MarkedWasApplied' /\ MarkingWasApplied'
    BY <2>1, <2>3 DEF DeliveryInv, HandledWhileRunning, MarkedWasApplied, MarkingWasApplied
  <2>6. TrackedOnce'
    BY <2>1 DEF DeliveryInv, TrackedOnce
  <2> QED BY <2>2, <2>4, <2>5, <2>6 DEF DeliveryInv
<1>5. CASE UNCHANGED deliveryVars
  BY <1>5 DEF deliveryVars, DeliveryInv, DeliveryTypeOK, HandledWhileRunning, ResolvedIsSettled,
     MarkedWasApplied, MarkingWasApplied, TrackedOnce
<1> QED BY <1>1, <1>2, <1>3, <1>4, <1>5 DEF DeliveryNext

\* Whatever publishes overlap and whichever handlers fail, every projection an event
\* was published to runs to its end, is marked only after it applied the event, and
\* if it tracks its events applies this one once but for an overlap or a failed mark
\* (EventBus.publish, BaseProjection.safeHandle).
THEOREM ProjectionsAreSafe == DeliverySpec => []EachProjectionOnce
<1>1. DeliveryInv => EachProjectionOnce
  <2> SUFFICES ASSUME DeliveryInv PROVE EachProjectionOnce
    OBVIOUS
  <2>1. OthersStillHandle
    BY DEF DeliveryInv, DeliveryTypeOK, ResolvedIsSettled, OthersStillHandle
  <2>2. AppliedOnce
    <3> SUFFICES ASSUME NEW p \in Tracking, applied[p] > 1, ~overlapped PROVE FALSE
      BY DEF AppliedOnce, DeliveryInv, DeliveryTypeOK
    <3>1. applied[p] \in Nat /\ applied[p] <= 1
      BY DeliveryAssumption DEF DeliveryAssumption, DeliveryInv, DeliveryTypeOK, TrackedOnce
    <3> QED BY <3>1
  <2> QED BY <2>1, <2>2 DEF DeliveryInv, EachProjectionOnce
<1>2. DeliverySpec => []DeliveryInv
  BY DeliveryInvInit, DeliveryInvStep, PTL DEF DeliverySpec
<1> QED BY <1>1, <1>2, PTL

-----------------------------------------------------------------------------
(* The unit of work and the aggregate's version (WriteSide) *)

Save == [step : Steps, mode : Modes, command : Commands, base : Nat, version : Nat,
         events : Nat, answer : Answers, retries : Nat, lost : BOOLEAN, writes : Nat]

\* What the caller has been told fits how far the save has come: a unit of work is
\* answered by its end or its timer, a save without one by its last await.
AnswerFits(s) ==
  /\ s.step \in {"idle", "loaded"} => s.answer = "none"
  /\ s.step \in {"queued", "open", "added"} => s.mode = "uow"
  /\ s.step \in {"queued", "open", "persisted", "added"} => s.answer \in {"waiting", "timeout"}
  /\ s.step = "committed" => s.answer \in {"ok", "timeout"}
  /\ s.step = "failed" => s.answer \in {"error", "timeout"}
  /\ s.answer = "timeout" => s.mode = "uow"

\* The aggregate counts each event it raised, and keeps them until they are saved.
Aggregate(s) ==
  s.step # "idle" =>
    /\ s.version = s.base + Raises(s.command) /\ s.version >= 1
    /\ s.step # "committed" => s.events = Raises(s.command)

\* The committed effects of a save: with a unit of work they appear with its commit,
\* heard of or not; without one the row comes first and the events last.  (w: the version
\* overwritten, isStored, isOnBus: its events are in the outbox, on the bus.)
Effects(s, w, isStored, isOnBus) ==
  /\ s.step = "idle" => s.mode = "uow" /\ ~s.lost
  /\ s.mode = "uow" =>
       /\ w # -1 <=> s.step = "committed" \/ s.lost
       /\ isStored <=> w # -1 /\ Raises(s.command) > 0
       /\ ~isOnBus
  /\ s.mode # "uow" =>
       /\ s.step \in {"persisted", "committed"} => w # -1
       /\ s.step = "committed" /\ Raises(s.command) > 0 =>
            IF s.mode = "direct" THEN isOnBus ELSE isStored
       /\ isStored \/ isOnBus => w # -1 /\ (s.step = "committed" \/ s.lost)
       /\ w # -1 /\ s.step \in {"loaded", "failed"} /\ ~s.lost => Raises(s.command) > 0
  /\ w # -1 /\ Raises(s.command) = 1 => w = s.base

\* A save is applied at most once: once it is, the row is not behind the aggregate.
Applied(s, w, r) ==
  /\ s.writes = (IF w = -1 THEN 0 ELSE 1)
  /\ w # -1 => r >= s.version

SaveOK(s, w, isStored, isOnBus) ==
  /\ AnswerFits(s)
  /\ Aggregate(s)
  /\ Effects(s, w, isStored, isOnBus)

HasLock(s) == s.mode = "uow" /\ s.step \in {"persisted", "added"}

\* The row's lock is held from persist() to the end of the transaction, and nobody
\* changes the row meanwhile.
RowLocked ==
  \A h \in Handlers :
    /\ lock = h <=> HasLock(save[h])
    /\ HasLock(save[h]) => Matches(save[h].version)

\* A context is registered only for a unit of work that has begun.
ContextsKnown ==
  \A h \in activeTransactions : save[h].mode = "uow" /\ save[h].answer \in {"waiting", "timeout"}

\* The tables, the bus and the lock.
SharedOK ==
  /\ row \in Nat /\ stored \subseteq Handlers /\ onBus \subseteq Handlers
  /\ wrote \in [Handlers -> Nat \cup {-1}]
  /\ lock \in Handlers \cup {NoHandler}

WriteInv ==
  /\ SharedOK
  /\ save \in [Handlers -> Save]
  /\ activeTransactions \subseteq Handlers
  /\ \A h \in Handlers : SaveOK(save[h], wrote[h], h \in stored, h \in onBus)
  /\ \A h \in Handlers : Applied(save[h], wrote[h], row)
  /\ RowLocked
  /\ ContextsKnown

\* A step of h: what others have committed stays.
OthersKeep(h) ==
  \A g \in Handlers : g # h =>
    /\ wrote'[g] = wrote[g]
    /\ (g \in stored') <=> (g \in stored)
    /\ (g \in onBus') <=> (g \in onBus)

\* A command raises at most two events.
LEMMA RaisesFew == \A c \in Commands : Raises(c) \in {0, 1, 2}
  BY DEF Commands, Raises

\* What the invariant says of one handler.
LEMMA SaveFacts ==
  ASSUME WriteInv, NEW h \in Handlers
  PROVE  /\ save[h] \in Save /\ SaveOK(save[h], wrote[h], h \in stored, h \in onBus)
         /\ wrote[h] \in Nat \cup {-1} /\ row \in Nat
         /\ Applied(save[h], wrote[h], row)
  BY DEF WriteInv, SharedOK

\* A handler that has not begun.
LEMMA BlankTyped == Blank \in Save
  BY DEF Blank, Save, Steps, Modes, Commands, Answers

\* Nothing is saved and nothing asked for.
LEMMA WriteInvInit == WriteInit => WriteInv
<1> SUFFICES ASSUME WriteInit PROVE WriteInv
  OBVIOUS
<1>1. Blank \in Save
  BY BlankTyped
<1>2. \A h \in Handlers : save[h] = Blank /\ wrote[h] = -1 /\ h \notin stored /\ h \notin onBus
  BY DEF WriteInit
<1>3. ~HasLock(Blank)
  BY DEF HasLock, Blank
<1>4. \A h \in Handlers : SaveOK(save[h], wrote[h], h \in stored, h \in onBus)
  <2>1. AnswerFits(Blank) /\ Aggregate(Blank)
    BY DEF AnswerFits, Aggregate, Blank
  <2>2. \A h \in Handlers : Effects(save[h], wrote[h], h \in stored, h \in onBus)
    BY <1>2 DEF Effects, Blank
  <2> QED BY <1>2, <2>1, <2>2 DEF SaveOK
<1>5. RowLocked /\ ContextsKnown
  BY <1>3, WriteAssumption DEF WriteInit, RowLocked, ContextsKnown, WriteAssumption
<1>6. \A h \in Handlers : Applied(save[h], wrote[h], row)
  BY <1>2 DEF Applied, Blank
<1> QED BY <1>1, <1>4, <1>5, <1>6 DEF WriteInit, WriteInv, SharedOK

\* A step of h changes what is known of h, and others by the row's lock only.
LEMMA HandlerStep ==
  ASSUME WriteInv, NEW h \in Handlers, NEW s \in Save,
         save' = [save EXCEPT ![h] = s],
         SharedOK', OthersKeep(h),
         SaveOK(s, wrote'[h], h \in stored', h \in onBus'),
         Applied(s, wrote'[h], row'), row' >= row,
         activeTransactions' \subseteq activeTransactions \cup {h},
         h \in activeTransactions' => s.mode = "uow" /\ s.answer \in {"waiting", "timeout"},
         RowLocked'
  PROVE  WriteInv'
<1>1. save \in [Handlers -> Save] /\ save' \in [Handlers -> Save]
  BY DEF WriteInv
<1>2. \A g \in Handlers : save'[g] = IF g = h THEN s ELSE save[g]
  BY <1>1
<1>3. ASSUME NEW g \in Handlers PROVE SaveOK(save'[g], wrote'[g], g \in stored', g \in onBus')
  <2>1. CASE g = h
    BY <1>2, <2>1
  <2>2. CASE g # h
    <3>1. SaveOK(save[g], wrote[g], g \in stored, g \in onBus)
      BY DEF WriteInv
    <3>2. /\ save'[g] = save[g] /\ wrote'[g] = wrote[g]
          /\ (g \in stored') <=> (g \in stored)
          /\ (g \in onBus') <=> (g \in onBus)
      BY <1>2, <2>2 DEF OthersKeep
    <3> QED BY <3>1, <3>2 DEF SaveOK, Effects
  <2> QED BY <2>1, <2>2
<1>4. ContextsKnown' /\ activeTransactions' \subseteq Handlers
  BY <1>2 DEF WriteInv, ContextsKnown
<1>5. ASSUME NEW g \in Handlers PROVE Applied(save'[g], wrote'[g], row')
  <2>1. CASE g = h
    BY <1>2, <2>1
  <2>2. CASE g # h
    <3>1. Applied(save[g], wrote[g], row) /\ save[g].version \in Nat /\ row \in Nat /\ row' \in Nat
      BY SaveFacts DEF SharedOK, Save
    <3>2. save'[g] = save[g] /\ wrote'[g] = wrote[g]
      BY <1>2, <2>2 DEF OthersKeep
    <3> QED BY <3>1, <3>2 DEF Applied
  <2> QED BY <2>1, <2>2
<1> QED BY <1>1, <1>3, <1>4, <1>5 DEF WriteInv

\* A step of h that neither takes nor gives up the row's lock, and writes nothing
\* others can see but its context.
LEMMA QuietStep ==
  ASSUME WriteInv, NEW h \in Handlers, NEW s \in Save,
         save' = [save EXCEPT ![h] = s],
         UNCHANGED <<row, stored, onBus, wrote, lock>>,
         SaveOK(s, wrote[h], h \in stored, h \in onBus), Applied(s, wrote[h], row),
         HasLock(s) <=> HasLock(save[h]), s.version = save[h].version \/ ~HasLock(s),
         activeTransactions' \subseteq activeTransactions \cup {h},
         h \in activeTransactions' => s.mode = "uow" /\ s.answer \in {"waiting", "timeout"}
  PROVE  WriteInv'
<1>1. \A g \in Handlers : save'[g] = IF g = h THEN s ELSE save[g]
  BY DEF WriteInv
<1>2. RowLocked'
  BY <1>1 DEF WriteInv, RowLocked, Matches
<1>3. SharedOK' /\ OthersKeep(h)
  BY DEF WriteInv, SharedOK, OthersKeep
<1>4. SaveOK(s, wrote'[h], h \in stored', h \in onBus') /\ Applied(s, wrote'[h], row')
  OBVIOUS
<1>5. row' >= row
  BY SaveFacts
<1> QED BY <1>2, <1>3, <1>4, <1>5, HandlerStep

\* getById and the aggregate's methods.
LEMMA LoadKeepsInv ==
  ASSUME WriteInv, NEW h \in Handlers, Load(h)
  PROVE  WriteInv'
<1>1. PICK c \in Commands, m \in Modes :
        /\ (c = "register") = (row = 0)
        /\ save' = [save EXCEPT ![h] =
             [Blank EXCEPT !.step = "loaded", !.mode = m, !.command = c, !.base = row,
                           !.version = row + Raises(c), !.events = Raises(c)]]
  BY DEF Load
<1>12. row + Raises(c) >= 1
  <2>1. (c = "register") = (row = 0)
    BY <1>1
  <2>2. Raises("register") = 2
    BY DEF Raises
  <2>3. row \in Nat /\ Raises(c) \in Nat
    BY RaisesFew, SaveFacts
  <2> QED BY <2>1, <2>2, <2>3
<1>10. PICK s : s = [Blank EXCEPT !.step = "loaded", !.mode = m, !.command = c, !.base = row,
                        !.version = row + Raises(c), !.events = Raises(c)]
  OBVIOUS
<1>3. save' = [save EXCEPT ![h] = s]
  BY <1>1, <1>10
<1>4. Raises(c) \in Nat /\ row \in Nat /\ row + Raises(c) \in Nat
  BY RaisesFew, SaveFacts
<1>5. s \in Save
  BY <1>10, <1>4, BlankTyped DEF Save, Steps
<1>2. /\ s.step = "loaded" /\ s.mode = m /\ s.command = c /\ s.base = row
      /\ s.version = row + Raises(c) /\ s.events = Raises(c) /\ s.answer = "none"
      /\ s.lost = FALSE /\ s.writes = 0
  BY <1>10, <1>4, BlankTyped DEF Save, Blank
<1>6. save[h].step = "idle" /\ UNCHANGED <<row, stored, onBus, wrote, lock, activeTransactions>>
  BY DEF Load
<1>7. /\ save[h].mode = "uow" /\ save[h].answer = "none" /\ wrote[h] = -1
      /\ h \notin stored /\ h \notin onBus
  BY <1>6, SaveFacts DEF SaveOK, AnswerFits, Effects, Save, Modes
<1>8. SaveOK(s, wrote[h], h \in stored, h \in onBus)
  <2>1. AnswerFits(s)
    BY <1>2 DEF AnswerFits
  <2>2. Aggregate(s)
    BY <1>2, <1>12 DEF Aggregate
  <2>3. Effects(s, wrote[h], h \in stored, h \in onBus)
    BY <1>2, <1>7 DEF Effects
  <2> QED BY <2>1, <2>2, <2>3 DEF SaveOK
<1>9. h \notin activeTransactions /\ ~HasLock(s) /\ ~HasLock(save[h])
  BY <1>2, <1>6, <1>7 DEF WriteInv, ContextsKnown, HasLock
<1>11. Applied(s, wrote[h], row)
  BY <1>2, <1>7 DEF Applied
<1> QED BY <1>3, <1>5, <1>6, <1>8, <1>9, <1>11, QuietStep

\* t is s, moved on to a step and with an answer.
Moved(s, t, step, answer) ==
  /\ t = [s EXCEPT !.step = step, !.answer = answer]
  /\ t \in Save
  /\ t.step = step /\ t.answer = answer
  /\ t.mode = s.mode /\ t.command = s.command /\ t.base = s.base /\ t.version = s.version
  /\ t.events = s.events /\ t.retries = s.retries /\ t.lost = s.lost /\ t.writes = s.writes

\* A record with the same version and writes is as much applied.
LEMMA AppliedStays ==
  ASSUME NEW s, NEW t, NEW w, NEW r, Applied(s, w, r), t.version = s.version, t.writes = s.writes
  PROVE  Applied(t, w, r)
BY DEF Applied

\* Moving on keeps the aggregate.
LEMMA MovedFacts ==
  ASSUME NEW s \in Save, NEW step \in Steps, NEW answer \in Answers
  PROVE  \E t : Moved(s, t, step, answer)
<1>1. PICK t : t = [s EXCEPT !.step = step, !.answer = answer]
  OBVIOUS
<1>2. t \in Save
  BY <1>1 DEF Save
<1>3. /\ t.step = step /\ t.answer = answer /\ t.mode = s.mode /\ t.command = s.command
      /\ t.base = s.base /\ t.version = s.version /\ t.events = s.events
      /\ t.retries = s.retries /\ t.lost = s.lost /\ t.writes = s.writes
  BY <1>1 DEF Save
<1> QED BY <1>1, <1>2, <1>3 DEF Moved

\* A handler's record and what holds of it, spelt out.
LEMMA SaveFields ==
  ASSUME NEW s \in Save
  PROVE  /\ s.step \in Steps /\ s.mode \in Modes /\ s.command \in Commands
         /\ s.base \in Nat /\ s.version \in Nat /\ s.events \in Nat
         /\ s.answer \in Answers /\ s.retries \in Nat /\ s.lost \in BOOLEAN /\ s.writes \in Nat
  BY DEF Save

\* runInTransaction, the transaction's begin and the timer.
LEMMA WaitingKeepsInv ==
  ASSUME WriteInv, NEW h \in Handlers,
         RunInTransaction(h) \/ TransactionOpens(h) \/ Timeout(h)
  PROVE  WriteInv'
<1>1. save[h] \in Save /\ SaveOK(save[h], wrote[h], h \in stored, h \in onBus)
  BY SaveFacts
<1>2. CASE RunInTransaction(h)
  <2>0. "queued" \in Steps /\ "waiting" \in Answers
    BY DEF Steps, Answers
  <2>1. PICK t : Moved(save[h], t, "queued", "waiting")
    BY <1>1, <2>0, MovedFacts
  <2>2. save' = [save EXCEPT ![h] = t]
    BY <1>2, <2>1 DEF RunInTransaction, Moved, WriteInv
  <2>3. /\ save[h].step = "loaded" /\ save[h].mode = "uow"
        /\ UNCHANGED <<row, stored, onBus, wrote, lock, activeTransactions>>
    BY <1>2 DEF RunInTransaction
  <2>4. SaveOK(t, wrote[h], h \in stored, h \in onBus)
    BY <1>1, <2>1, <2>3 DEF Moved, SaveOK, AnswerFits, Aggregate, Effects
  <2>5. Applied(t, wrote[h], row)
    BY <2>1, SaveFacts, AppliedStays DEF Moved
  <2> QED BY <2>1, <2>2, <2>3, <2>4, <2>5, QuietStep DEF HasLock, Moved
<1>3. CASE TransactionOpens(h)
  <2>0. "open" \in Steps /\ save[h].answer \in Answers
    BY <1>1, SaveFields DEF Steps
  <2>1. PICK t : Moved(save[h], t, "open", save[h].answer)
    BY <1>1, <2>0, MovedFacts
  <2>2. save' = [save EXCEPT ![h] = t]
    BY <1>1, <1>3, <2>1 DEF TransactionOpens, Moved, Save
  <2>3. /\ save[h].step = "queued" /\ activeTransactions' = activeTransactions \cup {h}
        /\ UNCHANGED <<row, stored, onBus, wrote, lock>>
    BY <1>3 DEF TransactionOpens
  <2>4. t.mode = "uow" /\ t.answer \in {"waiting", "timeout"}
    BY <1>1, <2>1, <2>3 DEF Moved, SaveOK, AnswerFits
  <2>5. SaveOK(t, wrote[h], h \in stored, h \in onBus)
    BY <1>1, <2>1, <2>3, <2>4 DEF Moved, SaveOK, AnswerFits, Aggregate, Effects
  <2>6. Applied(t, wrote[h], row)
    BY <2>1, SaveFacts, AppliedStays DEF Moved
  <2> QED BY <2>1, <2>2, <2>3, <2>4, <2>5, <2>6, QuietStep DEF HasLock, Moved
<1>4. CASE Timeout(h)
  <2>0. save[h].step \in Steps /\ "timeout" \in Answers
    BY <1>1, SaveFields DEF Answers
  <2>1. PICK t : Moved(save[h], t, save[h].step, "timeout")
    BY <1>1, <2>0, MovedFacts
  <2>2. save' = [save EXCEPT ![h] = t]
    BY <1>1, <1>4, <2>1 DEF Timeout, Moved, Save
  <2>3. /\ save[h].answer = "waiting" /\ save[h].mode = "uow"
        /\ activeTransactions' = activeTransactions \ {h}
        /\ UNCHANGED <<row, stored, onBus, wrote, lock>>
    BY <1>4 DEF Timeout
  <2>4. save[h].step \in {"queued", "open", "persisted", "added"}
    BY <1>1, <2>0, <2>3 DEF SaveOK, AnswerFits, Steps
  <2>5. SaveOK(t, wrote[h], h \in stored, h \in onBus)
    <3>1. AnswerFits(t)
      BY <2>1, <2>3, <2>4 DEF Moved, AnswerFits
    <3>2. Aggregate(t) /\ Effects(t, wrote[h], h \in stored, h \in onBus)
      BY <1>1, <2>1 DEF Moved, SaveOK, Aggregate, Effects
    <3> QED BY <3>1, <3>2 DEF SaveOK
  <2>6. Applied(t, wrote[h], row)
    BY <2>1, SaveFacts, AppliedStays DEF Moved
  <2> QED BY <2>1, <2>2, <2>3, <2>5, <2>6, QuietStep DEF HasLock, Moved
<1> QED BY <1>2, <1>3, <1>4

\* The version a save checks against: for a command of one event, the one it loaded.
LEMMA MatchIsBase ==
  ASSUME WriteInv, NEW h \in Handlers, save[h].step # "idle", Matches(save[h].version)
  PROVE  Raises(save[h].command) = 1 => row = save[h].base
<1>1. save[h] \in Save /\ Aggregate(save[h]) /\ row \in Nat
  BY SaveFacts DEF SaveOK
<1>2. save[h].base \in Nat /\ save[h].version = save[h].base + Raises(save[h].command)
  BY <1>1, SaveFields DEF Aggregate
<1> SUFFICES ASSUME Raises(save[h].command) = 1 PROVE row = save[h].base
  OBVIOUS
<1>3. row = ExpectedVersion(save[h].version)
  BY DEF Matches
<1> QED BY <1>1, <1>2, <1>3 DEF ExpectedVersion

\* persist() takes the lock of a row that matches.
LEMMA PersistKeepsInv ==
  ASSUME WriteInv, NEW h \in Handlers, PersistInTransaction(h)
  PROVE  WriteInv'
<1>1. save[h] \in Save /\ SaveOK(save[h], wrote[h], h \in stored, h \in onBus)
  BY SaveFacts
<1>2. "persisted" \in Steps /\ save[h].answer \in Answers
  BY <1>1, SaveFields DEF Steps
<1>3. PICK t : Moved(save[h], t, "persisted", save[h].answer)
  BY <1>1, <1>2, MovedFacts
<1>4. save' = [save EXCEPT ![h] = t]
  BY <1>1, <1>3 DEF PersistInTransaction, Moved, Save
<1>5. /\ save[h].step = "open" /\ lock = NoHandler /\ lock' = h /\ Matches(save[h].version)
      /\ UNCHANGED <<row, stored, onBus, wrote, activeTransactions>>
  BY DEF PersistInTransaction
<1>6. t.mode = "uow" /\ t.answer \in {"waiting", "timeout"}
  BY <1>1, <1>3, <1>5 DEF Moved, SaveOK, AnswerFits
<1>7. SaveOK(t, wrote[h], h \in stored, h \in onBus)
  <2>1. AnswerFits(t)
    BY <1>3, <1>6 DEF Moved, AnswerFits
  <2>2. Aggregate(t)
    BY <1>1, <1>3, <1>5 DEF Moved, SaveOK, Aggregate
  <2>3. Effects(t, wrote[h], h \in stored, h \in onBus)
    BY <1>1, <1>3, <1>5, <1>6 DEF Moved, SaveOK, Effects
  <2> QED BY <2>1, <2>2, <2>3 DEF SaveOK
<1>8. RowLocked'
  <2>1. \A g \in Handlers : save'[g] = IF g = h THEN t ELSE save[g]
    BY <1>4 DEF WriteInv
  <2>2. HasLock(t) /\ t.version = save[h].version
    BY <1>3, <1>6 DEF HasLock, Moved
  <2>3. \A g \in Handlers : ~HasLock(save[g])
    BY <1>5, WriteAssumption DEF WriteInv, RowLocked, WriteAssumption
  <2> QED BY <1>5, <2>1, <2>2, <2>3 DEF RowLocked, Matches
<1>9. SharedOK' /\ OthersKeep(h)
  BY <1>5 DEF WriteInv, SharedOK, OthersKeep
<1>10. SaveOK(t, wrote'[h], h \in stored', h \in onBus') /\ t \in Save
  BY <1>3, <1>5, <1>7 DEF Moved
<1>11. Applied(t, wrote'[h], row') /\ row' >= row
  <2>1. Applied(t, wrote[h], row) /\ row \in Nat
    BY <1>3, SaveFacts, AppliedStays DEF Moved
  <2> QED BY <1>5, <2>1
<1> QED BY <1>4, <1>5, <1>6, <1>8, <1>9, <1>10, <1>11, HandlerStep

\* addMany inside the transaction.
LEMMA AddEventsKeepsInv ==
  ASSUME WriteInv, NEW h \in Handlers, AddEvents(h)
  PROVE  WriteInv'
<1>1. save[h] \in Save /\ SaveOK(save[h], wrote[h], h \in stored, h \in onBus)
  BY SaveFacts
<1>2. "added" \in Steps /\ save[h].answer \in Answers
  BY <1>1, SaveFields DEF Steps
<1>3. PICK t : Moved(save[h], t, "added", save[h].answer)
  BY <1>1, <1>2, MovedFacts
<1>4. save' = [save EXCEPT ![h] = t]
  BY <1>1, <1>3 DEF AddEvents, Moved, Save
<1>5. /\ save[h].step = "persisted" /\ save[h].mode = "uow"
      /\ UNCHANGED <<row, stored, onBus, wrote, lock, activeTransactions>>
  BY DEF AddEvents
<1>6. t.mode = "uow" /\ t.answer \in {"waiting", "timeout"}
  BY <1>1, <1>3, <1>5 DEF Moved, SaveOK, AnswerFits
<1>7. SaveOK(t, wrote[h], h \in stored, h \in onBus)
  <2>1. AnswerFits(t)
    BY <1>3, <1>6 DEF Moved, AnswerFits
  <2>2. Aggregate(t)
    BY <1>1, <1>3, <1>5 DEF Moved, SaveOK, Aggregate
  <2>3. Effects(t, wrote[h], h \in stored, h \in onBus)
    BY <1>1, <1>3, <1>5, <1>6 DEF Moved, SaveOK, Effects
  <2> QED BY <2>1, <2>2, <2>3 DEF SaveOK
<1>8. Applied(t, wrote[h], row)
  BY <1>3, SaveFacts, AppliedStays DEF Moved
<1> QED BY <1>3, <1>4, <1>5, <1>6, <1>7, <1>8, QuietStep DEF HasLock, Moved

\* A rolled back transaction answers a caller still waiting with the error, deletes
\* its context and gives up the lock.
LEMMA RollBackKeepsInv ==
  ASSUME WriteInv, NEW h \in Handlers, PersistRejected(h) \/ AddEventsRejected(h) \/ CommitRejected(h)
  PROVE  WriteInv'
<1>1. save[h] \in Save /\ SaveOK(save[h], wrote[h], h \in stored, h \in onBus)
  BY SaveFacts
<1>2. /\ RollBack(h) /\ save[h].mode = "uow" /\ save[h].step \in {"open", "persisted", "added"}
      /\ save[h].answer \in {"waiting", "timeout"}
  BY <1>1 DEF PersistRejected, AddEventsRejected, CommitRejected, SaveOK, AnswerFits
<1>3. PICK a \in {"error", "timeout"} :
        /\ a = Answered(h, "error")
        /\ a = "error" => activeTransactions' = activeTransactions \ {h}
        /\ activeTransactions' \subseteq activeTransactions
  BY <1>2 DEF RollBack, Answered, Deregistered
<1>4. "failed" \in Steps /\ a \in Answers
  BY DEF Steps, Answers
<1>5. PICK t : Moved(save[h], t, "failed", a)
  BY <1>1, <1>4, MovedFacts
<1>6. save' = [save EXCEPT ![h] = t] /\ UNCHANGED <<row, stored, onBus, wrote>>
  BY ZenonT(40), <1>1, <1>2, <1>3, <1>5 DEF RollBack, Moved, Save
<1>7. SaveOK(t, wrote[h], h \in stored, h \in onBus)
  <2>1. AnswerFits(t)
    BY <1>2, <1>5 DEF Moved, AnswerFits
  <2>2. Aggregate(t)
    BY <1>1, <1>2, <1>5 DEF Moved, SaveOK, Aggregate
  <2>3. Effects(t, wrote[h], h \in stored, h \in onBus)
    BY <1>1, <1>2, <1>5 DEF Moved, SaveOK, Effects
  <2> QED BY <2>1, <2>2, <2>3 DEF SaveOK
<1>8. lock' = NoHandler /\ (lock = NoHandler \/ lock = h)
  BY <1>2 DEF PersistRejected, AddEventsRejected, CommitRejected, WriteInv, RowLocked, HasLock
<1>9. RowLocked'
  <2>1. \A g \in Handlers : save'[g] = IF g = h THEN t ELSE save[g]
    BY <1>6 DEF WriteInv
  <2>2. ~HasLock(t)
    BY <1>5 DEF HasLock, Moved
  <2>3. \A g \in Handlers : g # h => ~HasLock(save[g])
    BY <1>8, WriteAssumption DEF WriteInv, RowLocked, WriteAssumption
  <2> QED BY <1>8, <2>1, <2>2, <2>3, WriteAssumption DEF RowLocked, WriteAssumption
<1>10. SharedOK' /\ OthersKeep(h)
  BY <1>6, <1>8 DEF WriteInv, SharedOK, OthersKeep
<1>11. SaveOK(t, wrote'[h], h \in stored', h \in onBus') /\ t \in Save
  BY <1>5, <1>6, <1>7 DEF Moved
<1>12. h \in activeTransactions' => t.mode = "uow" /\ t.answer \in {"waiting", "timeout"}
  BY <1>2, <1>3, <1>5 DEF Moved
<1>13. Applied(t, wrote'[h], row') /\ row' >= row
  <2>1. Applied(t, wrote[h], row) /\ row \in Nat
    BY <1>5, SaveFacts, AppliedStays DEF Moved
  <2> QED BY <1>6, <2>1
<1> QED BY <1>3, <1>6, <1>9, <1>10, <1>11, <1>12, <1>13, HandlerStep

\* A save whose last statement was applied, heard of or not.
LEMMA EndedFacts ==
  ASSUME NEW h \in Handlers, save[h] \in Save, NEW heard \in BOOLEAN,
         NEW answer \in Answers, answer = Answered(h, IF heard THEN "ok" ELSE "error")
  PROVE  \E t \in Save :
           /\ t = Ended(h, heard)
           /\ t.step = (IF heard THEN "committed" ELSE "failed") /\ t.answer = answer
           /\ t.events = (IF heard THEN 0 ELSE save[h].events)
           /\ t.lost = (save[h].lost \/ ~heard) /\ t.writes = save[h].writes
           /\ t.mode = save[h].mode /\ t.command = save[h].command
           /\ t.base = save[h].base /\ t.version = save[h].version
<1>1. PICK step, events, gone :
        /\ step = IF heard THEN "committed" ELSE "failed"
        /\ events = IF heard THEN 0 ELSE save[h].events
        /\ gone = (save[h].lost \/ ~heard)
  OBVIOUS
<1>2. step \in Steps /\ events \in Nat /\ gone \in BOOLEAN
  BY <1>1, SaveFields DEF Steps
<1>3. PICK t : t = [save[h] EXCEPT !.step = step, !.answer = answer, !.events = events, !.lost = gone]
  OBVIOUS
<1>4. t \in Save
  BY <1>2, <1>3 DEF Save
<1>5. /\ t.step = step /\ t.answer = answer /\ t.events = events /\ t.lost = gone
      /\ t.writes = save[h].writes /\ t.mode = save[h].mode /\ t.command = save[h].command
      /\ t.base = save[h].base /\ t.version = save[h].version
  BY <1>3 DEF Save
<1>6. t = Ended(h, heard)
  BY <1>1, <1>3 DEF Ended, Save
<1> QED BY <1>1, <1>4, <1>5, <1>6

\* One write more is counted.
LEMMA CountedFacts ==
  ASSUME NEW s \in Save
  PROVE  \E t \in Save :
           /\ t = Counted(s)
           /\ t.writes = s.writes + 1 /\ t.step = s.step /\ t.answer = s.answer
           /\ t.events = s.events /\ t.lost = s.lost /\ t.mode = s.mode
           /\ t.command = s.command /\ t.base = s.base /\ t.version = s.version
<1>1. PICK t : t = [s EXCEPT !.writes = s.writes + 1]
  OBVIOUS
<1>2. s.writes + 1 \in Nat
  BY SaveFields
<1>3. t \in Save
  BY <1>1, <1>2 DEF Save
<1>4. /\ t.writes = s.writes + 1 /\ t.step = s.step /\ t.answer = s.answer
      /\ t.events = s.events /\ t.lost = s.lost /\ t.mode = s.mode
      /\ t.command = s.command /\ t.base = s.base /\ t.version = s.version
  BY <1>1 DEF Save
<1>5. t = Counted(s)
  BY <1>1 DEF Counted
<1> QED BY <1>3, <1>4, <1>5

\* A save that matches the row has not been applied, and takes the row one on.
LEMMA FirstWrite ==
  ASSUME WriteInv, NEW h \in Handlers, save[h].step # "idle", Matches(save[h].version)
  PROVE  /\ wrote[h] = -1 /\ save[h].writes = 0
         /\ save[h].version >= row
<1>1. /\ save[h] \in Save /\ Aggregate(save[h]) /\ Applied(save[h], wrote[h], row)
      /\ row \in Nat /\ row = ExpectedVersion(save[h].version)
  BY SaveFacts DEF SaveOK, Matches
<1>2. save[h].version \in Nat
  BY <1>1, SaveFields
<1>3. CASE save[h].version > 0
  <2>1. row = save[h].version - 1
    BY <1>1, <1>2, <1>3 DEF ExpectedVersion
  <2> QED BY <1>1, <1>2, <2>1 DEF Applied
<1>4. CASE save[h].version = 0
  <2> QED BY <1>1, <1>4 DEF Aggregate
<1> QED BY <1>2, <1>3, <1>4

\* The commit, timed out or not, heard of or not, makes the row and the events durable
\* together.
LEMMA CommitKeepsInv ==
  ASSUME WriteInv, NEW h \in Handlers, NEW heard \in BOOLEAN, Commit(h, heard)
  PROVE  WriteInv'
<1>1. save[h] \in Save /\ SaveOK(save[h], wrote[h], h \in stored, h \in onBus) /\ row \in Nat
  BY SaveFacts
<1>2. /\ save[h].step = "added" /\ save[h].mode = "uow"
      /\ save[h].answer \in {"waiting", "timeout"}
  BY <1>1 DEF Commit, SaveOK, AnswerFits
<1>3. PICK a \in {"ok", "error", "timeout"} :
        /\ a = Answered(h, IF heard THEN "ok" ELSE "error")
        /\ a # "timeout" => a = IF heard THEN "ok" ELSE "error"
        /\ a # "timeout" => activeTransactions' = activeTransactions \ {h}
        /\ activeTransactions' \subseteq activeTransactions
  BY <1>2 DEF Commit, Answered, Deregistered
<1>4. PICK t \in Save :
        /\ save' = [save EXCEPT ![h] = t]
        /\ t.step = (IF heard THEN "committed" ELSE "failed") /\ t.answer = a
        /\ t.events = (IF heard THEN 0 ELSE save[h].events)
        /\ t.lost = (save[h].lost \/ ~heard) /\ t.writes = save[h].writes + 1
        /\ t.mode = save[h].mode /\ t.command = save[h].command /\ t.base = save[h].base
        /\ t.version = save[h].version
  <2>1. a \in Answers
    BY DEF Answers
  <2>2. PICK e \in Save :
          /\ e = Ended(h, heard)
          /\ e.step = (IF heard THEN "committed" ELSE "failed") /\ e.answer = a
          /\ e.events = (IF heard THEN 0 ELSE save[h].events)
          /\ e.lost = (save[h].lost \/ ~heard) /\ e.writes = save[h].writes
          /\ e.mode = save[h].mode /\ e.command = save[h].command /\ e.base = save[h].base
          /\ e.version = save[h].version
    BY <1>1, <1>3, <2>1, EndedFacts
  <2>3. PICK t \in Save :
          /\ t = Counted(e)
          /\ t.writes = e.writes + 1 /\ t.step = e.step /\ t.answer = e.answer
          /\ t.events = e.events /\ t.lost = e.lost /\ t.mode = e.mode
          /\ t.command = e.command /\ t.base = e.base /\ t.version = e.version
    BY CountedFacts
  <2>4. save' = [save EXCEPT ![h] = t]
    <3>1. save' = [save EXCEPT ![h] = Counted(Ended(h, heard))]
      BY Zenon DEF Commit
    <3> QED BY <2>2, <2>3, <3>1
  <2>5. t.lost = (save[h].lost \/ ~heard)
    BY <2>2, <2>3, Zenon
  <2>6. /\ t.step = (IF heard THEN "committed" ELSE "failed") /\ t.answer = a
        /\ t.events = (IF heard THEN 0 ELSE save[h].events) /\ t.writes = save[h].writes + 1
        /\ t.mode = save[h].mode /\ t.command = save[h].command /\ t.base = save[h].base
        /\ t.version = save[h].version
    BY <2>2, <2>3, Zenon
  <2> QED BY <2>4, <2>5, <2>6, Zenon
<1>6. /\ row' = save[h].version /\ lock' = NoHandler /\ UNCHANGED onBus
      /\ wrote' = [wrote EXCEPT ![h] = row]
      /\ stored' = IF save[h].events > 0 THEN stored \cup {h} ELSE stored
  BY DEF Commit
<1>7. wrote'[h] = row /\ row # -1
  BY <1>1, <1>6 DEF WriteInv, SharedOK
<1>9. lock = h /\ Matches(save[h].version)
  BY <1>2 DEF WriteInv, RowLocked, HasLock
<1>15. wrote[h] = -1 /\ save[h].writes = 0 /\ save[h].version >= row
  BY <1>2, <1>9, FirstWrite
<1>8. h \notin stored /\ h \notin onBus /\ save[h].events = Raises(save[h].command) /\ ~save[h].lost
  BY <1>1, <1>2, <1>15 DEF SaveOK, Aggregate, Effects
<1>10. Raises(t.command) = 1 => row = t.base
  BY <1>2, <1>4, <1>9, MatchIsBase
<1>11. SaveOK(t, wrote'[h], h \in stored', h \in onBus')
  <2>1. AnswerFits(t)
    BY <1>2, <1>3, <1>4 DEF AnswerFits
  <2>2. Aggregate(t)
    BY <1>1, <1>2, <1>4 DEF SaveOK, Aggregate
  <2>3. h \in stored' <=> Raises(t.command) > 0
    BY <1>4, <1>6, <1>8
  <2>4. t.mode = "uow" /\ t.step # "idle" /\ (t.step = "committed" \/ t.lost) /\ h \notin onBus'
    BY <1>2, <1>4, <1>6, <1>8
  <2>5. Effects(t, wrote'[h], h \in stored', h \in onBus')
    BY <1>7, <1>10, <2>3, <2>4 DEF Effects
  <2> QED BY <2>1, <2>2, <2>5 DEF SaveOK
<1>12. RowLocked'
  <2>1. \A g \in Handlers : save'[g] = IF g = h THEN t ELSE save[g]
    BY <1>4 DEF WriteInv
  <2>2. ~HasLock(t)
    BY <1>4 DEF HasLock
  <2>3. \A g \in Handlers : g # h => ~HasLock(save[g])
    BY <1>9 DEF WriteInv, RowLocked
  <2> QED BY <1>6, <2>1, <2>2, <2>3, WriteAssumption DEF RowLocked, WriteAssumption
<1>16. save[h].version \in Nat
  BY <1>1, SaveFields
<1>13. SharedOK' /\ OthersKeep(h)
  BY <1>1, <1>6, <1>16 DEF WriteInv, SharedOK, OthersKeep
<1>14. h \in activeTransactions' => t.mode = "uow" /\ t.answer \in {"waiting", "timeout"}
  BY <1>2, <1>3, <1>4
<1>17. Applied(t, wrote'[h], row') /\ row' >= row
  BY <1>4, <1>6, <1>7, <1>15, <1>16 DEF Applied
<1> QED BY <1>3, <1>4, <1>11, <1>12, <1>13, <1>14, <1>17, HandlerStep

\* Only a unit of work registers a context.
LEMMA DirectHasNoContext ==
  ASSUME WriteInv, NEW h \in Handlers, save[h].mode # "uow" \/ save[h].answer = "error"
  PROVE  h \notin activeTransactions
  BY DEF WriteInv, ContextsKnown

\* Without a unit of work the row is committed on its own.
LEMMA PersistAloneKeepsInv ==
  ASSUME WriteInv, NEW h \in Handlers, NEW heard \in BOOLEAN, PersistAlone(h, heard)
  PROVE  WriteInv'
<1>1. save[h] \in Save /\ SaveOK(save[h], wrote[h], h \in stored, h \in onBus) /\ row \in Nat
  BY SaveFacts
<1>2. /\ save[h].step = "loaded" /\ save[h].mode # "uow" /\ lock = NoHandler
      /\ Matches(save[h].version) /\ row' = save[h].version /\ wrote' = [wrote EXCEPT ![h] = row]
      /\ UNCHANGED <<stored, onBus, lock, activeTransactions>>
  BY DEF PersistAlone
<1>3. PICK t \in Save :
        /\ save' = [save EXCEPT ![h] = t]
        /\ t.step = (IF heard THEN "persisted" ELSE "failed")
        /\ t.answer = (IF heard THEN "waiting" ELSE "error")
        /\ t.lost = (save[h].lost \/ ~heard) /\ t.writes = save[h].writes + 1
        /\ t.mode = save[h].mode /\ t.command = save[h].command /\ t.base = save[h].base
        /\ t.version = save[h].version /\ t.events = save[h].events
  <2>1. PICK step, answer, gone :
          /\ step = (IF heard THEN "persisted" ELSE "failed")
          /\ answer = (IF heard THEN "waiting" ELSE "error")
          /\ gone = (save[h].lost \/ ~heard)
    OBVIOUS
  <2>2. step \in Steps /\ answer \in Answers /\ gone \in BOOLEAN
    BY <1>1, <2>1, SaveFields DEF Steps, Answers
  <2>3. PICK e : e = [save[h] EXCEPT !.step = step, !.answer = answer, !.lost = gone]
    OBVIOUS
  <2>4. e \in Save
    BY <1>1, <2>2, <2>3 DEF Save
  <2>5. /\ e.step = step /\ e.answer = answer /\ e.lost = gone /\ e.writes = save[h].writes
        /\ e.mode = save[h].mode /\ e.command = save[h].command /\ e.base = save[h].base
        /\ e.version = save[h].version /\ e.events = save[h].events
    BY <1>1, <2>3 DEF Save
  <2>6. e = Begun(h, heard)
    BY <1>1, <2>1, <2>3 DEF Begun, Save
  <2>7. PICK t \in Save :
          /\ t = Counted(e)
          /\ t.writes = e.writes + 1 /\ t.step = e.step /\ t.answer = e.answer
          /\ t.events = e.events /\ t.lost = e.lost /\ t.mode = e.mode
          /\ t.command = e.command /\ t.base = e.base /\ t.version = e.version
    BY <2>4, CountedFacts
  <2>8. save' = [save EXCEPT ![h] = t]
    BY <2>6, <2>7 DEF PersistAlone
  <2> QED BY <2>1, <2>5, <2>7, <2>8
<1>6. wrote'[h] = row /\ row # -1
  BY <1>1, <1>2 DEF WriteInv, SharedOK
<1>7. Raises(t.command) = 1 => row = t.base
  BY <1>2, <1>3, MatchIsBase
<1>12. wrote[h] = -1 /\ save[h].writes = 0 /\ save[h].version >= row
  BY <1>2, FirstWrite
<1>13. h \notin stored' /\ h \notin onBus'
  BY <1>1, <1>2, <1>12 DEF SaveOK, Effects
<1>8. SaveOK(t, wrote'[h], h \in stored', h \in onBus')
  <2>1. AnswerFits(t)
    BY <1>2, <1>3 DEF AnswerFits
  <2>2. Aggregate(t)
    BY <1>1, <1>2, <1>3 DEF SaveOK, Aggregate
  <2>3. Effects(t, wrote'[h], h \in stored', h \in onBus')
    BY <1>2, <1>3, <1>6, <1>7, <1>13 DEF Effects
  <2> QED BY <2>1, <2>2, <2>3 DEF SaveOK
<1>9. RowLocked'
  <2>1. \A g \in Handlers : save'[g] = IF g = h THEN t ELSE save[g]
    BY <1>3 DEF WriteInv
  <2>2. ~HasLock(t)
    BY <1>2, <1>3 DEF HasLock
  <2>3. \A g \in Handlers : ~HasLock(save[g])
    BY <1>2, WriteAssumption DEF WriteInv, RowLocked, WriteAssumption
  <2> QED BY <1>2, <2>1, <2>2, <2>3, WriteAssumption DEF RowLocked, WriteAssumption
<1>14. save[h].version \in Nat
  BY <1>1, SaveFields
<1>10. SharedOK' /\ OthersKeep(h)
  BY <1>1, <1>2, <1>14 DEF WriteInv, SharedOK, OthersKeep
<1>11. h \notin activeTransactions'
  BY <1>2, DirectHasNoContext
<1>15. Applied(t, wrote'[h], row') /\ row' >= row
  BY <1>1, <1>2, <1>3, <1>6, <1>12, <1>14 DEF Applied
<1> QED BY <1>2, <1>3, <1>8, <1>9, <1>10, <1>11, <1>15, HandlerStep

\* Then its events go to the outbox table or to the bus.
LEMMA EventsAloneKeepInv ==
  ASSUME WriteInv, NEW h \in Handlers, NEW heard \in BOOLEAN,
         AddEventsAlone(h, heard) \/ (PublishEvents(h) /\ heard)
  PROVE  WriteInv'
<1>1. /\ save[h] \in Save /\ SaveOK(save[h], wrote[h], h \in stored, h \in onBus)
      /\ row \in Nat /\ Applied(save[h], wrote[h], row)
  BY SaveFacts
<1>2. /\ save[h].step = "persisted" /\ save[h].mode # "uow"
      /\ save' = [save EXCEPT ![h] = Ended(h, heard)]
      /\ UNCHANGED <<row, wrote, lock, activeTransactions>>
  BY DEF AddEventsAlone, PublishEvents
<1>3. PICK a : a = IF heard THEN "ok" ELSE "error"
  OBVIOUS
<1>4. save[h].answer = "waiting" /\ a \in Answers /\ a = Answered(h, IF heard THEN "ok" ELSE "error")
  <2>1. save[h].answer = "waiting"
    BY <1>1, <1>2 DEF SaveOK, AnswerFits
  <2> QED BY <1>3, <2>1 DEF Answers, Answered
<1>5. PICK t \in Save :
        /\ t = Ended(h, heard)
        /\ t.step = (IF heard THEN "committed" ELSE "failed") /\ t.answer = a
        /\ t.events = (IF heard THEN 0 ELSE save[h].events)
        /\ t.lost = (save[h].lost \/ ~heard) /\ t.writes = save[h].writes
        /\ t.mode = save[h].mode /\ t.command = save[h].command
        /\ t.base = save[h].base /\ t.version = save[h].version
  BY <1>1, <1>4, EndedFacts
<1>6. save' = [save EXCEPT ![h] = t]
  BY <1>2, <1>5
<1>7. save[h].events = Raises(save[h].command) /\ wrote[h] # -1 /\ wrote'[h] = wrote[h]
  BY <1>1, <1>2 DEF SaveOK, Aggregate, Effects
<1>8. /\ stored \subseteq stored' /\ onBus \subseteq onBus' /\ stored' \subseteq stored \cup {h}
      /\ onBus' \subseteq onBus \cup {h}
      /\ Raises(t.command) > 0 => IF t.mode = "direct" THEN h \in onBus' ELSE h \in stored'
  BY <1>2, <1>5, <1>7 DEF AddEventsAlone, PublishEvents
<1>9. SaveOK(t, wrote'[h], h \in stored', h \in onBus')
  <2>1. AnswerFits(t)
    BY <1>2, <1>3, <1>5 DEF AnswerFits
  <2>2. Aggregate(t)
    BY <1>1, <1>2, <1>5 DEF SaveOK, Aggregate
  <2>3. Raises(t.command) = 1 => wrote'[h] = t.base
    BY <1>1, <1>5, <1>7 DEF SaveOK, Effects
  <2>4. t.step = "committed" \/ t.lost
    BY <1>5
  <2>5. t.step # "idle" /\ t.mode # "uow" /\ (t.step \in {"loaded", "failed"} => t.lost)
    BY <1>2, <1>5
  <2>6. Effects(t, wrote'[h], h \in stored', h \in onBus')
    BY <1>7, <1>8, <2>3, <2>4, <2>5 DEF Effects
  <2> QED BY <2>1, <2>2, <2>6 DEF SaveOK
<1>10. RowLocked'
  <2>1. \A g \in Handlers : save'[g] = IF g = h THEN t ELSE save[g]
    BY <1>6 DEF WriteInv
  <2>2. ~HasLock(t) /\ ~HasLock(save[h])
    BY <1>2, <1>5 DEF HasLock
  <2> QED BY <1>2, <2>1, <2>2 DEF WriteInv, RowLocked, Matches
<1>11. SharedOK' /\ OthersKeep(h)
  BY <1>2, <1>8 DEF WriteInv, SharedOK, OthersKeep
<1>12. h \notin activeTransactions'
  BY <1>2, DirectHasNoContext
<1>13. Applied(t, wrote'[h], row') /\ row' >= row
  BY <1>1, <1>2, <1>5, <1>7, AppliedStays
<1> QED BY <1>2, <1>6, <1>9, <1>10, <1>11, <1>12, <1>13, HandlerStep

\* A failed save without a unit of work keeps its events, so it can be repeated.
LEMMA AloneErrorKeepsInv ==
  ASSUME WriteInv, NEW h \in Handlers, PersistAloneRejected(h) \/ EventsRejected(h)
  PROVE  WriteInv'
<1>1. save[h] \in Save /\ SaveOK(save[h], wrote[h], h \in stored, h \in onBus)
  BY SaveFacts
<1>2. /\ save[h].step = "loaded" \/ (save[h].step = "persisted" /\ save[h].events > 0)
      /\ save[h].mode # "uow"
      /\ UNCHANGED <<row, stored, onBus, wrote, lock, activeTransactions>>
  BY DEF PersistAloneRejected, EventsRejected
<1>3. "failed" \in Steps /\ "error" \in Answers
  BY DEF Steps, Answers
<1>4. PICK t : Moved(save[h], t, "failed", "error")
  BY <1>1, <1>3, MovedFacts
<1>5. save' = [save EXCEPT ![h] = t]
  BY <1>4 DEF PersistAloneRejected, EventsRejected, Moved, WriteInv
<1>6. SaveOK(t, wrote[h], h \in stored, h \in onBus)
  <2>1. AnswerFits(t)
    BY <1>2, <1>4 DEF AnswerFits, Moved
  <2>2. Aggregate(t)
    BY <1>1, <1>2, <1>4 DEF SaveOK, Aggregate, Moved
  <2>4. save[h].step = "persisted" => Raises(save[h].command) > 0
    BY <1>1, <1>2 DEF SaveOK, Aggregate
  <2>3. Effects(t, wrote[h], h \in stored, h \in onBus)
    BY <1>1, <1>2, <1>4, <2>4 DEF SaveOK, Effects, Moved
  <2> QED BY <2>1, <2>2, <2>3 DEF SaveOK
<1>7. h \notin activeTransactions' /\ t \in Save /\ ~HasLock(t) /\ ~HasLock(save[h])
  BY <1>2, <1>4, DirectHasNoContext DEF Moved, HasLock
<1>8. Applied(t, wrote[h], row)
  BY <1>4, SaveFacts, AppliedStays DEF Moved
<1> QED BY <1>2, <1>5, <1>6, <1>7, <1>8, QuietStep

\* The same aggregate is saved once more.
LEMMA SaveAgainKeepsInv ==
  ASSUME WriteInv, NEW h \in Handlers, SaveAgain(h)
  PROVE  WriteInv'
<1>1. save[h] \in Save /\ SaveOK(save[h], wrote[h], h \in stored, h \in onBus)
  BY SaveFacts
<1>2. /\ save[h].step = "failed" /\ save[h].answer = "error"
      /\ UNCHANGED <<row, stored, onBus, wrote, lock, activeTransactions>>
  BY DEF SaveAgain
<1>3. PICK t : t = [save[h] EXCEPT !.step = "loaded", !.answer = "none", !.retries = save[h].retries + 1]
  OBVIOUS
<1>4. save' = [save EXCEPT ![h] = t]
  BY <1>1, <1>3 DEF SaveAgain, Save
<1>5. /\ t \in Save /\ t.step = "loaded" /\ t.answer = "none" /\ t.mode = save[h].mode
      /\ t.command = save[h].command /\ t.base = save[h].base /\ t.version = save[h].version
      /\ t.events = save[h].events /\ t.lost = save[h].lost /\ t.writes = save[h].writes
  <2>1. save[h].retries + 1 \in Nat
    BY <1>1, SaveFields
  <2> QED BY <1>1, <1>3, <2>1 DEF Save, Steps, Answers
<1>6. SaveOK(t, wrote[h], h \in stored, h \in onBus)
  <2>1. AnswerFits(t)
    BY <1>5 DEF AnswerFits
  <2>2. Aggregate(t)
    BY <1>1, <1>2, <1>5 DEF SaveOK, Aggregate
  <2>3. Effects(t, wrote[h], h \in stored, h \in onBus)
    BY <1>1, <1>2, <1>5 DEF SaveOK, Effects
  <2> QED BY <2>1, <2>2, <2>3 DEF SaveOK
<1>7. h \notin activeTransactions' /\ ~HasLock(t) /\ ~HasLock(save[h])
  BY <1>2, <1>5, DirectHasNoContext DEF HasLock
<1>8. Applied(t, wrote[h], row)
  BY <1>5, SaveFacts, AppliedStays
<1> QED BY <1>2, <1>4, <1>5, <1>6, <1>7, <1>8, QuietStep

\* Each step of a handler, its transaction and its timer keeps the invariant.
LEMMA WriteInvStep == WriteInv /\ [WriteNext]_writeVars => WriteInv'
<1> SUFFICES ASSUME WriteInv, [WriteNext]_writeVars PROVE WriteInv'
  OBVIOUS
<1>1. ASSUME NEW h \in Handlers, Load(h) PROVE WriteInv'
  BY <1>1, LoadKeepsInv
<1>2. ASSUME NEW h \in Handlers, RunInTransaction(h) \/ TransactionOpens(h) \/ Timeout(h)
      PROVE  WriteInv'
  BY <1>2, WaitingKeepsInv
<1>3. ASSUME NEW h \in Handlers, PersistInTransaction(h) \/ AddEvents(h) PROVE WriteInv'
  BY <1>3, PersistKeepsInv, AddEventsKeepsInv
<1>9. ASSUME NEW h \in Handlers, NEW heard \in BOOLEAN, Commit(h, heard) PROVE WriteInv'
  BY <1>9, CommitKeepsInv
<1>4. ASSUME NEW h \in Handlers, PersistRejected(h) \/ AddEventsRejected(h) \/ CommitRejected(h)
      PROVE  WriteInv'
  BY <1>4, RollBackKeepsInv
<1>5. ASSUME NEW h \in Handlers, NEW heard \in BOOLEAN,
             PersistAlone(h, heard) \/ AddEventsAlone(h, heard)
      PROVE  WriteInv'
  BY <1>5, PersistAloneKeepsInv, EventsAloneKeepInv
<1>10. ASSUME NEW h \in Handlers, PublishEvents(h) PROVE WriteInv'
  BY <1>10, EventsAloneKeepInv
<1>6. ASSUME NEW h \in Handlers, PersistAloneRejected(h) \/ EventsRejected(h) PROVE WriteInv'
  BY <1>6, AloneErrorKeepsInv
<1>7. ASSUME NEW h \in Handlers, SaveAgain(h) PROVE WriteInv'
  BY <1>7, SaveAgainKeepsInv
<1>8. CASE UNCHANGED writeVars
  <2>1. SharedOK' /\ RowLocked' /\ ContextsKnown'
    BY <1>8 DEF writeVars, WriteInv, SharedOK, RowLocked, ContextsKnown, Matches
  <2> QED BY <1>8, <2>1 DEF writeVars, WriteInv
<1> QED BY <1>1, <1>2, <1>3, <1>4, <1>5, <1>6, <1>7, <1>8, <1>9, <1>10 DEF WriteNext

\* The invariant of saving an aggregate holds in every reachable state.
LEMMA WriteInvAlways == WriteSpec => []WriteInv
  BY WriteInvInit, WriteInvStep, PTL DEF WriteSpec

\* However handlers, timers and transactions interleave, what a handler is told about
\* its save is what the database holds (DrizzleUnitOfWork.runInTransaction,
\* BaseAggregateRepository.save).
THEOREM AnswersAreTrue == WriteSpec => []AnswerTellsOutcome
<1>1. WriteInv => AnswerTellsOutcome
  <2> SUFFICES ASSUME WriteInv PROVE AnswerTellsOutcome
    OBVIOUS
  <2>1. ASSUME NEW h \in Handlers
        PROVE  /\ save[h].mode \in {"uow", "outbox", "direct"}
               /\ Effects(save[h], wrote[h], h \in stored, h \in onBus)
               /\ save[h].answer = "ok" => save[h].step = "committed"
               /\ save[h].answer = "error" => save[h].step = "failed"
               /\ save[h].writes <= 1
    <3>1. /\ save[h] \in Save /\ SaveOK(save[h], wrote[h], h \in stored, h \in onBus)
          /\ Applied(save[h], wrote[h], row)
      BY SaveFacts
    <3>2. save[h].mode \in Modes /\ save[h].step \in Steps
      BY <3>1, SaveFields
    <3>3. save[h].writes <= 1
      BY <3>1 DEF Applied
    <3> QED BY <3>1, <3>2, <3>3 DEF SaveOK, AnswerFits, Modes, Steps
  <2>2. OkMeansSaved
    BY <2>1 DEF OkMeansSaved, Effects
  <2>3. UowAtomic
    <3> SUFFICES ASSUME NEW h \in Handlers, save[h].mode = "uow", Raises(save[h].command) > 0
                 PROVE  (wrote[h] # -1) = (h \in stored)
      BY DEF UowAtomic
    <3>1. wrote[h] # -1 <=> h \in stored
      BY <2>1 DEF Effects
    <3> QED BY <3>1
  <2>4. EventsHaveTheirRow
    BY <2>1 DEF EventsHaveTheirRow, Effects
  <2>5. ErrorAfterWriteExplained
    BY <2>1 DEF ErrorAfterWriteExplained, Effects
  <2>6. SaveAppliedOnce
    BY <2>1 DEF SaveAppliedOnce
  <2>7. LeakNeedsTimeout
    BY DEF WriteInv, ContextsKnown, LeakNeedsTimeout
  <2> QED BY <2>2, <2>3, <2>4, <2>5, <2>6, <2>7 DEF AnswerTellsOutcome
<1> QED BY <1>1, WriteInvAlways, PTL

\* A command that raised one event overwrites the version it loaded and no other
\* (the version check of persist()).
THEOREM SingleEventsSeeLatest == WriteSpec => []SingleEventSeesLatest
<1>1. WriteInv => SingleEventSeesLatest
  BY SaveFacts DEF SingleEventSeesLatest, SaveOK, Effects
<1> QED BY <1>1, WriteInvAlways, PTL

-----------------------------------------------------------------------------
(* Idempotent deliveries (Deduplication) *)

DedupTypeOK ==
  /\ store \in {"none", "claimed", "result"} /\ redis \in BOOLEAN
  /\ path \in [Deliveries -> {"webhook", "port", "command"}]
  /\ progress \in [Deliveries -> {"new", "working", "worked", "done"}]
  /\ work \subseteq Deliveries
  /\ replied \in [Deliveries ->
       {"none", "dropped", "placeholder", "cached", "duplicate", "result", "error"}]
  /\ lost \in BOOLEAN /\ overlap \in BOOLEAN

\* A delivery is answered at its end; its work is done between its start and that,
\* and a webhook ends with it.
ProgressFits ==
  \A d \in Deliveries :
    /\ replied[d] # "none" => progress[d] = "done"
    /\ progress[d] = "new" => d \notin work
    /\ progress[d] = "working" => d \notin work
    /\ progress[d] = "worked" => d \in work /\ path[d] # "webhook"
    /\ d \in work /\ path[d] = "webhook" => replied[d] = "result"

\* A webhook that got through claim().
Through(d) == path[d] = "webhook" /\ (progress[d] = "working" \/ d \in work)

\* As long as its entry stands, one webhook is through.
OneIsThrough ==
  ~lost =>
    /\ \A d \in Deliveries : Through(d) => store # "none"
    /\ \A d, e \in Deliveries : Through(d) /\ Through(e) => d = e

\* What is in the store was put there by a webhook's claim or after work.
StoreHasSource ==
  /\ store = "result" => work # {}
  /\ store = "claimed" => \E d \in Deliveries : path[d] = "webhook"

\* Between check() and store().
Between(d) == path[d] # "webhook" /\ progress[d] \in {"working", "worked"}
Worked(d) == path[d] # "webhook" /\ d \in work
DiedAtWork == \E d \in work : replied[d] = "error"

\* Work that has ended is in the store, but for a loss or a crash before store().
WorkIsStored ==
  ~lost => \A d \in Deliveries :
             Worked(d) => progress[d] = "worked" \/ replied[d] = "error" \/ store # "none"

\* Without a cause one delivery is between check() and store(), and none is once
\* another has worked.
OneIsBetween ==
  ~lost /\ ~overlap /\ ~DiedAtWork =>
    \A d, e \in Deliveries :
      (Between(d) \/ Worked(d)) /\ (Between(e) \/ Worked(e)) => d = e

DedupInv ==
  /\ DedupTypeOK
  /\ ProgressFits
  /\ OneIsThrough
  /\ StoreHasSource
  /\ WorkIsStored
  /\ OneIsBetween
  /\ CachedWasProduced

\* Elements that are all the same are at most one.
LEMMA AtMostOne ==
  ASSUME NEW S, \A x, y \in S : x = y
  PROVE  Cardinality(S) \in Nat /\ Cardinality(S) <= 1
<1>1. CASE S = {}
  BY <1>1, FS_EmptySet
<1>2. CASE S # {}
  <2>1. PICK x : S = {x}
    BY <1>2
  <2>2. Cardinality({x}) = 1
    BY FS_Singleton
  <2> QED BY <2>1, <2>2
<1> QED BY <1>1, <1>2

\* No delivery has come in.
LEMMA DedupInvInit == DedupInit => DedupInv
<1> SUFFICES ASSUME DedupInit PROVE DedupInv
  OBVIOUS
<1>1. DedupTypeOK
  BY DEF DedupInit, DedupTypeOK
<1>2. \A d \in Deliveries : progress[d] = "new" /\ replied[d] = "none" /\ d \notin work
  BY DEF DedupInit
<1>3. store = "none" /\ work = {}
  BY DEF DedupInit
<1> QED BY <1>1, <1>2, <1>3 DEF DedupInv, ProgressFits, OneIsThrough, Through, StoreHasSource,
        WorkIsStored, OneIsBetween, Between, Worked, CachedWasProduced

\* A delivery d goes from one stage to the next: the others stay, and what is
\* answered is answered at the end.
Goes(d, to, a) ==
  /\ progress[d] # "done"
  /\ UNCHANGED <<redis, path>>
  /\ progress' \in [Deliveries -> {"new", "working", "worked", "done"}]
  /\ replied' \in [Deliveries ->
       {"none", "dropped", "placeholder", "cached", "duplicate", "result", "error"}]
  /\ progress'[d] = to /\ replied'[d] = a
  /\ \A e \in Deliveries : e # d => progress'[e] = progress[e] /\ replied'[e] = replied[e]

\* claim() of a webhook.
LEMMA ClaimKeepsInv ==
  ASSUME DedupInv, NEW d \in Deliveries, ClaimWins(d) \/ ClaimLost(d) \/ ClaimFails(d)
  PROVE  DedupInv'
<1>1. progress[d] = "new" /\ path[d] = "webhook" /\ d \notin work /\ replied[d] = "none"
  BY DEF ClaimWins, ClaimLost, ClaimFails, DedupInv, ProgressFits
<1>2. CASE ClaimWins(d)
  <2>1. /\ Goes(d, "working", "none") /\ store = "none" /\ store' = "claimed"
        /\ UNCHANGED <<work, lost, overlap>>
    BY <1>1, <1>2 DEF ClaimWins, Goes, DedupInv, DedupTypeOK
  <2>2. DedupTypeOK'
    BY <2>1 DEF DedupInv, DedupTypeOK, Goes
  <2>3. ProgressFits'
    BY <1>1, <2>1 DEF DedupInv, ProgressFits, Goes
  <2>4. OneIsThrough'
    BY <1>1, <2>1 DEF DedupInv, OneIsThrough, Through, Goes
  <2>5. StoreHasSource'
    BY <1>1, <2>1 DEF StoreHasSource, Goes
  <2>6. WorkIsStored'
    BY <1>1, <2>1 DEF WorkIsStored, Worked, Goes
  <2>7. OneIsBetween' /\ CachedWasProduced'
    BY <1>1, <2>1 DEF DedupInv, OneIsBetween, Between, Worked, DiedAtWork, CachedWasProduced, Goes,
       DedupTypeOK
  <2> QED BY <2>2, <2>3, <2>4, <2>5, <2>6, <2>7 DEF DedupInv
<1>3. CASE ClaimLost(d) \/ ClaimFails(d)
  <2>1. /\ Goes(d, "done", "dropped") /\ UNCHANGED <<store, work, overlap>>
        /\ lost' \in BOOLEAN /\ (lost => lost')
    BY <1>1, <1>3 DEF ClaimLost, ClaimFails, FinishDelivery, Goes, DedupInv, DedupTypeOK
  <2>2. DedupTypeOK'
    BY <2>1 DEF DedupInv, DedupTypeOK, Goes
  <2>3. ProgressFits'
    BY <1>1, <2>1 DEF DedupInv, ProgressFits, Goes
  <2>4. OneIsThrough'
    BY <1>1, <2>1 DEF DedupInv, OneIsThrough, Through, Goes
  <2>5. StoreHasSource'
    BY <2>1 DEF DedupInv, StoreHasSource, Goes
  <2>6. WorkIsStored'
    BY <1>1, <2>1 DEF DedupInv, WorkIsStored, Worked, Goes
  <2>7. OneIsBetween' /\ CachedWasProduced'
    BY <1>1, <2>1 DEF DedupInv, OneIsBetween, Between, Worked, DiedAtWork, CachedWasProduced, Goes,
       DedupTypeOK
  <2> QED BY <2>2, <2>3, <2>4, <2>5, <2>6, <2>7 DEF DedupInv
<1> QED BY <1>2, <1>3

\* check() and getExisting().
LEMMA CheckHitsKeepsInv ==
  ASSUME DedupInv, NEW d \in Deliveries, CheckHits(d)
  PROVE  DedupInv'
<1>1. /\ progress[d] = "new" /\ path[d] # "webhook" /\ d \notin work /\ replied[d] = "none"
      /\ store # "none" /\ store \in {"none", "claimed", "result"}
  BY DEF CheckHits, DedupInv, ProgressFits, DedupTypeOK
<1>2. PICK a \in {"placeholder", "cached", "duplicate"} :
        /\ FinishDelivery(d, a)
        /\ a = "placeholder" => store = "claimed"
        /\ a = "cached" => store = "result"
  BY <1>1 DEF CheckHits
<1>3. Goes(d, "done", a) /\ UNCHANGED <<store, work, overlap, lost>>
  BY <1>1, <1>2 DEF CheckHits, FinishDelivery, Goes, DedupInv, DedupTypeOK
<1>4. DedupTypeOK'
  BY <1>3 DEF DedupInv, DedupTypeOK, Goes
<1>5. ProgressFits'
  BY <1>1, <1>3 DEF DedupInv, ProgressFits, Goes
<1>6. OneIsThrough' /\ StoreHasSource'
  BY <1>1, <1>3 DEF DedupInv, OneIsThrough, Through, StoreHasSource, Goes
<1>7. WorkIsStored'
  BY <1>1, <1>3 DEF DedupInv, WorkIsStored, Worked, Goes
<1>8. OneIsBetween'
  BY <1>1, <1>3 DEF DedupInv, OneIsBetween, Between, Worked, DiedAtWork, Goes, DedupTypeOK
<1>9. CachedWasProduced'
  BY <1>1, <1>2, <1>3 DEF DedupInv, CachedWasProduced, StoreHasSource, Goes
<1> QED BY <1>4, <1>5, <1>6, <1>7, <1>8, <1>9 DEF DedupInv

\* A miss lets a delivery through to the work; if somebody is at it, or the entry
\* was there, that is noted.
LEMMA CheckMissesKeepsInv ==
  ASSUME DedupInv, NEW d \in Deliveries, CheckMisses(d)
  PROVE  DedupInv'
<1>1. progress[d] = "new" /\ path[d] # "webhook" /\ d \notin work /\ replied[d] = "none"
  BY DEF CheckMisses, DedupInv, ProgressFits
<1>2. Goes(d, "working", "none") /\ UNCHANGED <<store, work>>
  BY <1>1 DEF CheckMisses, Goes, DedupInv, DedupTypeOK
<1>3. lost' \in BOOLEAN /\ (~lost' => ~lost /\ store = "none")
  BY DEF CheckMisses, DedupInv, DedupTypeOK
<1>4. /\ overlap' \in BOOLEAN
      /\ ~overlap' => ~overlap /\ \A e \in Deliveries : progress[e] \notin {"working", "worked"}
  BY DEF CheckMisses, DedupInv, DedupTypeOK
<1>5. DedupTypeOK'
  BY <1>2, <1>3, <1>4 DEF DedupInv, DedupTypeOK, Goes
<1>6. ProgressFits'
  BY <1>1, <1>2 DEF DedupInv, ProgressFits, Goes
<1>7. OneIsThrough' /\ StoreHasSource'
  BY <1>1, <1>2, <1>3 DEF DedupInv, OneIsThrough, Through, StoreHasSource, Goes
<1>8. WorkIsStored'
  BY <1>1, <1>2, <1>3 DEF DedupInv, WorkIsStored, Worked, Goes
<1>9. OneIsBetween'
  <2> SUFFICES ASSUME ~lost', ~overlap', ~DiedAtWork' PROVE OneIsBetween'
    BY DEF OneIsBetween
  <2>1. ~DiedAtWork
    BY <1>1, <1>2 DEF DiedAtWork, Goes, DedupInv, DedupTypeOK
  <2>2. \A e \in Deliveries : ~Between(e)
    BY <1>4 DEF Between
  <2>3. \A e \in Deliveries : ~Worked(e)
    BY <1>3, <1>4, <2>1 DEF DedupInv, WorkIsStored, Worked, DiedAtWork
  <2>4. \A e \in Deliveries : e # d => ~Between(e)' /\ ~Worked(e)'
    BY <1>2, <2>2, <2>3 DEF Between, Worked, Goes
  <2> QED BY <2>4 DEF OneIsBetween
<1>10. CachedWasProduced'
  BY <1>1, <1>2 DEF DedupInv, CachedWasProduced, Goes
<1> QED BY <1>5, <1>6, <1>7, <1>8, <1>9, <1>10 DEF DedupInv

\* The work is done downstream.
LEMMA WorksKeepsInv ==
  ASSUME DedupInv, NEW d \in Deliveries, Works(d)
  PROVE  DedupInv'
<1>1. progress[d] = "working" /\ d \notin work /\ replied[d] = "none"
  BY DEF Works, DedupInv, ProgressFits
<1>2. PICK to \in {"worked", "done"}, a \in {"none", "result"} :
        /\ Goes(d, to, a)
        /\ path[d] = "webhook" => to = "done" /\ a = "result"
        /\ path[d] # "webhook" => to = "worked" /\ a = "none"
  <2>1. CASE path[d] = "webhook"
    <3>1. Goes(d, "done", "result")
      BY <1>1, <2>1 DEF Works, FinishDelivery, Goes, DedupInv, DedupTypeOK
    <3> QED BY <2>1, <3>1
  <2>2. CASE path[d] # "webhook"
    <3>1. Goes(d, "worked", "none")
      BY <1>1, <2>2 DEF Works, Goes, DedupInv, DedupTypeOK
    <3> QED BY <2>2, <3>1
  <2> QED BY <2>1, <2>2
<1>3. work' = work \cup {d} /\ UNCHANGED <<store, lost, overlap>>
  BY DEF Works
<1>4. DedupTypeOK'
  BY <1>2, <1>3 DEF DedupInv, DedupTypeOK, Goes
<1>5. ProgressFits'
  BY <1>1, <1>2, <1>3 DEF DedupInv, ProgressFits, Goes
<1>6. OneIsThrough'
  BY <1>1, <1>2, <1>3 DEF DedupInv, OneIsThrough, Through, Goes
<1>7. StoreHasSource'
  BY <1>2, <1>3 DEF DedupInv, StoreHasSource, Goes
<1>8. WorkIsStored'
  BY <1>1, <1>2, <1>3 DEF DedupInv, WorkIsStored, Worked, Goes
<1>9. OneIsBetween'
  <2> SUFFICES ASSUME ~lost', ~overlap', ~DiedAtWork' PROVE OneIsBetween'
    BY DEF OneIsBetween
  <2>1. ~lost /\ ~overlap /\ ~DiedAtWork
    BY <1>1, <1>2, <1>3 DEF DiedAtWork, Goes, DedupInv, DedupTypeOK
  <2>2. \A e \in Deliveries : (Between(e)' \/ Worked(e)') => Between(e) \/ Worked(e)
    BY <1>1, <1>2, <1>3 DEF Between, Worked, Goes
  <2> QED BY <2>1, <2>2 DEF DedupInv, OneIsBetween
<1>10. CachedWasProduced'
  BY <1>1, <1>2, <1>3 DEF DedupInv, CachedWasProduced, Goes
<1> QED BY <1>4, <1>5, <1>6, <1>7, <1>8, <1>9, <1>10 DEF DedupInv

\* store(), or the end of a delivery without it.
LEMMA EndKeepsInv ==
  ASSUME DedupInv, NEW d \in Deliveries,
         WorkFails(d) \/ Store(d) \/ StoreFails(d) \/ DeliveryCrashes(d)
  PROVE  DedupInv'
<1>1. progress[d] \in {"working", "worked"} /\ replied[d] = "none"
  BY DEF WorkFails, Store, StoreFails, DeliveryCrashes, DedupInv, ProgressFits
<1>2. PICK a \in {"error", "result"} :
        /\ Goes(d, "done", a) /\ UNCHANGED <<work, overlap>>
        /\ lost' \in BOOLEAN /\ (lost => lost')
        /\ store' = store \/ (store' = "result" /\ d \in work)
        /\ a = "result" => progress[d] = "worked" /\ (store' = "result" \/ lost')
  <2>1. CASE WorkFails(d) \/ DeliveryCrashes(d)
    <3>1. Goes(d, "done", "error") /\ UNCHANGED <<work, overlap, lost, store>>
      BY <1>1, <2>1 DEF WorkFails, DeliveryCrashes, FinishDelivery, Goes, DedupInv, DedupTypeOK
    <3>2. lost' \in BOOLEAN
      BY <3>1 DEF DedupInv, DedupTypeOK
    <3> QED BY <3>1, <3>2
  <2>2. CASE Store(d)
    <3>1. /\ Goes(d, "done", "result") /\ UNCHANGED <<work, overlap, lost>>
          /\ store' = "result" /\ progress[d] = "worked"
      BY <1>1, <2>2 DEF Store, FinishDelivery, Goes, DedupInv, DedupTypeOK
    <3>2. lost' \in BOOLEAN /\ d \in work
      BY <3>1 DEF DedupInv, DedupTypeOK, ProgressFits
    <3> QED BY <3>1, <3>2
  <2>3. CASE StoreFails(d)
    <3>1. /\ Goes(d, "done", "result") /\ UNCHANGED <<work, overlap, store>>
          /\ lost' = TRUE /\ progress[d] = "worked"
      BY <1>1, <2>3 DEF StoreFails, FinishDelivery, Goes, DedupInv, DedupTypeOK
    <3> QED BY <3>1
  <2> QED BY <2>1, <2>2, <2>3
<1>3. DedupTypeOK'
  BY <1>2 DEF DedupInv, DedupTypeOK, Goes
<1>4. ProgressFits'
  BY <1>1, <1>2 DEF DedupInv, ProgressFits, Goes
<1>5. OneIsThrough'
  BY <1>1, <1>2 DEF DedupInv, OneIsThrough, Through, Goes
<1>6. StoreHasSource'
  BY <1>2 DEF DedupInv, StoreHasSource, Goes
<1>7. WorkIsStored'
  BY <1>1, <1>2 DEF DedupInv, WorkIsStored, Worked, Goes
<1>8. OneIsBetween'
  <2> SUFFICES ASSUME ~lost', ~overlap', ~DiedAtWork' PROVE OneIsBetween'
    BY DEF OneIsBetween
  <2>1. ~lost /\ ~overlap /\ ~DiedAtWork
    BY <1>1, <1>2 DEF DiedAtWork, Goes, DedupInv, DedupTypeOK
  <2>2. \A e \in Deliveries : (Between(e)' \/ Worked(e)') => Between(e) \/ Worked(e)
    BY <1>1, <1>2 DEF Between, Worked, Goes
  <2> QED BY <2>1, <2>2 DEF DedupInv, OneIsBetween
<1>9. CachedWasProduced'
  BY <1>1, <1>2 DEF DedupInv, CachedWasProduced, Goes
<1> QED BY <1>3, <1>4, <1>5, <1>6, <1>7, <1>8, <1>9 DEF DedupInv

\* Each step of a delivery and of the store keeps the invariant.
LEMMA DedupInvStep == DedupInv /\ [DedupNext]_dedupVars => DedupInv'
<1> SUFFICES ASSUME DedupInv, [DedupNext]_dedupVars PROVE DedupInv'
  OBVIOUS
<1>1. ASSUME NEW d \in Deliveries, ClaimWins(d) \/ ClaimLost(d) \/ ClaimFails(d) PROVE DedupInv'
  BY <1>1, ClaimKeepsInv
<1>2. ASSUME NEW d \in Deliveries, CheckHits(d) \/ CheckMisses(d) PROVE DedupInv'
  BY <1>2, CheckHitsKeepsInv, CheckMissesKeepsInv
<1>3. ASSUME NEW d \in Deliveries, Works(d) PROVE DedupInv'
  BY <1>3, WorksKeepsInv
<1>4. ASSUME NEW d \in Deliveries,
             WorkFails(d) \/ Store(d) \/ StoreFails(d) \/ DeliveryCrashes(d)
      PROVE  DedupInv'
  BY <1>4, EndKeepsInv
<1>5. CASE EntryGone
  <2>1. /\ store' = "none" /\ lost' = TRUE
        /\ UNCHANGED <<redis, path, progress, work, replied, overlap>>
    BY <1>5 DEF EntryGone
  <2> QED BY <2>1 DEF DedupInv, DedupTypeOK, ProgressFits, OneIsThrough, StoreHasSource,
          WorkIsStored, OneIsBetween, CachedWasProduced
<1>6. CASE UNCHANGED dedupVars
  BY <1>6 DEF dedupVars, DedupInv, DedupTypeOK, ProgressFits, OneIsThrough, Through,
     StoreHasSource, WorkIsStored, Worked, OneIsBetween, Between, DiedAtWork, CachedWasProduced
<1> QED BY <1>1, <1>2, <1>3, <1>4, <1>5, <1>6 DEF DedupNext

\* However deliveries of one message overlap and repeat, whatever the store loses and
\* whichever process dies, the message is worked on twice only for a cause the
\* property names, and what is served from the store is real
\* (InboundIdempotencyService.claim, check and store, @Idempotent).
THEOREM DeliveriesAreDeduplicated == DedupSpec => []WorkedOnce
<1>1. DedupInv => WorkedOnce
  <2> SUFFICES ASSUME DedupInv PROVE WorkedOnce
    OBVIOUS
  <2>1. ClaimedOnce
    <3> SUFFICES ASSUME ~lost PROVE Cardinality({d \in work : path[d] = "webhook"}) <= 1
      BY DEF ClaimedOnce
    <3>1. \A x, y \in {d \in work : path[d] = "webhook"} : x = y
      BY DEF DedupInv, DedupTypeOK, OneIsThrough, Through
    <3> QED BY <3>1, AtMostOne
  <2>2. WorkedTwiceHasCause
    <3> SUFFICES ASSUME ~overlap, ~lost, ~DiedAtWork
                 PROVE  ~(Cardinality({d \in work : path[d] # "webhook"}) > 1)
      BY DEF WorkedTwiceHasCause, DiedAtWork
    <3>1. \A x, y \in {d \in work : path[d] # "webhook"} : x = y
      BY DEF DedupInv, DedupTypeOK, OneIsBetween, Worked
    <3>2. /\ Cardinality({d \in work : path[d] # "webhook"}) \in Nat
          /\ Cardinality({d \in work : path[d] # "webhook"}) <= 1
      BY <3>1, AtMostOne
    <3> QED BY <3>2
  <2> QED BY <2>1, <2>2 DEF DedupInv, WorkedOnce
<1>2. DedupSpec => []DedupInv
  BY DedupInvInit, DedupInvStep, PTL DEF DedupSpec
<1> QED BY <1>1, <1>2, PTL
====
