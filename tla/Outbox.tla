------------------------------- MODULE Outbox -------------------------------
(***************************************************************************)
(* The transactional outbox: BaseAggregateRepository.save in its default   *)
(* implementation (src/libs/shared/database/repositories/base-aggregate.   *)
(* repository.ts), the table behind OutboxRepository, and the              *)
(* OutboxProcessorService of every running instance (src/libs/shared/      *)
(* database/outbox/).  Each repository call is one SQL statement and one   *)
(* step; instances interleave between them.                                *)
(***************************************************************************)
EXTENDS Integers, FiniteSets

CONSTANTS Events,      \* domain events, one per saved aggregate
          Instances,   \* processes that run an OutboxProcessorService
          BatchSize,   \* config.batchSize
          MaxRetries,  \* config.maxRetries
          MaxFaults,   \* bound on crashes and database errors
          NoEvent      \* no entry in hand

ASSUME OutboxAssumption ==
  /\ IsFiniteSet(Events)
  /\ BatchSize \in Nat \ {0} /\ MaxRetries \in Nat \ {0} /\ MaxFaults \in Nat
  /\ NoEvent \notin Events

VARIABLES
  saver,     \* saver[e]: how far save() of e's aggregate got
  table,     \* table[e]: the outbox row of e
  inserted,  \* rows inserted so far: the clock of createdAt
  proc,      \* proc[i]: the processor of instance i
  published, \* history: published[e]: times e reached the event bus
  faults     \* crashes and database errors so far

vars == <<saver, table, inserted, proc, published, faults>>

\* ABSENT: not inserted yet; DELETED: removed by the cleanup job.
Status == {"ABSENT", "PENDING", "PROCESSING", "PROCESSED", "FAILED", "DELETED"}
Row == [status : Status, retryCount : Nat, createdAt : Nat]

\* hand: the entry processEntry is at; batch: the entries still to come.
Processor == [pc : {"idle", "next", "publish", "mark", "fail", "reset"},
              running : BOOLEAN, batch : SUBSET Events, hand : Events \cup {NoEvent}]

TypeOK ==
  /\ saver \in [Events -> {"new", "persisted", "saved", "failed"}]
  /\ table \in [Events -> Row]
  /\ inserted \in Nat
  /\ proc \in [Instances -> Processor]
  /\ published \in [Events -> Nat]
  /\ faults \in 0..MaxFaults

Resting == [pc |-> "idle", running |-> TRUE, batch |-> {}, hand |-> NoEvent]

\* onModuleInit has started every processor.
Init ==
  /\ saver = [e \in Events |-> "new"]
  /\ table = [e \in Events |-> [status |-> "ABSENT", retryCount |-> 0, createdAt |-> 0]]
  /\ inserted = 0
  /\ proc = [i \in Instances |-> Resting]
  /\ published = [e \in Events |-> 0]
  /\ faults = 0

Rows(s) == {e \in Events : table[e].status = s}
SetStatus(e, s) == table' = [table EXCEPT ![e].status = s]
Fault == faults < MaxFaults /\ faults' = faults + 1

-----------------------------------------------------------------------------
(* save() with useOutbox and no transaction given: persist, then addMany *)

Persist(e) ==
  /\ saver[e] = "new"
  /\ saver' = [saver EXCEPT ![e] = "persisted"]
  /\ UNCHANGED <<table, inserted, proc, published, faults>>

AddMany(e) ==
  /\ saver[e] = "persisted"
  /\ saver' = [saver EXCEPT ![e] = "saved"]
  /\ table' = [table EXCEPT ![e] = [status |-> "PENDING", retryCount |-> 0,
                                    createdAt |-> inserted + 1]]
  /\ inserted' = inserted + 1
  /\ UNCHANGED <<proc, published, faults>>

\* The insert fails, or the process dies before it: the aggregate stays as saved.
AddManyFails(e) ==
  /\ saver[e] = "persisted"
  /\ Fault
  /\ saver' = [saver EXCEPT ![e] = "failed"]
  /\ UNCHANGED <<table, inserted, proc, published>>

-----------------------------------------------------------------------------
(* processOutbox *)

\* Is b what getPending(BatchSize) returns: the oldest pending rows?
IsBatch(b) ==
  /\ b \subseteq Rows("PENDING")
  /\ Cardinality(b) <= BatchSize
  /\ Cardinality(b) < BatchSize => b = Rows("PENDING")
  /\ \A e \in b, f \in Rows("PENDING") \ b : table[e].createdAt <= table[f].createdAt

\* The timer fires and isProcessing is false.  Nothing pending: return at once,
\* without resetForRetry.
Poll(i) ==
  /\ proc[i].pc = "idle" /\ proc[i].running
  /\ \E b \in SUBSET Events \ {{}} :
        /\ IsBatch(b)
        /\ proc' = [proc EXCEPT ![i].pc = "next", ![i].batch = b]
  /\ UNCHANGED <<saver, table, inserted, published, faults>>

\* The next entry of the batch, oldest first.
Oldest(b) == {e \in b : \A f \in b : table[e].createdAt <= table[f].createdAt}

\* Mutant: markAsProcessing without the status = 'PENDING' condition.
ClaimAnyway(i) ==
  /\ proc[i].pc = "next"
  /\ \E e \in Oldest(proc[i].batch) :
        /\ SetStatus(e, "PROCESSING")
        /\ proc' = [proc EXCEPT ![i].pc = "publish", ![i].batch = @ \ {e},
                                ![i].hand = e]
  /\ UNCHANGED <<saver, inserted, published, faults>>

\* markAsProcessing: UPDATE ... WHERE status = 'PENDING' took the row.
Claim(i) ==
  /\ proc[i].pc = "next"
  /\ \E e \in Oldest(proc[i].batch) :
        /\ table[e].status = "PENDING"
        /\ SetStatus(e, "PROCESSING")
        /\ proc' = [proc EXCEPT ![i].pc = "publish", ![i].batch = @ \ {e},
                                ![i].hand = e]
  /\ UNCHANGED <<saver, inserted, published, faults>>

\* The row is no longer pending: another instance has it.
Skip(i) ==
  /\ proc[i].pc = "next"
  /\ \E e \in Oldest(proc[i].batch) :
        /\ table[e].status # "PENDING"
        /\ proc' = [proc EXCEPT ![i].batch = @ \ {e}]
  /\ UNCHANGED <<saver, table, inserted, published, faults>>

PublishOk(i) ==
  /\ proc[i].pc = "publish"
  /\ published' = [published EXCEPT ![proc[i].hand] = @ + 1]
  /\ proc' = [proc EXCEPT ![i].pc = "mark"]
  /\ UNCHANGED <<saver, table, inserted, faults>>

PublishFails(i) ==
  /\ proc[i].pc = "publish"
  /\ proc' = [proc EXCEPT ![i].pc = "fail"]
  /\ UNCHANGED <<saver, table, inserted, published, faults>>

Advance(i) == proc' = [proc EXCEPT ![i].pc = "next", ![i].hand = NoEvent]

MarkAsProcessed(i) ==
  /\ proc[i].pc = "mark"
  /\ SetStatus(proc[i].hand, "PROCESSED")
  /\ Advance(i)
  /\ UNCHANGED <<saver, inserted, published, faults>>

\* The UPDATE fails inside the try block: the catch marks the entry failed.
MarkAsProcessedFails(i) ==
  /\ proc[i].pc = "mark"
  /\ Fault
  /\ proc' = [proc EXCEPT ![i].pc = "fail"]
  /\ UNCHANGED <<saver, table, inserted, published>>

\* Mutant: the retry is not counted.
MarkAsFailedUncounted(i) ==
  /\ proc[i].pc = "fail"
  /\ SetStatus(proc[i].hand, "FAILED")
  /\ Advance(i)
  /\ UNCHANGED <<saver, inserted, published, faults>>

MarkAsFailed(i) ==
  /\ proc[i].pc = "fail"
  /\ table' = [table EXCEPT ![proc[i].hand].status = "FAILED",
                            ![proc[i].hand].retryCount = @ + 1]
  /\ Advance(i)
  /\ UNCHANGED <<saver, inserted, published, faults>>

BatchDone(i) ==
  /\ proc[i].pc = "next" /\ proc[i].batch = {}
  /\ proc' = [proc EXCEPT ![i].pc = "reset"]
  /\ UNCHANGED <<saver, table, inserted, published, faults>>

ResetForRetry(i) ==
  /\ proc[i].pc = "reset"
  /\ table' = [e \in Events |->
                 IF table[e].status = "FAILED" /\ table[e].retryCount < MaxRetries
                 THEN [table[e] EXCEPT !.status = "PENDING"] ELSE table[e]]
  /\ proc' = [proc EXCEPT ![i].pc = "idle"]
  /\ UNCHANGED <<saver, inserted, published, faults>>

Abandon(i) ==
  proc' = [proc EXCEPT ![i].pc = "idle", ![i].batch = {}, ![i].hand = NoEvent]

\* markAsProcessing, markAsFailed or resetForRetry throws: processOutbox's catch
\* logs, and the rest of the batch and resetForRetry are skipped.
BatchFails(i) ==
  /\ proc[i].pc \in {"next", "fail", "reset"}
  /\ Fault
  /\ Abandon(i)
  /\ UNCHANGED <<saver, table, inserted, published>>

\* The process dies and is started again; the table stays as it is.
Crash(i) ==
  /\ proc[i].pc # "idle"
  /\ Fault
  /\ proc' = [proc EXCEPT ![i] = Resting]
  /\ UNCHANGED <<saver, table, inserted, published>>

\* stop() ends the polling; a batch under way runs on.
Stop(i) ==
  /\ proc[i].running
  /\ proc' = [proc EXCEPT ![i].running = FALSE]
  /\ UNCHANGED <<saver, table, inserted, published, faults>>

Start(i) ==
  /\ ~proc[i].running
  /\ proc' = [proc EXCEPT ![i].running = TRUE]
  /\ UNCHANGED <<saver, table, inserted, published, faults>>

\* cleanupOldEntries: the rows processed more than the retention period ago.
DeleteProcessed(old) ==
  /\ old # {} /\ old \subseteq Rows("PROCESSED")
  /\ table' = [e \in Events |-> IF e \in old
                                THEN [table[e] EXCEPT !.status = "DELETED"]
                                ELSE table[e]]
  /\ UNCHANGED <<saver, inserted, proc, published, faults>>

-----------------------------------------------------------------------------
Next ==
  \/ \E e \in Events : Persist(e) \/ AddMany(e) \/ AddManyFails(e)
  \/ \E i \in Instances :
        \/ Poll(i) \/ Claim(i) \/ Skip(i) \/ PublishOk(i) \/ PublishFails(i)
        \/ MarkAsProcessed(i) \/ MarkAsProcessedFails(i) \/ MarkAsFailed(i)
        \/ BatchDone(i) \/ ResetForRetry(i) \/ BatchFails(i) \/ Crash(i)
        \/ Stop(i) \/ Start(i)
  \/ \E old \in SUBSET Events : DeleteProcessed(old)

Spec == Init /\ [][Next]_vars

(***************************************************************************)
(* Fairness: save() runs to its end, the poll timer of a running processor *)
(* keeps firing, and a batch under way proceeds.  Processors may be        *)
(* stopped, but not for good.                                              *)
(***************************************************************************)
Proceed(i) ==
  \/ Claim(i) \/ Skip(i) \/ PublishOk(i) \/ PublishFails(i)
  \/ MarkAsProcessed(i) \/ MarkAsFailed(i) \/ BatchDone(i) \/ ResetForRetry(i)

FairSpec ==
  /\ Spec
  /\ \A e \in Events : WF_vars(AddMany(e))
  /\ \A i \in Instances : SF_vars(Poll(i)) /\ WF_vars(Proceed(i)) /\ WF_vars(Start(i))

-----------------------------------------------------------------------------
Holders(e) == {i \in Instances : proc[i].hand = e}

\* An entry is in the hands of at most one instance at a time, however many
\* instances read it as pending (markAsProcessing), and while one has it the row
\* stays PROCESSING: nobody else marks, resets or deletes it.
ExclusiveClaim ==
  \A e \in Events :
    /\ \A i, j \in Holders(e) : i = j
    /\ Holders(e) # {} => table[e].status = "PROCESSING"

\* What the table calls processed, and only then cleans up, did reach the event
\* bus, retries and failed updates included (processEntry, deleteProcessed).
ProcessedIsPublished ==
  \A e \in Rows("PROCESSED") \cup Rows("DELETED") : published[e] > 0

\* A poison event is given up: an event is handed to the bus at most MaxRetries
\* times over all instances and retries (resetForRetry).
AttemptsBounded == \A e \in Events : published[e] <= MaxRetries

\* Without crashes and database errors every row is settled: processed, or failed
\* for good after MaxRetries attempts (processOutbox, resetForRetry).
EntriesSettle ==
  [](faults = 0) =>
  \A e \in Events :
    table[e].status = "PENDING" ~>
      \/ table[e].status \in {"PROCESSED", "DELETED"}
      \/ table[e].status = "FAILED" /\ table[e].retryCount = MaxRetries

\* What the outbox guarantees of an entry under any number of processors, crashes and
\* failed statements: one owner, no loss by marking, a bounded number of attempts.
OutboxSafe == TypeOK /\ ExclusiveClaim /\ ProcessedIsPublished /\ AttemptsBounded
=============================================================================
