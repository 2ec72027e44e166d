----------------------------- MODULE WriteSide -----------------------------
(***************************************************************************)
(* Saving an aggregate: User (src/modules/auth/domain/entities/), its      *)
(* version and pending events (AggregateRoot), the two                     *)
(* BaseAggregateRepository.save methods, and DrizzleUnitOfWork, whose      *)
(* Promise.race lets a timeout answer the caller while the transaction     *)
(* runs on.  Handlers load one user's row, change the aggregate and save.  *)
(* A statement committed on its own and a COMMIT may both be applied while *)
(* the connection breaks before the acknowledgement: the promise rejects.  *)
(*                                                                         *)
(* persist() is abstract; it is modelled as its contract says, UPDATE ...  *)
(* WHERE version = expectedVersion, no row changed = ConcurrencyException, *)
(* an INSERT for expectedVersion 0.  PostgreSQL (external) locks the row   *)
(* from the UPDATE to the end of the transaction.                          *)
(***************************************************************************)
EXTENDS Integers, FiniteSets

CONSTANTS Handlers,     \* command handlers running concurrently
          NoHandler,    \* nobody holds the row lock
          MaxResaves    \* bound: saves repeated with the same aggregate

ASSUME WriteAssumption == NoHandler \notin Handlers /\ MaxResaves \in Nat

\* What a handler asks of the aggregate, and the events it raises: each raised
\* event increments the version, and a change without an event does not.
Raises(command) ==
  [register |-> 2,        \* User.register: addProvider and UserRegistered
   addProvider |-> 1,
   linkBoth |-> 2,        \* two addProvider calls in one command
   linkPhone |-> 0,       \* the phone provider is linked already
   updateName |-> 0][command]

Commands == {"register", "addProvider", "linkBoth", "linkPhone", "updateName"}

\* uow: save() inside runInTransaction, its context passed on.
\* outbox: save() with an outbox and no transaction in its options.
\* direct: save() without an outbox.
Modes == {"uow", "outbox", "direct"}

VARIABLES row,        \* committed version of the user's row, 0 when there is none
          stored,     \* handlers whose events are committed to the outbox table
          onBus,      \* handlers whose events went to the event bus
          wrote,      \* history: row version overwritten by a handler's committed save
          save,       \* save[h]: the handler's aggregate and how far its save has come
          lock,       \* who holds the row lock
          activeTransactions   \* the Map of DrizzleUnitOfWork, by handler

writeVars == <<row, stored, onBus, wrote, save, lock, activeTransactions>>

Steps == {"idle", "loaded", "queued", "open", "persisted", "added", "committed",
          "failed"}
Answers == {"none", "waiting", "ok", "error", "timeout"}

Blank == [step |-> "idle", mode |-> "uow", command |-> "updateName", base |-> 0,
          version |-> 0, events |-> 0, answer |-> "none", retries |-> 0,
          lost |-> FALSE,   \* history: was something applied and not acknowledged
          writes |-> 0]     \* history: how often the save was applied to the row

WriteInit ==
  /\ row \in {0, 1}
  /\ stored = {} /\ onBus = {}
  /\ wrote = [h \in Handlers |-> -1]
  /\ save = [h \in Handlers |-> Blank]
  /\ lock = NoHandler
  /\ activeTransactions = {}

ExpectedVersion(version) == IF version > 0 THEN version - 1 ELSE 0

\* getById and the aggregate's behaviour methods; a missing row is registered.
Load(h) ==
  /\ save[h].step = "idle"
  /\ \E command \in Commands, mode \in Modes :
       /\ (command = "register") = (row = 0)
       /\ save' = [save EXCEPT ![h] =
            [Blank EXCEPT !.step = "loaded", !.mode = mode, !.command = command,
                          !.base = row, !.version = row + Raises(command),
                          !.events = Raises(command)]]
  /\ UNCHANGED <<row, stored, onBus, wrote, lock, activeTransactions>>

\* runInTransaction arms the timer and asks the pool for a connection.
RunInTransaction(h) ==
  /\ save[h].step = "loaded" /\ save[h].mode = "uow"
  /\ save' = [save EXCEPT ![h].step = "queued", ![h].answer = "waiting"]
  /\ UNCHANGED <<row, stored, onBus, wrote, lock, activeTransactions>>

\* db.transaction calls back: the context is registered, whether or not the
\* caller has been answered meanwhile.
TransactionOpens(h) ==
  /\ save[h].step = "queued"
  /\ save' = [save EXCEPT ![h].step = "open"]
  /\ activeTransactions' = activeTransactions \cup {h}
  /\ UNCHANGED <<row, stored, onBus, wrote, lock>>

\* The settled transaction answers the caller if the timer has not; the finally
\* block then deletes the context.
Answered(h, answer) ==
  IF save[h].answer = "waiting" THEN answer ELSE save[h].answer

Deregistered(h) ==
  IF save[h].answer = "waiting" THEN activeTransactions \ {h} ELSE activeTransactions

\* Any error of the work rolls the transaction back.
RollBack(h) ==
  /\ save' = [save EXCEPT ![h].step = "failed", ![h].answer = Answered(h, "error")]
  /\ activeTransactions' = Deregistered(h)
  /\ UNCHANGED <<row, stored, onBus, wrote>>

\* Mutant: the UPDATE has no version in its WHERE clause.
MatchesAlways(version) == TRUE

Matches(version) == row = ExpectedVersion(version)

\* persist() inside the transaction: the row is locked and matches.
PersistInTransaction(h) ==
  /\ save[h].step = "open" /\ lock = NoHandler /\ Matches(save[h].version)
  /\ lock' = h
  /\ save' = [save EXCEPT ![h].step = "persisted"]
  /\ UNCHANGED <<row, stored, onBus, wrote, activeTransactions>>

\* ConcurrencyException, or the statement fails.
PersistRejected(h) ==
  /\ save[h].step = "open" /\ lock = NoHandler
  /\ RollBack(h) /\ UNCHANGED lock

\* outboxRepository.addMany in the same transaction; skipped without events.
AddEvents(h) ==
  /\ save[h].step = "persisted" /\ save[h].mode = "uow"
  /\ save' = [save EXCEPT ![h].step = "added"]
  /\ UNCHANGED <<row, stored, onBus, wrote, lock, activeTransactions>>

AddEventsRejected(h) ==
  /\ save[h].step = "persisted" /\ save[h].mode = "uow"
  /\ lock' = NoHandler /\ RollBack(h)

\* The last statement of a save was applied; `heard' says whether the process learns
\* of it. If not, the caller gets an error and the aggregate keeps its events.
Ended(h, heard) ==
  [save[h] EXCEPT !.step = IF heard THEN "committed" ELSE "failed",
                  !.answer = Answered(h, IF heard THEN "ok" ELSE "error"),
                  !.events = IF heard THEN 0 ELSE @,
                  !.lost = @ \/ ~heard]

Counted(s) == [s EXCEPT !.writes = @ + 1]

\* The work returns, isActive still holds (nothing but the work's own end clears
\* it), and the transaction commits, timed out or not.
Commit(h, heard) ==
  /\ save[h].step = "added"
  /\ row' = save[h].version
  /\ stored' = IF save[h].events > 0 THEN stored \cup {h} ELSE stored
  /\ wrote' = [wrote EXCEPT ![h] = row]
  /\ lock' = NoHandler
  /\ save' = [save EXCEPT ![h] = Counted(Ended(h, heard))]
  /\ activeTransactions' = Deregistered(h)
  /\ UNCHANGED onBus

\* The COMMIT is rejected and nothing applied.
CommitRejected(h) ==
  /\ save[h].step = "added"
  /\ lock' = NoHandler /\ RollBack(h)

\* Mutant: the timeout is reported like a rolled back transaction.
TimeoutAsError(h) ==
  /\ save[h].answer = "waiting" /\ save[h].mode = "uow"
  /\ save' = [save EXCEPT ![h].answer = "error"]
  /\ activeTransactions' = activeTransactions \ {h}
  /\ UNCHANGED <<row, stored, onBus, wrote, lock>>

\* The timer wins the race: the caller gets an error and the context is deleted;
\* the transaction itself is not stopped.
Timeout(h) ==
  /\ save[h].answer = "waiting" /\ save[h].mode = "uow"
  /\ save' = [save EXCEPT ![h].answer = "timeout"]
  /\ activeTransactions' = activeTransactions \ {h}
  /\ UNCHANGED <<row, stored, onBus, wrote, lock>>

\* save() outside a transaction: the row is committed on its own...
Begun(h, heard) ==
  [save[h] EXCEPT !.step = IF heard THEN "persisted" ELSE "failed",
                  !.answer = IF heard THEN "waiting" ELSE "error",
                  !.lost = @ \/ ~heard]

PersistAlone(h, heard) ==
  /\ save[h].step = "loaded" /\ save[h].mode # "uow"
  /\ lock = NoHandler /\ Matches(save[h].version)
  /\ row' = save[h].version
  /\ wrote' = [wrote EXCEPT ![h] = row]
  /\ save' = [save EXCEPT ![h] = Counted(Begun(h, heard))]
  /\ UNCHANGED <<stored, onBus, lock, activeTransactions>>

PersistAloneRejected(h) ==
  /\ save[h].step = "loaded" /\ save[h].mode # "uow" /\ lock = NoHandler
  /\ save' = [save EXCEPT ![h].step = "failed", ![h].answer = "error"]
  /\ UNCHANGED <<row, stored, onBus, wrote, lock, activeTransactions>>

\* ... and after it the events, by a statement of their own or to the bus, and then
\* the aggregate's are cleared.
AddEventsAlone(h, heard) ==
  /\ save[h].step = "persisted" /\ save[h].mode = "outbox"
  /\ stored' = IF save[h].events > 0 THEN stored \cup {h} ELSE stored
  /\ save' = [save EXCEPT ![h] = Ended(h, heard)]
  /\ UNCHANGED <<row, onBus, wrote, lock, activeTransactions>>

PublishEvents(h) ==
  /\ save[h].step = "persisted" /\ save[h].mode = "direct"
  /\ onBus' = IF save[h].events > 0 THEN onBus \cup {h} ELSE onBus
  /\ save' = [save EXCEPT ![h] = Ended(h, TRUE)]
  /\ UNCHANGED <<row, stored, wrote, lock, activeTransactions>>

\* The events are refused: the row stays.
EventsRejected(h) ==
  /\ save[h].step = "persisted" /\ save[h].mode # "uow" /\ save[h].events > 0
  /\ save' = [save EXCEPT ![h].step = "failed", ![h].answer = "error"]
  /\ UNCHANGED <<row, stored, onBus, wrote, lock, activeTransactions>>

\* After an error the aggregate still has its events; the caller saves it again.
SaveAgain(h) ==
  /\ save[h].step = "failed" /\ save[h].answer = "error"
  /\ save[h].retries < MaxResaves
  /\ save' = [save EXCEPT ![h].step = "loaded", ![h].answer = "none", ![h].retries = @ + 1]
  /\ UNCHANGED <<row, stored, onBus, wrote, lock, activeTransactions>>

WriteNext ==
  \/ \E h \in Handlers : Load(h)
  \/ \E h \in Handlers : RunInTransaction(h)
  \/ \E h \in Handlers : TransactionOpens(h)
  \/ \E h \in Handlers : PersistInTransaction(h)
  \/ \E h \in Handlers : PersistRejected(h)
  \/ \E h \in Handlers : AddEvents(h)
  \/ \E h \in Handlers : AddEventsRejected(h)
  \/ \E h \in Handlers, heard \in BOOLEAN : Commit(h, heard)
  \/ \E h \in Handlers : CommitRejected(h)
  \/ \E h \in Handlers : Timeout(h)
  \/ \E h \in Handlers, heard \in BOOLEAN : PersistAlone(h, heard)
  \/ \E h \in Handlers : PersistAloneRejected(h)
  \/ \E h \in Handlers, heard \in BOOLEAN : AddEventsAlone(h, heard)
  \/ \E h \in Handlers : PublishEvents(h)
  \/ \E h \in Handlers : EventsRejected(h)
  \/ \E h \in Handlers : SaveAgain(h)

WriteSpec == WriteInit /\ [][WriteNext]_writeVars

-----------------------------------------------------------------------------
\* An answer of success means the row and every event of the aggregate are
\* durable, or on the bus: no interleaving of timeout, rollback and commit reports a
\* save that did not happen (runInTransaction, save).
OkMeansSaved ==
  \A h \in Handlers : save[h].answer = "ok" =>
    /\ wrote[h] # -1
    /\ Raises(save[h].command) > 0 =>
         h \in (IF save[h].mode = "direct" THEN onBus ELSE stored)

\* Inside a unit of work the row and the outbox entries appear together or not
\* at all, also when the caller timed out long before or the COMMIT's answer was lost
\* (persistWithOutbox under options.transaction).
UowAtomic ==
  \A h \in Handlers :
    save[h].mode = "uow" /\ Raises(save[h].command) > 0 =>
      (wrote[h] # -1) = (h \in stored)

\* In every mode the events come after their row: none is announced for a save that
\* was refused. (Without a transaction the row may stay without its events.)
EventsHaveTheirRow ==
  \A h \in Handlers : h \in stored \cup onBus => wrote[h] # -1

\* An error of a save that did change the row has one of two reasons: an acknowledgement
\* was lost, or a save outside a transaction could not hand over its events and has
\* left the row without them. In a unit of work every other error but the timeout
\* means that nothing was left behind.
ErrorAfterWriteExplained ==
  \A h \in Handlers : save[h].answer = "error" /\ wrote[h] # -1 =>
    \/ save[h].lost
    \/ save[h].mode # "uow" /\ Raises(save[h].command) > 0 /\ h \notin stored \cup onBus

\* However ambiguous the error was, repeating the save applies it no second time: the
\* aggregate's version no longer matches the row.
SaveAppliedOnce == \A h \in Handlers : save[h].writes <= 1

\* A context outlives its caller in activeTransactions only after a timeout (the
\* transaction then opens after the finally block has run and nobody deletes it).
LeakNeedsTimeout ==
  \A h \in activeTransactions : save[h].answer \in {"waiting", "timeout"}

\* A command that raised exactly one event never overwrites a version it has not
\* seen: the check expectedVersion = version - 1 protects it, retries included.
SingleEventSeesLatest ==
  \A h \in Handlers :
    wrote[h] # -1 /\ Raises(save[h].command) = 1 => wrote[h] = save[h].base

\* What a command handler is told about its save is what the database holds, as far
\* as timeouts, lost acknowledgements and statements outside a transaction let it be.
AnswerTellsOutcome ==
  OkMeansSaved /\ UowAtomic /\ EventsHaveTheirRow /\ ErrorAfterWriteExplained
    /\ SaveAppliedOnce /\ LeakNeedsTimeout
=============================================================================
