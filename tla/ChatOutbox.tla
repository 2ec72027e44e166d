----------------------------- MODULE ChatOutbox -----------------------------
(***************************************************************************)
(* Store-and-forward customer chat: SupportService.sendMessage and         *)
(* getConversation (src/modules/support/support.service.ts), the           *)
(* ChatOutboxForwarder and the cskh-chat adapter, over the part of         *)
(* PortRegistry.execute this port exercises.  The port has no YAML entry,  *)
(* so its tier is dynamic and its queuePolicy never: a call that fails, or *)
(* finds the circuit open, is answered from the fallback cache, which      *)
(* keeps the port's last answer whatever call it was for.                  *)
(*                                                                         *)
(* The receiver (omnichannel) is external and dedupes by messageId.  When  *)
(* the circuit opens and closes is the subject of PortBreaker: here a      *)
(* failure may open it and time closes it.                                 *)
(***************************************************************************)
EXTENDS Naturals, FiniteSets

CONSTANTS Messages, Users,
          Owner,      \* Owner[m]: who writes message m
          Flushers,   \* runs of flushOnce that may overlap
          Readers,    \* concurrent getConversation requests
          FlushBatch, \* FLUSH_BATCH
          MaxFaults,  \* bound on process crashes and failed database updates
          Nobody, NoMessage

ASSUME ChatAssumption ==
  /\ IsFiniteSet(Messages) /\ Owner \in [Messages -> Users]
  /\ FlushBatch \in Nat \ {0} /\ MaxFaults \in Nat
  /\ Nobody \notin Users /\ NoMessage \notin Messages

VARIABLES
  row,       \* row[m]: the chat_outbox row of m
  sentAt,    \* sentAt[m]: its createdAt, by insertion
  inbox,     \* messages the receiver has
  fallback,  \* the port's entry in the fallback cache
  thread,    \* thread[u]: cached get-conversation answer of u
  busting,   \* is a deleteByPattern of the port's read cache under way?
  open,      \* is the port's circuit open?
  up,        \* does the receiver answer?
  probe,     \* wireReachable's cached TCP probe
  flusher, reader,
  faults

port == <<fallback, thread, busting, open>>
wire == <<inbox, up>>
vars == <<row, sentAt, port, wire, probe, flusher, reader, faults>>

\* An answer of the port: a send-message result or a thread.
Answer == [kind : {"none", "sent", "rejected", "thread"}, msgs : SUBSET Messages]
NoAnswer == [kind |-> "none", msgs |-> {}]
Result(k) == [kind |-> k, msgs |-> {}]

Flusher == [pc : {"idle", "probing", "select", "send", "mark"},
            batch : SUBSET Messages, at : Messages \cup {NoMessage}]
\* asked: the user's rows when the request came in; server: the port's answer.
Reader == [pc : {"idle", "store", "merge", "shown"}, user : Users \cup {Nobody},
           asked : SUBSET Messages, server : SUBSET Messages, shown : SUBSET Messages]

TypeOK ==
  /\ row \in [Messages -> {"none", "pending", "forwarded"}]
  /\ sentAt \in [Messages -> Nat]
  /\ inbox \subseteq Messages /\ up \in BOOLEAN
  /\ fallback \in Answer
  /\ thread \in [Users -> Answer]
  /\ busting \in BOOLEAN /\ open \in BOOLEAN
  /\ probe \in [fresh : BOOLEAN, ok : BOOLEAN]
  /\ flusher \in [Flushers -> Flusher]
  /\ reader \in [Readers -> Reader]
  /\ faults \in 0..MaxFaults

IdleFlusher == [pc |-> "idle", batch |-> {}, at |-> NoMessage]
IdleReader == [pc |-> "idle", user |-> Nobody, asked |-> {}, server |-> {}, shown |-> {}]
NoProbe == [fresh |-> FALSE, ok |-> TRUE]

Init ==
  /\ row = [m \in Messages |-> "none"]
  /\ sentAt = [m \in Messages |-> 0]
  /\ inbox = {} /\ up \in BOOLEAN
  /\ fallback = NoAnswer
  /\ thread = [u \in Users |-> NoAnswer]
  /\ busting = FALSE /\ open = FALSE
  /\ probe = NoProbe
  /\ flusher = [f \in Flushers |-> IdleFlusher]
  /\ reader = [r \in Readers |-> IdleReader]
  /\ faults = 0

Stored == {m \in Messages : row[m] # "none"}
Pending == {m \in Messages : row[m] = "pending"}
Own(u) == {m \in Messages : Owner[m] = u}
Fault == faults < MaxFaults /\ faults' = faults + 1

-----------------------------------------------------------------------------
\* sendMessage: the row is inserted and {sent: true} returned.
SendMessage(m) ==
  /\ row[m] = "none"
  /\ row' = [row EXCEPT ![m] = "pending"]
  /\ sentAt' = [sentAt EXCEPT ![m] = Cardinality(Stored) + 1]
  /\ UNCHANGED <<port, wire, probe, flusher, reader, faults>>

-----------------------------------------------------------------------------
(* flushOnce: kicked by sendMessage and by the ticker, nothing keeps two apart *)

Goto(f, pc) == flusher' = [flusher EXCEPT ![f].pc = pc]
Finish(f) == flusher' = [flusher EXCEPT ![f] = IdleFlusher]

ProbeCached(f) ==
  /\ flusher[f].pc = "idle"
  /\ probe.fresh /\ probe.ok
  /\ Goto(f, "select")
  /\ UNCHANGED <<row, sentAt, port, wire, probe, reader, faults>>

\* probeAt is written before the connect is awaited: an overlapping run meanwhile
\* goes by the old verdict.
ProbeStart(f) ==
  /\ flusher[f].pc = "idle"
  /\ ~probe.fresh
  /\ probe' = [probe EXCEPT !.fresh = TRUE]
  /\ Goto(f, "probing")
  /\ UNCHANGED <<row, sentAt, port, wire, reader, faults>>

ProbeDone(f) ==
  /\ flusher[f].pc = "probing"
  /\ probe' = [probe EXCEPT !.ok = up]
  /\ Goto(f, IF up THEN "select" ELSE "idle")
  /\ UNCHANGED <<row, sentAt, port, wire, reader, faults>>

Older(m, n) == sentAt[m] <= sentAt[n]

SelectPending(f) ==
  /\ flusher[f].pc = "select"
  /\ \E b \in SUBSET Pending :
        /\ Cardinality(b) <= FlushBatch
        /\ Cardinality(b) < FlushBatch => b = Pending
        /\ \A m \in b, n \in Pending \ b : Older(m, n)
        /\ flusher' = [flusher EXCEPT ![f].pc = "send", ![f].batch = b]
  /\ UNCHANGED <<row, sentAt, port, wire, probe, reader, faults>>

IsNext(f, m) ==
  /\ flusher[f].pc = "send"
  /\ m \in flusher[f].batch
  /\ \A n \in flusher[f].batch : Older(m, n)

\* execute() returned data.sent = true: on to the update; or it did not, and the
\* row is left pending.
ToMark(f, m) == flusher' = [flusher EXCEPT ![f].pc = "mark", ![f].at = m]
Leave(f, m) == flusher' = [flusher EXCEPT ![f].batch = @ \ {m}]

\* 2xx.  execute(): invalidate the read cache, remember the answer.
SendOk(f, m) ==
  /\ IsNext(f, m)
  /\ ~open /\ up
  /\ inbox' = inbox \cup {m}
  /\ fallback' = Result("sent")
  /\ busting' = TRUE
  /\ ToMark(f, m)
  /\ UNCHANGED <<row, sentAt, thread, open, up, probe, reader, faults>>

\* 401/403: the adapter returns {sent: false}, for the registry a success.
SendRejected(f, m) ==
  /\ IsNext(f, m)
  /\ ~open /\ up
  /\ fallback' = Result("rejected")
  /\ busting' = TRUE
  /\ Leave(f, m)
  /\ UNCHANGED <<row, sentAt, thread, open, wire, probe, reader, faults>>

\* executeFallback: the port's last answer, or PortFallbackException.
FallbackAnswer(f, m) ==
  IF fallback.kind = "sent" THEN ToMark(f, m) ELSE Leave(f, m)

\* 5xx, timeout (the receiver may have the message all the same), unreachable.
SendFails(f, m) ==
  /\ IsNext(f, m)
  /\ ~open
  /\ \/ up /\ inbox' = inbox \cup {m}
     \/ UNCHANGED inbox
  /\ open' \in BOOLEAN
  /\ FallbackAnswer(f, m)
  /\ UNCHANGED <<row, sentAt, fallback, thread, busting, up, probe, reader, faults>>

SendMeetsOpen(f, m) ==
  /\ IsNext(f, m)
  /\ open
  /\ FallbackAnswer(f, m)
  /\ UNCHANGED <<row, sentAt, port, wire, probe, reader, faults>>

\* Mutant: the update matches no row.
MarkNothing(f) ==
  /\ flusher[f].pc = "mark"
  /\ flusher' = [flusher EXCEPT ![f].pc = "send", ![f].at = NoMessage,
                                ![f].batch = @ \ {flusher[f].at}]
  /\ UNCHANGED <<row, sentAt, port, wire, probe, reader, faults>>

MarkForwarded(f) ==
  /\ flusher[f].pc = "mark"
  /\ row' = [row EXCEPT ![flusher[f].at] = "forwarded"]
  /\ flusher' = [flusher EXCEPT ![f].pc = "send", ![f].at = NoMessage,
                                ![f].batch = @ \ {flusher[f].at}]
  /\ UNCHANGED <<sentAt, port, wire, probe, reader, faults>>

\* The update throws inside the try block: the row stays pending.
MarkFails(f) ==
  /\ flusher[f].pc = "mark"
  /\ Fault
  /\ flusher' = [flusher EXCEPT ![f].pc = "send", ![f].at = NoMessage,
                                ![f].batch = @ \ {flusher[f].at}]
  /\ UNCHANGED <<row, sentAt, port, wire, probe, reader>>

FlushDone(f) ==
  /\ flusher[f].pc = "send" /\ flusher[f].batch = {}
  /\ Finish(f)
  /\ UNCHANGED <<row, sentAt, port, wire, probe, reader, faults>>

-----------------------------------------------------------------------------
(* getConversation *)

Ask(r, u, pc, server) ==
  /\ reader[r].pc = "idle"
  /\ reader' = [reader EXCEPT ![r] = [IdleReader EXCEPT
                  !.pc = pc, !.user = u, !.asked = Stored \cap Own(u), !.server = server]]

\* A hit in the port's read cache.
ReadCached(r, u) ==
  /\ thread[u].kind = "thread"
  /\ Ask(r, u, "merge", thread[u].msgs)
  /\ UNCHANGED <<row, sentAt, port, wire, probe, flusher, faults>>

\* Circuit open: a remembered answer of any kind counts, its messages or none.
ReadMeetsOpen(r, u) ==
  /\ thread[u].kind = "none" /\ open
  /\ fallback.kind # "none"
  /\ Ask(r, u, "merge", fallback.msgs)
  /\ UNCHANGED <<row, sentAt, port, wire, probe, flusher, faults>>

\* The adapter never throws: an error reads as an empty thread.
ReadWire(r, u) ==
  /\ thread[u].kind = "none" /\ ~open
  /\ \/ up /\ Ask(r, u, "store", inbox \cap Own(u))
     \/ Ask(r, u, "store", {})
  /\ UNCHANGED <<row, sentAt, port, wire, probe, flusher, faults>>

\* cacheService.set, whose failure is caught, then setCached.
StoreThread(r) ==
  /\ reader[r].pc = "store"
  /\ fallback' = [kind |-> "thread", msgs |-> reader[r].server]
  /\ \/ thread' = [thread EXCEPT ![reader[r].user] =
                     [kind |-> "thread", msgs |-> reader[r].server]]
     \/ UNCHANGED thread
  /\ reader' = [reader EXCEPT ![r].pc = "merge"]
  /\ UNCHANGED <<row, sentAt, busting, open, wire, probe, flusher, faults>>

\* Mutant: rows already forwarded are left to the server's echo.
MergePendingOnly(r) ==
  /\ reader[r].pc = "merge"
  /\ reader' = [reader EXCEPT ![r].pc = "shown",
                  ![r].shown = @ \cup reader[r].server \cup (Pending \cap Own(reader[r].user))]
  /\ UNCHANGED <<row, sentAt, port, wire, probe, flusher, faults>>

\* The user's rows the server did not echo, pending or forwarded, are added.
Merge(r) ==
  /\ reader[r].pc = "merge"
  /\ reader' = [reader EXCEPT ![r].pc = "shown",
                  ![r].shown = @ \cup reader[r].server \cup (Stored \cap Own(reader[r].user))]
  /\ UNCHANGED <<row, sentAt, port, wire, probe, flusher, faults>>

ReadDone(r) ==
  /\ reader[r].pc = "shown"
  /\ reader' = [reader EXCEPT ![r] = IdleReader]
  /\ UNCHANGED <<row, sentAt, port, wire, probe, flusher, faults>>

-----------------------------------------------------------------------------
(* the environment *)

\* The fire-and-forget deleteByPattern ends, or fails.
Bust ==
  /\ busting
  /\ busting' = FALSE
  /\ \/ thread' = [u \in Users |-> NoAnswer]
     \/ UNCHANGED thread
  /\ UNCHANGED <<row, sentAt, fallback, open, wire, probe, flusher, reader, faults>>

ThreadExpires(u) ==
  /\ thread[u] # NoAnswer
  /\ thread' = [thread EXCEPT ![u] = NoAnswer]
  /\ UNCHANGED <<row, sentAt, fallback, busting, open, wire, probe, flusher, reader, faults>>

ProbeExpires ==
  /\ probe.fresh
  /\ probe' = [probe EXCEPT !.fresh = FALSE]
  /\ UNCHANGED <<row, sentAt, port, wire, flusher, reader, faults>>

CircuitCloses ==
  /\ open
  /\ open' = FALSE
  /\ UNCHANGED <<row, sentAt, fallback, thread, busting, wire, probe, flusher, reader, faults>>

ReceiverTurns ==
  /\ up' = ~up
  /\ UNCHANGED <<row, sentAt, port, inbox, probe, flusher, reader, faults>>

\* The process dies: chat_outbox and Redis stay, the fallback map does not.
Crash ==
  /\ Fault
  /\ flusher' = [f \in Flushers |-> IdleFlusher]
  /\ reader' = [r \in Readers |-> IdleReader]
  /\ fallback' = NoAnswer /\ busting' = FALSE /\ open' = FALSE
  /\ probe' = NoProbe
  /\ UNCHANGED <<row, sentAt, thread, wire>>

Next ==
  \/ \E m \in Messages : SendMessage(m)
  \/ \E f \in Flushers :
        \/ ProbeCached(f) \/ ProbeStart(f) \/ ProbeDone(f) \/ SelectPending(f)
        \/ MarkForwarded(f) \/ MarkFails(f) \/ FlushDone(f)
  \/ \E f \in Flushers, m \in Messages :
        SendOk(f, m) \/ SendRejected(f, m) \/ SendFails(f, m) \/ SendMeetsOpen(f, m)
  \/ \E r \in Readers, u \in Users :
        ReadCached(r, u) \/ ReadMeetsOpen(r, u) \/ ReadWire(r, u)
  \/ \E r \in Readers : StoreThread(r) \/ Merge(r) \/ ReadDone(r)
  \/ \E u \in Users : ThreadExpires(u)
  \/ Bust \/ ProbeExpires \/ CircuitCloses \/ ReceiverTurns \/ Crash

Spec == Init /\ [][Next]_vars

(***************************************************************************)
(* Fairness: the ticker keeps kicking flushOnce and a run proceeds; the    *)
(* probe cache expires and the circuit is tried again; and a receiver that *)
(* is tried again and again while it is up accepts in the end.             *)
(***************************************************************************)
Proceed(f) ==
  \/ ProbeCached(f) \/ ProbeStart(f) \/ ProbeDone(f) \/ SelectPending(f)
  \/ MarkForwarded(f) \/ FlushDone(f)
  \/ \E m \in Messages :
        SendOk(f, m) \/ SendRejected(f, m) \/ SendFails(f, m) \/ SendMeetsOpen(f, m)

FairSpec ==
  /\ Spec
  /\ WF_vars(ProbeExpires) /\ WF_vars(CircuitCloses)
  /\ \A f \in Flushers : WF_vars(Proceed(f))
  /\ \A m \in Messages : SF_vars(\E f \in Flushers : SendOk(f, m))

-----------------------------------------------------------------------------
\* A customer never misses a message of his own: whatever thread the port
\* answers with (fresh, cached, of an outage, the fallback's), the merged
\* conversation has every message accepted before the request (getConversation).
SeesOwnMessages ==
  \A r \in Readers : reader[r].pc = "shown" => reader[r].asked \subseteq reader[r].shown

\* When the receiver is back for good, every accepted message is marked forwarded,
\* across overlapping runs, rejections, a stale probe and the circuit (flushOnce).
BacklogDrains ==
  <>[]up => \A m \in Messages : row[m] = "pending" ~> row[m] = "forwarded"

\* support.service.ts:64: {sent: true} means the BFF "chịu trách nhiệm giao", it
\* answers for the delivery: a message is taken off the backlog only when the
\* receiver has it.
ForwardedIsDelivered == \A m \in Messages : row[m] = "forwarded" => m \in inbox

\* No reader of a conversation misses his own messages (with TypeOK).
ChatSafe == TypeOK /\ SeesOwnMessages
=============================================================================
