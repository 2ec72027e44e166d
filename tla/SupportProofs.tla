---------------------------- MODULE SupportProofs ----------------------------
(***************************************************************************)
(* Proofs about the shared services, for every number of messages, users,  *)
(* flushes, readers, crashes, keys, timers and calls: a conversation shows *)
(* its reader every message he sent before asking (ChatOutbox), a result   *)
(* cached for a fallback is never served past its ttl (FallbackProvider),  *)
(* the maps of a fan-out keep the ports apart (Aggregation), and the       *)
(* binding limiter arms a lock only after as many wrong answers as its     *)
(* ceiling says, and without overlap or forgiveness no ceiling is passed   *)
(* (BindingLimiter).                                                       *)
(***************************************************************************)
EXTENDS ChatOutbox, FallbackProvider, Aggregation, BindingLimiter,
        FiniteSetTheorems, WellFoundedInduction, TLAPS

-----------------------------------------------------------------------------
(* Store-and-forward chat (ChatOutbox) *)

\* flushOnce at its update has the message whose row it updates.
MarksOwnMessage == \A f \in Flushers : flusher[f].pc = "mark" => flusher[f].at \in Messages

\* What was in the outbox when the request came in is there to be merged: rows are
\* updated and never deleted.
AskedIsStored ==
  \A r \in Readers :
    reader[r].pc # "idle" =>
      /\ reader[r].user \in Users
      /\ reader[r].asked \subseteq Stored \cap Own(reader[r].user)

ChatInv ==
  /\ TypeOK
  /\ MarksOwnMessage
  /\ AskedIsStored
  /\ SeesOwnMessages

\* Cardinality of the outbox is a number: createdAt counts the insertions.
LEMMA StoredIsFinite == Cardinality(Stored) \in Nat
<1>1. IsFiniteSet(Stored)
  BY ChatAssumption, FS_Subset DEF ChatAssumption, Stored
<1> QED BY <1>1, FS_CardinalityType

\* An empty outbox, no flush and no reader.
LEMMA ChatInvInit == Init => ChatInv
<1> SUFFICES ASSUME Init PROVE ChatInv
  OBVIOUS
<1>1. IdleFlusher \in Flusher /\ IdleReader \in Reader
  BY DEF IdleFlusher, IdleReader, Flusher, Reader
<1>2. NoAnswer \in Answer /\ NoProbe \in [fresh : BOOLEAN, ok : BOOLEAN]
  BY DEF NoAnswer, NoProbe, Answer
<1>3. TypeOK
  <2>1. /\ row \in [Messages -> {"none", "pending", "forwarded"}] /\ sentAt \in [Messages -> Nat]
        /\ inbox \subseteq Messages /\ faults \in 0..MaxFaults
    BY ChatAssumption DEF Init, ChatAssumption
  <2>2. up \in BOOLEAN /\ busting \in BOOLEAN /\ open \in BOOLEAN
    BY DEF Init
  <2>3. /\ fallback \in Answer /\ thread \in [Users -> Answer]
        /\ probe \in [fresh : BOOLEAN, ok : BOOLEAN]
        /\ flusher \in [Flushers -> Flusher] /\ reader \in [Readers -> Reader]
    BY <1>1, <1>2 DEF Init
  <2> QED BY <2>1, <2>2, <2>3 DEF TypeOK
<1>4. MarksOwnMessage /\ AskedIsStored /\ SeesOwnMessages
  BY DEF Init, IdleFlusher, IdleReader, MarksOwnMessage, AskedIsStored, SeesOwnMessages
<1> QED BY <1>3, <1>4 DEF ChatInv

\* Everything but the readers may change as long as no row goes away.
LEMMA ReadersRest ==
  ASSUME ChatInv, UNCHANGED reader, Stored \subseteq Stored'
  PROVE  AskedIsStored' /\ SeesOwnMessages'
  BY DEF ChatInv, AskedIsStored, SeesOwnMessages, Own

\* A step of one flush leaves it one, at a message when it is about to mark.
LEMMA FlusherMoves ==
  ASSUME ChatInv, NEW f \in Flushers, NEW x \in Flusher,
         flusher' = [flusher EXCEPT ![f] = x], x.pc = "mark" => x.at \in Messages
  PROVE  flusher' \in [Flushers -> Flusher] /\ MarksOwnMessage'
  BY DEF ChatInv, TypeOK, MarksOwnMessage

\* sendMessage inserts the row.
LEMMA SendMessageKeepsInv ==
  ASSUME ChatInv, NEW m \in Messages, SendMessage(m)
  PROVE  ChatInv'
<1>1. /\ row' = [row EXCEPT ![m] = "pending"]
      /\ sentAt' = [sentAt EXCEPT ![m] = Cardinality(Stored) + 1]
      /\ UNCHANGED <<fallback, thread, busting, open, inbox, up, probe, flusher, reader, faults>>
  BY DEF SendMessage, port, wire
<1>2. row \in [Messages -> {"none", "pending", "forwarded"}] /\ sentAt \in [Messages -> Nat]
  BY DEF ChatInv, TypeOK
<1>3. /\ row' \in [Messages -> {"none", "pending", "forwarded"}]
      /\ sentAt' \in [Messages -> Nat]
  BY <1>1, <1>2, StoredIsFinite
<1>4. TypeOK'
  BY <1>1, <1>3 DEF ChatInv, TypeOK
<1>5. Stored \subseteq Stored'
  BY <1>1, <1>2 DEF Stored
<1>6. MarksOwnMessage'
  BY <1>1 DEF ChatInv, MarksOwnMessage
<1> QED BY <1>1, <1>4, <1>5, <1>6, ReadersRest DEF ChatInv

\* The steps of flushOnce that keep chat_outbox as it is.
LEMMA FlushKeepsInv ==
  ASSUME ChatInv, NEW f \in Flushers,
         \/ ProbeCached(f) \/ ProbeStart(f) \/ ProbeDone(f) \/ SelectPending(f)
         \/ MarkFails(f) \/ FlushDone(f)
  PROVE  ChatInv'
<1>1. /\ UNCHANGED <<row, sentAt, fallback, thread, busting, open, inbox, up, reader>>
  BY DEF ProbeCached, ProbeStart, ProbeDone, SelectPending, MarkFails, FlushDone, port, wire
<1>2. flusher[f] \in Flusher /\ probe \in [fresh : BOOLEAN, ok : BOOLEAN] /\ up \in BOOLEAN
  BY DEF ChatInv, TypeOK
<1>3. probe' \in [fresh : BOOLEAN, ok : BOOLEAN]
  <2>1. \/ probe' = probe \/ probe' = [probe EXCEPT !.fresh = TRUE]
        \/ probe' = [probe EXCEPT !.ok = up]
    BY DEF ProbeCached, ProbeStart, ProbeDone, SelectPending, MarkFails, FlushDone
  <2> QED BY <1>2, <2>1
<1>4. faults' \in 0..MaxFaults
  <2>1. \/ faults' = faults
        \/ faults < MaxFaults /\ faults' = faults + 1
    BY DEF ProbeCached, ProbeStart, ProbeDone, SelectPending, MarkFails, FlushDone, Fault
  <2>2. faults \in 0..MaxFaults /\ MaxFaults \in Nat
    BY ChatAssumption DEF ChatInv, TypeOK, ChatAssumption
  <2> QED BY <2>1, <2>2
<1>5. \E x \in Flusher : flusher' = [flusher EXCEPT ![f] = x] /\ (x.pc = "mark" => x.at \in Messages)
  <2>1. ASSUME NEW p \in {"idle", "probing", "select"}, Goto(f, p)
        PROVE  \E x \in Flusher : /\ flusher' = [flusher EXCEPT ![f] = x]
                                  /\ x.pc = "mark" => x.at \in Messages
    <3>1. PICK x : x = [flusher[f] EXCEPT !.pc = p]
      OBVIOUS
    <3>2. x \in Flusher /\ x.pc = p
      BY <1>2, <3>1 DEF Flusher
    <3>3. flusher' = [flusher EXCEPT ![f] = x]
      BY <2>1, <3>1 DEF Goto
    <3> QED BY <3>2, <3>3
  <2>2. CASE ProbeCached(f) \/ ProbeStart(f) \/ ProbeDone(f)
    <3>1. Goto(f, "idle") \/ Goto(f, "probing") \/ Goto(f, "select")
      BY <2>2 DEF ProbeCached, ProbeStart, ProbeDone
    <3> QED BY <2>1, <3>1
  <2>3. CASE SelectPending(f)
    <3>1. PICK b \in SUBSET Pending :
            flusher' = [flusher EXCEPT ![f].pc = "send", ![f].batch = b]
      BY <2>3 DEF SelectPending
    <3>2. PICK x : x = [flusher[f] EXCEPT !.pc = "send", !.batch = b]
      OBVIOUS
    <3>3. b \in SUBSET Messages
      BY DEF Pending
    <3>4. x \in Flusher /\ x.pc = "send"
      BY <1>2, <3>2, <3>3 DEF Flusher
    <3>5. flusher' = [flusher EXCEPT ![f] = x]
      BY <3>1, <3>2
    <3> QED BY <3>4, <3>5
  <2>4. CASE MarkFails(f)
    <3>1. PICK x : x = [flusher[f] EXCEPT !.pc = "send", !.at = NoMessage,
                                          !.batch = flusher[f].batch \ {flusher[f].at}]
      OBVIOUS
    <3>2. x \in Flusher /\ x.pc = "send"
      BY <1>2, <3>1 DEF Flusher
    <3>3. flusher' = [flusher EXCEPT ![f] = x]
      BY <1>2, <2>4, <3>1 DEF MarkFails, Flusher
    <3> QED BY <3>2, <3>3
  <2>5. CASE FlushDone(f)
    <3>1. IdleFlusher \in Flusher /\ IdleFlusher.pc = "idle"
      BY DEF IdleFlusher, Flusher
    <3> QED BY <2>5, <3>1 DEF FlushDone, Finish
  <2> QED BY <2>2, <2>3, <2>4, <2>5
<1>6. flusher' \in [Flushers -> Flusher] /\ MarksOwnMessage'
  BY <1>5, FlusherMoves
<1>7. TypeOK'
  BY <1>1, <1>3, <1>4, <1>6 DEF ChatInv, TypeOK
<1>8. Stored \subseteq Stored'
  BY <1>1 DEF Stored
<1> QED BY <1>1, <1>6, <1>7, <1>8, ReadersRest DEF ChatInv

\* The update takes a row from pending to forwarded: it stays a row.
LEMMA MarkForwardedKeepsInv ==
  ASSUME ChatInv, NEW f \in Flushers, MarkForwarded(f)
  PROVE  ChatInv'
<1>1. /\ UNCHANGED <<sentAt, fallback, thread, busting, open, inbox, up, probe, reader, faults>>
      /\ flusher[f].pc = "mark" /\ row' = [row EXCEPT ![flusher[f].at] = "forwarded"]
  BY DEF MarkForwarded, port, wire
<1>2. /\ flusher[f] \in Flusher /\ flusher[f].at \in Messages
      /\ row \in [Messages -> {"none", "pending", "forwarded"}]
  BY <1>1 DEF ChatInv, TypeOK, MarksOwnMessage
<1>3. PICK x : x = [flusher[f] EXCEPT !.pc = "send", !.at = NoMessage,
                                      !.batch = flusher[f].batch \ {flusher[f].at}]
  OBVIOUS
<1>4. x \in Flusher /\ x.pc = "send"
  BY <1>2, <1>3 DEF Flusher
<1>5. flusher' = [flusher EXCEPT ![f] = x]
  BY <1>2, <1>3 DEF MarkForwarded, Flusher
<1>6. flusher' \in [Flushers -> Flusher] /\ MarksOwnMessage'
  BY <1>4, <1>5, FlusherMoves
<1>7. row' \in [Messages -> {"none", "pending", "forwarded"}] /\ Stored \subseteq Stored'
  BY <1>1, <1>2 DEF Stored
<1>8. TypeOK'
  BY <1>1, <1>6, <1>7 DEF ChatInv, TypeOK
<1> QED BY <1>1, <1>6, <1>7, <1>8, ReadersRest DEF ChatInv

\* The send of one message: whatever the port answers, the rows stay.
LEMMA SendKeepsInv ==
  ASSUME ChatInv, NEW f \in Flushers, NEW m \in Messages,
         SendOk(f, m) \/ SendRejected(f, m) \/ SendFails(f, m) \/ SendMeetsOpen(f, m)
  PROVE  ChatInv'
<1>1. UNCHANGED <<row, sentAt, thread, up, probe, reader, faults>>
  BY DEF SendOk, SendRejected, SendFails, SendMeetsOpen, port, wire
<1>2. ToMark(f, m) \/ Leave(f, m)
  BY DEF SendOk, SendRejected, SendFails, SendMeetsOpen, FallbackAnswer
<1>3. flusher[f] \in Flusher /\ flusher[f].pc = "send"
  BY DEF SendOk, SendRejected, SendFails, SendMeetsOpen, IsNext, ChatInv, TypeOK
<1>4. \E x \in Flusher : flusher' = [flusher EXCEPT ![f] = x] /\ (x.pc = "mark" => x.at \in Messages)
  <2>1. CASE ToMark(f, m)
    <3>1. PICK x : x = [flusher[f] EXCEPT !.pc = "mark", !.at = m]
      OBVIOUS
    <3>2. x \in Flusher /\ x.at = m
      BY <1>3, <3>1 DEF Flusher
    <3>3. flusher' = [flusher EXCEPT ![f] = x]
      BY <2>1, <3>1 DEF ToMark
    <3> QED BY <3>2, <3>3
  <2>2. CASE Leave(f, m)
    <3>1. PICK x : x = [flusher[f] EXCEPT !.batch = flusher[f].batch \ {m}]
      OBVIOUS
    <3>2. x \in Flusher /\ x.pc = "send"
      BY <1>3, <3>1 DEF Flusher
    <3>3. flusher' = [flusher EXCEPT ![f] = x]
      BY <2>2, <3>1 DEF Leave
    <3> QED BY <3>2, <3>3
  <2> QED BY <1>2, <2>1, <2>2
<1>5. flusher' \in [Flushers -> Flusher] /\ MarksOwnMessage'
  BY <1>4, FlusherMoves
<1>6. fallback' \in Answer
  <2>1. Result("sent") \in Answer /\ Result("rejected") \in Answer
    BY DEF Result, Answer
  <2>2. fallback' = fallback \/ fallback' = Result("sent") \/ fallback' = Result("rejected")
    BY DEF SendOk, SendRejected, SendFails, SendMeetsOpen, port
  <2> QED BY <2>1, <2>2 DEF ChatInv, TypeOK
<1>7. inbox' \subseteq Messages
  <2>1. inbox' = inbox \/ inbox' = inbox \cup {m}
    BY DEF SendOk, SendRejected, SendFails, SendMeetsOpen, wire
  <2> QED BY <2>1 DEF ChatInv, TypeOK
<1>8. busting' \in BOOLEAN /\ open' \in BOOLEAN
  <2>1. /\ busting' = busting \/ busting' = TRUE
        /\ open' = open \/ open' \in BOOLEAN
    BY DEF SendOk, SendRejected, SendFails, SendMeetsOpen, port
  <2>2. busting \in BOOLEAN /\ open \in BOOLEAN
    BY DEF ChatInv, TypeOK
  <2> QED BY <2>1, <2>2
<1>9. TypeOK'
  BY <1>1, <1>5, <1>6, <1>7, <1>8 DEF ChatInv, TypeOK
<1>10. Stored \subseteq Stored'
  BY <1>1 DEF Stored
<1> QED BY <1>1, <1>5, <1>9, <1>10, ReadersRest DEF ChatInv

\* A step of one reader leaves the others' guarantee alone.
LEMMA ReaderMoves ==
  ASSUME ChatInv, NEW r \in Readers, NEW x \in Reader, reader' = [reader EXCEPT ![r] = x],
         UNCHANGED row,
         x.pc # "idle" => x.user \in Users /\ x.asked \subseteq Stored \cap Own(x.user),
         x.pc = "shown" => x.asked \subseteq x.shown
  PROVE  reader' \in [Readers -> Reader] /\ AskedIsStored' /\ SeesOwnMessages'
<1>1. reader' \in [Readers -> Reader] /\ \A s \in Readers : reader'[s] = IF s = r THEN x ELSE reader[s]
  BY DEF ChatInv, TypeOK
<1>2. Stored' = Stored
  BY DEF Stored
<1>3. AskedIsStored'
  BY <1>1, <1>2 DEF ChatInv, AskedIsStored, Own
<1>4. SeesOwnMessages'
  BY <1>1 DEF ChatInv, SeesOwnMessages
<1> QED BY <1>1, <1>3, <1>4

\* getConversation comes in: the rows it must show are the ones stored by now.
LEMMA AskKeepsInv ==
  ASSUME ChatInv, NEW r \in Readers, NEW u \in Users,
         ReadCached(r, u) \/ ReadMeetsOpen(r, u) \/ ReadWire(r, u)
  PROVE  ChatInv'
<1>1. UNCHANGED <<row, sentAt, fallback, thread, busting, open, inbox, up, probe, flusher, faults>>
  BY DEF ReadCached, ReadMeetsOpen, ReadWire, port, wire
<1>2. PICK pc \in {"merge", "store"}, server \in SUBSET Messages : Ask(r, u, pc, server)
  <2>1. thread[u].msgs \in SUBSET Messages /\ fallback.msgs \in SUBSET Messages
        /\ inbox \cap Own(u) \in SUBSET Messages
    BY DEF ChatInv, TypeOK, Answer, Own
  <2>2. \/ Ask(r, u, "merge", thread[u].msgs) \/ Ask(r, u, "merge", fallback.msgs)
        \/ Ask(r, u, "store", inbox \cap Own(u)) \/ Ask(r, u, "store", {})
    BY DEF ReadCached, ReadMeetsOpen, ReadWire
  <2> QED BY <2>1, <2>2
<1>3. PICK x : x = [IdleReader EXCEPT !.pc = pc, !.user = u, !.asked = Stored \cap Own(u),
                                      !.server = server]
  OBVIOUS
<1>4. x \in Reader /\ x.pc = pc /\ x.user = u /\ x.asked = Stored \cap Own(u)
  <2>1. IdleReader \in Reader /\ Stored \cap Own(u) \in SUBSET Messages
    BY DEF IdleReader, Reader, Stored
  <2> QED BY <1>3, <2>1 DEF Reader
<1>5. reader' = [reader EXCEPT ![r] = x]
  BY <1>2, <1>3 DEF Ask
<1>6. reader' \in [Readers -> Reader] /\ AskedIsStored' /\ SeesOwnMessages'
  BY <1>1, <1>4, <1>5, ReaderMoves
<1>7. TypeOK' /\ MarksOwnMessage'
  BY <1>1, <1>6 DEF ChatInv, TypeOK, MarksOwnMessage
<1> QED BY <1>6, <1>7 DEF ChatInv

\* The thread read is remembered, twice.
LEMMA StoreThreadKeepsInv ==
  ASSUME ChatInv, NEW r \in Readers, StoreThread(r)
  PROVE  ChatInv'
<1>1. /\ UNCHANGED <<row, sentAt, busting, open, inbox, up, probe, flusher, faults>>
      /\ reader[r].pc = "store"
  BY DEF StoreThread, wire
<1>2. reader[r] \in Reader /\ reader[r].server \in SUBSET Messages
  BY DEF ChatInv, TypeOK, Reader
<1>3. PICK a : a = [kind |-> "thread", msgs |-> reader[r].server]
  OBVIOUS
<1>4. a \in Answer
  BY <1>2, <1>3 DEF Answer
<1>5. /\ fallback' = a
      /\ thread' = thread \/ thread' = [thread EXCEPT ![reader[r].user] = a]
  BY <1>3 DEF StoreThread
<1>6. fallback' \in Answer /\ thread' \in [Users -> Answer]
  BY <1>4, <1>5 DEF ChatInv, TypeOK
<1>7. PICK x : x = [reader[r] EXCEPT !.pc = "merge"]
  OBVIOUS
<1>8. x \in Reader /\ x.pc = "merge" /\ x.user = reader[r].user /\ x.asked = reader[r].asked
  BY <1>2, <1>7 DEF Reader
<1>9. reader' = [reader EXCEPT ![r] = x]
  BY <1>7 DEF StoreThread
<1>10. x.user \in Users /\ x.asked \subseteq Stored \cap Own(x.user)
  BY <1>1, <1>8 DEF ChatInv, AskedIsStored
<1>11. reader' \in [Readers -> Reader] /\ AskedIsStored' /\ SeesOwnMessages'
  BY <1>1, <1>8, <1>9, <1>10, ReaderMoves
<1>12. TypeOK' /\ MarksOwnMessage'
  BY <1>1, <1>6, <1>11 DEF ChatInv, TypeOK, MarksOwnMessage
<1> QED BY <1>11, <1>12 DEF ChatInv

\* The merge adds every row of the user the thread does not have.
LEMMA MergeKeepsInv ==
  ASSUME ChatInv, NEW r \in Readers, Merge(r) \/ ReadDone(r)
  PROVE  ChatInv'
<1>1. UNCHANGED <<row, sentAt, fallback, thread, busting, open, inbox, up, probe, flusher, faults>>
  BY DEF Merge, ReadDone, port, wire
<1>2. reader[r] \in Reader
  BY DEF ChatInv, TypeOK
<1>3. reader' \in [Readers -> Reader] /\ AskedIsStored' /\ SeesOwnMessages'
  <2>1. CASE Merge(r)
    <3>1. PICK x : x = [reader[r] EXCEPT !.pc = "shown",
                          !.shown = reader[r].shown \cup reader[r].server
                                      \cup (Stored \cap Own(reader[r].user))]
      OBVIOUS
    <3>2. /\ x \in Reader /\ x.pc = "shown" /\ x.user = reader[r].user /\ x.asked = reader[r].asked
          /\ Stored \cap Own(reader[r].user) \subseteq x.shown
      <4>1. Stored \cap Own(reader[r].user) \in SUBSET Messages
        BY DEF Stored
      <4> QED BY <1>2, <3>1, <4>1 DEF Reader
    <3>3. reader' = [reader EXCEPT ![r] = x]
      BY <1>2, <2>1, <3>1 DEF Merge, Reader
    <3>4. x.user \in Users /\ x.asked \subseteq Stored \cap Own(x.user)
      BY <2>1, <3>2 DEF Merge, ChatInv, AskedIsStored
    <3>5. x.asked \subseteq x.shown
      BY <3>2, <3>4
    <3> QED BY <1>1, <3>2, <3>3, <3>4, <3>5, ReaderMoves
  <2>2. CASE ReadDone(r)
    <3>1. IdleReader \in Reader /\ IdleReader.pc = "idle"
      BY DEF IdleReader, Reader
    <3>2. reader' = [reader EXCEPT ![r] = IdleReader]
      BY <2>2 DEF ReadDone
    <3> QED BY <1>1, <3>1, <3>2, ReaderMoves
  <2> QED BY <2>1, <2>2
<1>4. TypeOK' /\ MarksOwnMessage'
  BY <1>1, <1>3 DEF ChatInv, TypeOK, MarksOwnMessage
<1> QED BY <1>3, <1>4 DEF ChatInv

\* Caches expire, the circuit closes, the receiver comes and goes.
LEMMA EnvironmentKeepsInv ==
  ASSUME ChatInv,
         \/ \E u \in Users : ThreadExpires(u)
         \/ Bust \/ ProbeExpires \/ CircuitCloses \/ ReceiverTurns \/ UNCHANGED vars
  PROVE  ChatInv'
<1>1. UNCHANGED <<row, sentAt, fallback, inbox, flusher, reader, faults>>
  BY DEF ThreadExpires, Bust, ProbeExpires, CircuitCloses, ReceiverTurns, vars, port, wire
<1>2. thread' \in [Users -> Answer]
  <2>1. NoAnswer \in Answer
    BY DEF NoAnswer, Answer
  <2>2. \/ thread' = thread \/ thread' = [u \in Users |-> NoAnswer]
        \/ \E u \in Users : thread' = [thread EXCEPT ![u] = NoAnswer]
    BY DEF ThreadExpires, Bust, ProbeExpires, CircuitCloses, ReceiverTurns, vars, port
  <2> QED BY <2>1, <2>2 DEF ChatInv, TypeOK
<1>3. probe' \in [fresh : BOOLEAN, ok : BOOLEAN]
  <2>1. probe' = probe \/ probe' = [probe EXCEPT !.fresh = FALSE]
    BY DEF ThreadExpires, Bust, ProbeExpires, CircuitCloses, ReceiverTurns, vars
  <2> QED BY <2>1 DEF ChatInv, TypeOK
<1>4. up' \in BOOLEAN /\ busting' \in BOOLEAN /\ open' \in BOOLEAN
  <2>1. /\ up' = up \/ up' = ~up
        /\ busting' = busting \/ busting' = FALSE
        /\ open' = open \/ open' = FALSE
    BY DEF ThreadExpires, Bust, ProbeExpires, CircuitCloses, ReceiverTurns, vars, port, wire
  <2>2. up \in BOOLEAN /\ busting \in BOOLEAN /\ open \in BOOLEAN
    BY DEF ChatInv, TypeOK
  <2> QED BY <2>1, <2>2
<1>5. TypeOK' /\ MarksOwnMessage'
  BY <1>1, <1>2, <1>3, <1>4 DEF ChatInv, TypeOK, MarksOwnMessage
<1>6. Stored \subseteq Stored'
  BY <1>1 DEF Stored
<1> QED BY <1>1, <1>5, <1>6, ReadersRest DEF ChatInv

\* A crash ends every flush and every request; the rows are in the database.
LEMMA ChatCrashKeepsInv ==
  ASSUME ChatInv, Crash
  PROVE  ChatInv'
<1>1. /\ UNCHANGED <<row, sentAt, thread, inbox, up>>
      /\ flusher' = [f \in Flushers |-> IdleFlusher] /\ reader' = [r \in Readers |-> IdleReader]
      /\ fallback' = NoAnswer /\ busting' = FALSE /\ open' = FALSE /\ probe' = NoProbe
      /\ faults < MaxFaults /\ faults' = faults + 1
  BY DEF Crash, Fault, wire
<1>2. /\ IdleFlusher \in Flusher /\ IdleFlusher.pc = "idle"
      /\ IdleReader \in Reader /\ IdleReader.pc = "idle"
  BY DEF IdleFlusher, IdleReader, Flusher, Reader
<1>3. NoAnswer \in Answer /\ NoProbe \in [fresh : BOOLEAN, ok : BOOLEAN]
  BY DEF NoAnswer, NoProbe, Answer
<1>4. faults' \in 0..MaxFaults
  <2>1. faults \in 0..MaxFaults /\ MaxFaults \in Nat
    BY ChatAssumption DEF ChatInv, TypeOK, ChatAssumption
  <2> QED BY <1>1, <2>1
<1>5. busting' \in BOOLEAN /\ open' \in BOOLEAN
  BY <1>1
<1>6. flusher' \in [Flushers -> Flusher] /\ reader' \in [Readers -> Reader]
  BY <1>1, <1>2
<1>7. TypeOK'
  BY <1>1, <1>3, <1>4, <1>5, <1>6 DEF ChatInv, TypeOK
<1>8. MarksOwnMessage' /\ AskedIsStored' /\ SeesOwnMessages'
  BY <1>1, <1>2 DEF MarksOwnMessage, AskedIsStored, SeesOwnMessages
<1> QED BY <1>7, <1>8 DEF ChatInv

\* Each step of the chat keeps the invariant.
LEMMA ChatInvStep == ChatInv /\ [Next]_vars => ChatInv'
<1> SUFFICES ASSUME ChatInv, [Next]_vars PROVE ChatInv'
  OBVIOUS
<1>1. ASSUME NEW m \in Messages, SendMessage(m) PROVE ChatInv'
  BY <1>1, SendMessageKeepsInv
<1>2. ASSUME NEW f \in Flushers,
             \/ ProbeCached(f) \/ ProbeStart(f) \/ ProbeDone(f) \/ SelectPending(f)
             \/ MarkFails(f) \/ FlushDone(f)
      PROVE  ChatInv'
  BY <1>2, FlushKeepsInv
<1>3. ASSUME NEW f \in Flushers, MarkForwarded(f) PROVE ChatInv'
  BY <1>3, MarkForwardedKeepsInv
<1>4. ASSUME NEW f \in Flushers, NEW m \in Messages,
             SendOk(f, m) \/ SendRejected(f, m) \/ SendFails(f, m) \/ SendMeetsOpen(f, m)
      PROVE  ChatInv'
  BY <1>4, SendKeepsInv
<1>5. ASSUME NEW r \in Readers, NEW u \in Users,
             ReadCached(r, u) \/ ReadMeetsOpen(r, u) \/ ReadWire(r, u)
      PROVE  ChatInv'
  BY <1>5, AskKeepsInv
<1>6. ASSUME NEW r \in Readers, StoreThread(r) \/ Merge(r) \/ ReadDone(r) PROVE ChatInv'
  BY <1>6, StoreThreadKeepsInv, MergeKeepsInv
<1>7. CASE \/ \E u \in Users : ThreadExpires(u)
           \/ Bust \/ ProbeExpires \/ CircuitCloses \/ ReceiverTurns \/ UNCHANGED vars
  BY <1>7, EnvironmentKeepsInv
<1>8. CASE Crash
  BY <1>8, ChatCrashKeepsInv
<1> QED BY <1>1, <1>2, <1>3, <1>4, <1>5, <1>6, <1>7, <1>8 DEF Next

\* Whatever thread the port answers with (fresh, cached, of an outage, the fallback's)
\* and however flushes, reads, expiry and crashes interleave, the conversation shown to
\* a customer has every message he sent before he asked (SupportService.getConversation).
THEOREM ConversationsAreWhole == Spec => []ChatSafe
<1>1. ChatInv => ChatSafe
  BY DEF ChatInv, ChatSafe
<1> QED BY <1>1, ChatInvInit, ChatInvStep, PTL DEF Spec

-----------------------------------------------------------------------------
(* Cached fallback results (FallbackProvider) *)

Timer == [key : FallbackKeys, left : Nat, version : Nat]

\* Some timer of the key is due no later than its ttl.
TimerArmed(k) == \E m \in timers : m.key = k /\ m.left <= ttl[k] - age[k]

FallbackInv ==
  /\ fallbackCache \in [FallbackKeys -> Nat]
  /\ timers \subseteq Timer
  /\ ttl \in [FallbackKeys -> Nat] /\ age \in [FallbackKeys -> Nat]
  /\ version \in Nat
  /\ \A k \in FallbackKeys : fallbackCache[k] # 0 /\ ttl[k] > 0 => TimerArmed(k)

\* Both Maps are empty and no timer is armed.
LEMMA FallbackInvInit == FallbackInit => FallbackInv
  BY DEF FallbackInit, FallbackInv

\* setCached() arms a timer of its own; those of before stay.
LEMMA SucceedsKeepsInv ==
  ASSUME FallbackInv, NEW k \in FallbackKeys, NEW t \in Ttls, DecoratedSucceeds(k, t)
  PROVE  FallbackInv'
<1>1. /\ fallbackCache' = [fallbackCache EXCEPT ![k] = version + 1]
      /\ ttl' = [ttl EXCEPT ![k] = t] /\ age' = [age EXCEPT ![k] = 0] /\ version' = version + 1
      /\ timers' = IF t > 0 THEN timers \cup {[key |-> k, left |-> t, version |-> version + 1]}
                   ELSE timers
  BY DEF DecoratedSucceeds, SetCached
<1>2. t \in Nat /\ version \in Nat /\ version + 1 \in Nat
  BY FallbackAssumption DEF FallbackAssumption, FallbackInv
<1>3. PICK n : n = [key |-> k, left |-> t, version |-> version + 1]
  OBVIOUS
<1>4. n \in Timer /\ n.key = k /\ n.left = t
  BY <1>2, <1>3 DEF Timer
<1>5. timers \subseteq timers' /\ timers' \subseteq Timer /\ (t > 0 => n \in timers')
  BY <1>1, <1>3, <1>4 DEF FallbackInv
<1>6. /\ fallbackCache' \in [FallbackKeys -> Nat] /\ ttl' \in [FallbackKeys -> Nat]
      /\ age' \in [FallbackKeys -> Nat] /\ version' \in Nat
  BY <1>1, <1>2 DEF FallbackInv
<1>7. ASSUME NEW j \in FallbackKeys, fallbackCache'[j] # 0, ttl'[j] > 0
      PROVE  TimerArmed(j)'
  <2>1. CASE j = k
    <3>1. ttl'[j] = t /\ age'[j] = 0 /\ n \in timers'
      BY <1>1, <1>5, <1>7, <2>1 DEF FallbackInv
    <3> QED BY <1>2, <1>4, <2>1, <3>1 DEF TimerArmed
  <2>2. CASE j # k
    <3>1. ttl'[j] = ttl[j] /\ age'[j] = age[j] /\ fallbackCache'[j] = fallbackCache[j]
      BY <1>1, <2>2 DEF FallbackInv
    <3>2. TimerArmed(j)
      BY <1>7, <3>1 DEF FallbackInv
    <3> QED BY <1>5, <3>1, <3>2 DEF TimerArmed
  <2> QED BY <2>1, <2>2
<1> QED BY <1>5, <1>6, <1>7 DEF FallbackInv

\* A timer deletes its own key's entry, so nobody is left who relied on it.
LEMMA TimerFiresKeepsInv ==
  ASSUME FallbackInv, NEW m \in timers, TimerFires(m)
  PROVE  FallbackInv'
<1>1. /\ timers' = timers \ {m} /\ fallbackCache' = [fallbackCache EXCEPT ![m.key] = 0]
      /\ UNCHANGED <<ttl, age, version>>
  BY DEF TimerFires
<1>2. m.key \in FallbackKeys
  BY DEF FallbackInv, Timer
<1>3. fallbackCache' \in [FallbackKeys -> Nat] /\ timers' \subseteq Timer
  BY <1>1 DEF FallbackInv
<1>4. ASSUME NEW j \in FallbackKeys, fallbackCache'[j] # 0, ttl'[j] > 0
      PROVE  TimerArmed(j)'
  <2>1. j # m.key /\ fallbackCache'[j] = fallbackCache[j]
    BY <1>1, <1>2, <1>4 DEF FallbackInv
  <2>2. TimerArmed(j)
    BY <1>1, <1>4, <2>1 DEF FallbackInv
  <2> QED BY <1>1, <2>1, <2>2 DEF TimerArmed
<1> QED BY <1>1, <1>3, <1>4 DEF FallbackInv

\* Time brings every timer and every age on alike.
LEMMA FallbackTickKeepsInv ==
  ASSUME FallbackInv, FallbackTick
  PROVE  FallbackInv'
<1>1. /\ \A m \in timers : m.left > 0
      /\ timers' = {[m EXCEPT !.left = m.left - 1] : m \in timers}
      /\ UNCHANGED <<fallbackCache, ttl, version>>
  BY DEF FallbackTick
<1>2. \A k \in FallbackKeys : age'[k] = age[k] \/ age'[k] = age[k] + 1
  BY DEF FallbackTick
<1>3. age' \in [FallbackKeys -> Nat]
  BY DEF FallbackTick, FallbackInv
<1>4. ASSUME NEW m \in timers
      PROVE  /\ [m EXCEPT !.left = m.left - 1] \in Timer
             /\ [m EXCEPT !.left = m.left - 1].key = m.key
             /\ [m EXCEPT !.left = m.left - 1].left = m.left - 1
  <2>1. m \in Timer /\ m.left \in Nat /\ m.left > 0
    BY <1>1 DEF FallbackInv, Timer
  <2>2. m.left - 1 \in Nat
    BY <2>1
  <2> QED BY <2>1, <2>2 DEF Timer
<1>5. timers' \subseteq Timer
  BY <1>1, <1>4
<1>6. ASSUME NEW k \in FallbackKeys, fallbackCache'[k] # 0, ttl'[k] > 0
      PROVE  TimerArmed(k)'
  <2>1. TimerArmed(k)
    BY <1>1, <1>6 DEF FallbackInv
  <2>2. PICK m \in timers : m.key = k /\ m.left <= ttl[k] - age[k]
    BY <2>1 DEF TimerArmed
  <2>3. PICK n \in timers' : n.key = k /\ n.left = m.left - 1
    BY <1>1, <1>4, <2>2
  <2>4. m.left \in Nat /\ ttl[k] \in Nat /\ age[k] \in Nat
    BY DEF FallbackInv, Timer
  <2>5. m.left - 1 <= ttl[k] - age'[k]
    BY <1>2, <2>2, <2>4
  <2> QED BY <1>1, <2>3, <2>5 DEF TimerArmed
<1> QED BY <1>1, <1>3, <1>5, <1>6 DEF FallbackInv

\* Each step of the provider keeps the invariant.
LEMMA FallbackInvStep == FallbackInv /\ [FallbackNext]_fallbackVars => FallbackInv'
<1> SUFFICES ASSUME FallbackInv, [FallbackNext]_fallbackVars PROVE FallbackInv'
  OBVIOUS
<1>1. ASSUME NEW k \in FallbackKeys, NEW t \in Ttls, DecoratedSucceeds(k, t) PROVE FallbackInv'
  BY <1>1, SucceedsKeepsInv
<1>2. ASSUME NEW m \in timers, TimerFires(m) PROVE FallbackInv'
  BY <1>2, TimerFiresKeepsInv
<1>3. CASE FallbackTick
  BY <1>3, FallbackTickKeepsInv
<1>4. ASSUME UNCHANGED <<timers, ttl, age, version>>,
             fallbackCache' \in [FallbackKeys -> Nat],
             \A k \in FallbackKeys : fallbackCache'[k] = fallbackCache[k] \/ fallbackCache'[k] = 0
      PROVE  FallbackInv'
  BY <1>4 DEF FallbackInv, TimerArmed
<1>5. ASSUME NEW k \in FallbackKeys, ClearCached(k) PROVE FallbackInv'
  BY <1>4, <1>5 DEF ClearCached, FallbackInv
<1>6. CASE ClearAll
  BY <1>4, <1>6 DEF ClearAll, FallbackInv
<1>7. CASE UNCHANGED <<fallbackCache, timers, ttl, age, version>>
  BY <1>4, <1>7 DEF FallbackInv
<1>8. CASE UNCHANGED fallbackVars
  BY <1>7, <1>8 DEF fallbackVars
<1> QED BY <1>1, <1>2, <1>3, <1>5, <1>6, <1>7, <1>8
        DEF FallbackNext, Register, Unregister, FallbackExecute, DecoratedFailsToCache,
            DecoratedFailsToFunction

\* Through every order of overwrites, clears and timers left over by them, a result
\* cached with a ttl is gone once the ttl has passed (FallbackProvider.setCached).
THEOREM FallbacksExpire == FallbackSpec => []FallbackIsHonest
<1>1. FallbackInv => FallbackIsHonest
  <2> SUFFICES ASSUME FallbackInv, NEW k \in FallbackKeys, fallbackCache[k] # 0, ttl[k] > 0
               PROVE  /\ age[k] <= ttl[k]
                      /\ \E m \in timers : m.key = k /\ m.left <= ttl[k] - age[k]
    BY DEF FallbackIsHonest
  <2>1. PICK m \in timers : m.key = k /\ m.left <= ttl[k] - age[k]
    BY DEF FallbackInv, TimerArmed
  <2>2. m.left \in Nat /\ ttl[k] \in Nat /\ age[k] \in Nat
    BY DEF FallbackInv, Timer
  <2> QED BY <2>1, <2>2
<1>2. FallbackSpec => []FallbackInv
  BY FallbackInvInit, FallbackInvStep, PTL DEF FallbackSpec
<1> QED BY <1>1, <1>2, PTL

-----------------------------------------------------------------------------
(* Numbers: a set of them has a least one, a bounded set a greatest one *)

LEMMA LeastNatural ==
  ASSUME NEW S \in SUBSET Nat, S # {}
  PROVE  \E n \in S : \A m \in S : n <= m
<1> DEFINE R == OpToRel(<, Nat)
<1>1. IsWellFoundedOn(R, Nat)
  BY NatLessThanWellFounded
<1>2. \A x, y \in Nat : x < y => <<x, y>> \in R
  BY DEF OpToRel
<1> HIDE DEF R
<1>3. PICK n \in S : \A m \in S : ~ (<<m, n>> \in R)
  BY <1>1, WFMin
<1>4. ASSUME NEW m \in S PROVE n <= m
  <2>1. m \in Nat /\ n \in Nat
    OBVIOUS
  <2>2. ~ (m < n)
    BY <1>2, <1>3, <2>1
  <2> QED BY <2>1, <2>2
<1> QED BY <1>4

LEMMA GreatestBounded ==
  ASSUME NEW n \in Nat, NEW S \in SUBSET (0..n), S # {}
  PROVE  \E g \in S : \A m \in S : m <= g
<1> DEFINE T == {t \in Nat : n - t \in S}
<1>1. T \in SUBSET Nat /\ T # {}
  <2>1. PICK s \in S : TRUE
    OBVIOUS
  <2>2. n - s \in Nat /\ n - (n - s) = s
    OBVIOUS
  <2> QED BY <2>2
<1>2. PICK l \in T : \A m \in T : l <= m
  <2> HIDE DEF T
  <2> QED BY <1>1, LeastNatural
<1>3. ASSUME NEW m \in S PROVE m <= n - l
  <2>1. n - m \in Nat /\ n - (n - m) = m
    OBVIOUS
  <2>2. n - m \in T
    BY <2>1
  <2> QED BY <1>2, <2>1, <2>2
<1> QED BY <1>2, <1>3

-----------------------------------------------------------------------------
(* Fan-out over several ports (Aggregation) *)

\* What a settled call brings: data of the port it asked, null, or nothing.
Settlement == [call : DOMAIN fanOut, success : BOOLEAN,
               data : (DataValues \X STRING) \cup {NoData, Missing}]
Brings(r) ==
  /\ ~ r.success => r.data = Missing
  /\ r.data \notin {NoData, Missing} => r.data[2] = fanOut[r.call]

AllBring == \A s \in DOMAIN settled : Brings(settled[s])

\* Each call settles once.
SettledOnce == \A s, t \in DOMAIN settled : settled[s].call = settled[t].call => s = t

FanOutInv ==
  /\ fanOut \in Seq(STRING)
  /\ settled \in Seq(Settlement)
  /\ AllBring
  /\ SettledOnce
  /\ results # <<>> =>
       /\ \A i \in DOMAIN fanOut : HasSettled(i)
       /\ results = [i \in DOMAIN fanOut |-> ResultOf(i)]

LEMMA FanOutInvInit == FanOutInit => FanOutInv
BY FanOutAssumption DEF FanOutAssumption, FanOutInit, FanOutInv, SettledOnce, AllBring, Settlement

\* A call that settles adds one settlement, of a call that had none.
LEMMA SettlesKeepsInv ==
  ASSUME FanOutInv, NEW i \in DOMAIN fanOut, ~ HasSettled(i),
         NEW r \in Settlement, r.call = i, Brings(r),
         settled' = Append(settled, r), UNCHANGED <<fanOut, results>>
  PROVE  FanOutInv'
<1> USE DEF FanOutInv
<1>1. fanOut' = fanOut /\ results' = results
  OBVIOUS
<1>2. Settlement' = Settlement
  BY <1>1 DEF Settlement
<1>3. settled' \in Seq(Settlement)
  OBVIOUS
<1>4. /\ DOMAIN settled' = DOMAIN settled \cup {Len(settled) + 1}
      /\ Len(settled) + 1 \notin DOMAIN settled
      /\ settled'[Len(settled) + 1] = r
      /\ \A s \in DOMAIN settled : settled'[s] = settled[s]
  OBVIOUS
<1>5. AllBring'
  BY <1>1, <1>4 DEF AllBring, Brings
<1>6. \A s \in DOMAIN settled : settled[s].call # i
  BY DEF HasSettled
<1>7. SettledOnce'
  BY <1>4, <1>6 DEF SettledOnce
<1>8. results = <<>>
  OBVIOUS
<1> QED BY <1>1, <1>2, <1>3, <1>5, <1>7, <1>8

LEMMA FanOutInvStep == FanOutInv /\ [FanOutNext]_fanOutVars => FanOutInv'
<1> SUFFICES ASSUME FanOutInv, [FanOutNext]_fanOutVars PROVE FanOutInv'
  OBVIOUS
<1>1. ASSUME NEW i \in DOMAIN fanOut, Fulfilled(i) PROVE FanOutInv'
  <2>1. PICK data \in (DataValues \X {fanOut[i]}) \cup {NoData, Missing} :
          settled' = Append(settled, [call |-> i, success |-> TRUE, data |-> data])
    BY <1>1 DEF Fulfilled
  <2>2. fanOut[i] \in STRING
    BY DEF FanOutInv
  <2>3. PICK r : r = [call |-> i, success |-> TRUE, data |-> data]
    OBVIOUS
  <2>4. r \in Settlement /\ r.call = i /\ r.success = TRUE /\ r.data = data
    BY <2>2, <2>3 DEF Settlement
  <2>5. Brings(r)
    BY <2>4 DEF Brings
  <2> QED BY <1>1, <2>1, <2>3, <2>4, <2>5, SettlesKeepsInv DEF Fulfilled
<1>2. ASSUME NEW i \in DOMAIN fanOut, Rejected(i) PROVE FanOutInv'
  <2>1. PICK r : r = [call |-> i, success |-> FALSE, data |-> Missing]
    OBVIOUS
  <2>2. r \in Settlement /\ r.call = i /\ r.success = FALSE /\ r.data = Missing
    BY <2>1 DEF Settlement
  <2>3. Brings(r)
    BY <2>2 DEF Brings
  <2> QED BY <1>2, <2>1, <2>2, <2>3, SettlesKeepsInv DEF Rejected
<1>3. CASE ExecuteAll
  <2>1. /\ fanOut' = fanOut /\ settled' = settled
        /\ results' = [i \in DOMAIN fanOut |-> ResultOf(i)]
        /\ \A i \in DOMAIN fanOut : HasSettled(i)
    BY <1>3 DEF ExecuteAll
  <2>2. \A i \in DOMAIN fanOut : ResultOf(i)' = ResultOf(i)
    BY <2>1 DEF ResultOf
  <2> QED BY <2>1, <2>2 DEF FanOutInv, Settlement, AllBring, Brings, SettledOnce, HasSettled
<1>4. CASE UNCHANGED fanOutVars
  <2>1. fanOut' = fanOut /\ settled' = settled /\ results' = results
    BY <1>4 DEF fanOutVars
  <2>2. \A i \in DOMAIN fanOut : ResultOf(i)' = ResultOf(i)
    BY <2>1 DEF ResultOf
  <2> QED BY <2>1, <2>2 DEF FanOutInv, Settlement, AllBring, Brings, SettledOnce, HasSettled
<1> QED BY <1>1, <1>2, <1>3, <1>4 DEF FanOutNext

\* The result at an index is what the one settlement of that call brought.
LEMMA ResultTells ==
  ASSUME FanOutInv, results # <<>>, NEW i \in DOMAIN fanOut
  PROVE  /\ \E s \in DOMAIN settled : settled[s].call = i
         /\ \A s \in DOMAIN settled : settled[s].call = i =>
              /\ results[i].portName = fanOut[i]
              /\ results[i].success = settled[s].success
              /\ results[i].data = settled[s].data
              /\ Brings(settled[s])
<1>1. \E s \in DOMAIN settled : settled[s].call = i
  BY DEF FanOutInv, HasSettled
<1> DEFINE c == CHOOSE s \in DOMAIN settled : settled[s].call = i
<1>2. c \in DOMAIN settled /\ settled[c].call = i
  BY <1>1
<1>3. results[i] = [portName |-> fanOut[i], success |-> settled[c].success,
                    data |-> settled[c].data]
  BY DEF FanOutInv, ResultOf
<1> HIDE DEF c
<1>4. ASSUME NEW s \in DOMAIN settled, settled[s].call = i PROVE s = c
  BY <1>2, <1>4 DEF FanOutInv, SettledOnce
<1>5. Brings(settled[c])
  BY <1>2 DEF FanOutInv, AllBring
<1> QED BY <1>1, <1>3, <1>4, <1>5

\* Of some calls of one port, the last is one of them and after the others.
LEMMA LastIsLast ==
  ASSUME FanOutInv, NEW p, NEW I \in SUBSET (DOMAIN fanOut), I # {},
         \A i \in I : results[i].portName = p
  PROVE  LastOf(p, I) \in I /\ \A j \in I : j <= LastOf(p, I)
<1>1. Len(fanOut) \in Nat /\ I \in SUBSET (0 .. Len(fanOut))
  BY DEF FanOutInv
<1>2. PICK g \in I : \A m \in I : m <= g
  BY <1>1, GreatestBounded
<1>3. \E i \in I : results[i].portName = p /\ \A j \in I : j <= i
  BY <1>2
<1> QED BY <1>3 DEF LastOf

\* Whatever order the calls settle in and whichever of them fail, no map of the
\* aggregation mixes up the ports' answers (executeAll, resolveToMap,
\* resolveSuccessful).
THEOREM AnswersStayApart == FanOutSpec => []FailuresStayApart
<1>1. FanOutInv => FailuresStayApart
  <2> SUFFICES ASSUME FanOutInv, results # <<>>, NEW p \in Called
               PROVE  LET asked == {i \in DOMAIN fanOut : fanOut[i] = p}
                          kept == IF p \in DOMAIN ResolveSuccessful
                                  THEN ResolveSuccessful[p] ELSE NoData
                      IN /\ kept # NoData => kept[2] = p
                         /\ ResolveToMap[p] # NoData => ResolveToMap[p] = kept
                         /\ ResolveToMap[p] # kept => Cardinality(asked) > 1
                         /\ \A s \in DOMAIN settled :
                              asked = {settled[s].call} /\ settled[s].data \notin {NoData, Missing}
                                => kept = settled[s].data
    BY DEF FailuresStayApart
  <2> DEFINE asked == {i \in DOMAIN fanOut : fanOut[i] = p}
             A == {i \in DOMAIN results : results[i].portName = p}
             K == {i \in DOMAIN results : results[i].portName = p /\ results[i].success
                                          /\ results[i].data # Missing}
             a == LastOf(p, A)
             k == LastOf(p, K)
             kept == IF p \in DOMAIN ResolveSuccessful THEN ResolveSuccessful[p] ELSE NoData
             all == ResolveToMap[p]
  <2>1. DOMAIN results = DOMAIN fanOut
    BY DEF FanOutInv
  <2>2. A = asked /\ K \subseteq A
    BY <2>1, ResultTells
  <2>3. all = IF results[a].success /\ results[a].data # Missing THEN results[a].data ELSE NoData
    BY DEF ResolveToMap
  <2>4. kept = IF K # {} THEN results[k].data ELSE NoData
    BY DEF ResolveSuccessful
  <2>5. asked # {} /\ asked \subseteq DOMAIN fanOut
    BY DEF Called
  <2>6. a \in A /\ \A j \in A : j <= a
    BY <2>2, <2>5, LastIsLast
  <2>7. K # {} => k \in K /\ \A j \in K : j <= k
    BY <2>2, <2>5, LastIsLast
  <2>8. \A i \in K : i \in asked /\ results[i].success /\ results[i].data # Missing
    BY <2>2
  <2>9. \A i \in asked : results[i].success /\ results[i].data # Missing => i \in K
    BY <2>2
  <2>10. DOMAIN fanOut = 1 .. Len(fanOut) /\ Len(fanOut) \in Nat
    BY DEF FanOutInv
  <2> HIDE DEF A, K, a, k, kept, all, asked
  <2>11. kept # NoData => kept[2] = p
    <3> SUFFICES ASSUME kept # NoData PROVE kept[2] = p
      OBVIOUS
    <3>1. k \in K /\ kept = results[k].data
      BY <2>4, <2>7
    <3>2. k \in DOMAIN fanOut /\ fanOut[k] = p
      BY <2>5, <2>8, <3>1 DEF asked
    <3>3. PICK s \in DOMAIN settled : settled[s].call = k
      BY <3>2, ResultTells
    <3>4. results[k].data = settled[s].data /\ Brings(settled[s])
      BY <3>2, <3>3, ResultTells
    <3>5. settled[s].data \notin {NoData, Missing}
      BY <2>8, <3>1, <3>4
    <3> QED BY <3>1, <3>2, <3>3, <3>4, <3>5 DEF Brings
  <2>12. all # NoData => all = kept
    <3> SUFFICES ASSUME all # NoData PROVE all = kept
      OBVIOUS
    <3>1. results[a].success /\ results[a].data # Missing /\ all = results[a].data
      BY <2>3
    <3>2. a \in K
      BY <2>2, <2>6, <2>9, <3>1
    <3>3. a <= k /\ k <= a
      BY <2>2, <2>6, <2>7, <3>2
    <3>4. a \in Nat /\ k \in Nat
      BY <2>2, <2>5, <2>6, <2>7, <2>10, <3>2
    <3>5. a = k
      BY <3>3, <3>4
    <3> QED BY <2>4, <3>1, <3>2, <3>5
  <2>13. ASSUME NEW i, asked = {i} PROVE a = i /\ (K # {} => k = i)
    BY <2>2, <2>6, <2>7, <2>13
  <2>14. ASSUME all # kept PROVE Cardinality(asked) > 1
    <3>1. IsFiniteSet(asked)
      <4>1. IsFiniteSet(1 .. Len(fanOut))
        BY <2>10, FS_Interval
      <4> QED BY <2>5, <2>10, <4>1, FS_Subset
    <3>2. Cardinality(asked) \in Nat /\ Cardinality(asked) # 0
      BY <2>5, <3>1, FS_CardinalityType, FS_EmptySet
    <3>3. ASSUME Cardinality(asked) = 1 PROVE FALSE
      <4>1. PICK i : asked = {i}
        BY <3>1, <3>3, FS_Singleton
      <4>2. a = i /\ (K # {} => k = i)
        BY <2>13, <4>1
      <4>3. all = NoData
        BY <2>12, <2>14
      <4>4. K # {} => results[k].success /\ results[k].data # Missing
        BY <2>7, <2>8
      <4> QED BY <2>3, <2>4, <2>14, <4>2, <4>3, <4>4
    <3> QED BY <3>2, <3>3
  <2>15. ASSUME NEW s \in DOMAIN settled, asked = {settled[s].call},
                settled[s].data \notin {NoData, Missing}
         PROVE  kept = settled[s].data
    <3>1. PICK i : i = settled[s].call
      OBVIOUS
    <3>2. asked = {i} /\ i \in DOMAIN fanOut
      BY <2>5, <2>15, <3>1
    <3>3. results[i].data = settled[s].data /\ results[i].success = settled[s].success
          /\ Brings(settled[s])
      BY <3>1, <3>2, ResultTells
    <3>4. i \in K
      BY <2>9, <2>15, <3>2, <3>3 DEF Brings
    <3>5. k = i
      BY <2>13, <3>2, <3>4
    <3> QED BY <2>4, <3>3, <3>4, <3>5
  <2> QED BY <2>11, <2>12, <2>14, <2>15 DEF kept, all, asked
<1>2. FanOutSpec => []FanOutInv
  BY FanOutInvInit, FanOutInvStep, PTL DEF FanOutSpec
<1> QED BY <1>1, <1>2, PTL

-----------------------------------------------------------------------------
(* The ceilings of customer binding (BindingLimiter) *)

\* The order in which recordFailure bumps the ceilings.
rank == [user_ref |-> 1, customer_ref |-> 2, session |-> 3]

\* Is a request in position x still to bump the counter of k for a wrong answer?
Owes(x, k) ==
  \E c \in Ceilings :
    /\ k = Key(c, x.user, x.ref)
    /\ \/ x.pc \in {"get", "set"} /\ rank[c] >= rank[x.ceiling]
       \/ x.pc \in {"lock", "delete"} /\ rank[c] > rank[x.ceiling]

Active == {q \in Requests : req[q].pc # "idle"}
OwedBy(k) == {q \in Active : Owes(req[q], k)}

\* A request under way has a user and a customer, and recordFailure's positions
\* and the ceilings of checkLocked and clearFailures go together.
Placed ==
  \A q \in Active :
    /\ req[q].user \in Binders /\ req[q].ref \in Refs

\* Enough wrong answers to lock k, and one more?
Saturated(k) == wrong[k] > Limit(k)

\* Every failure a counter shows, and every one that a pending bump will add to it,
\* was a wrong answer of its own.
Accounted ==
  /\ \A k \in Keys : Saturated(k) \/ count[k] + Cardinality(OwedBy(k)) <= wrong[k]
  /\ \A q \in Active :
       req[q].pc = "set" =>
         LET k == key(q) IN
         Saturated(k) \/ req[q].read + Cardinality(OwedBy(k)) <= wrong[k]

\* Who is about to arm a lock has seen its ceiling reached.
LockIsDue == \A q \in Active : req[q].pc = "lock" => wrong[key(q)] >= Limit(key(q))

EarlyInv ==
  /\ LimiterTypeOK
  /\ Placed
  /\ IsFiniteSet(Active)
  /\ Accounted
  /\ LockIsDue
  /\ NoEarlyLock

\* The ceilings checkLocked has passed when it turns to c.
Passed(x) ==
  IF x.pc = "verify" THEN Ceilings
  ELSE IF x.pc = "check" /\ x.ceiling = "user_ref" THEN {"session"}
  ELSE IF x.pc = "check" /\ x.ceiling = "customer_ref" THEN {"session", "user_ref"}
  ELSE {}

\* Is a request in position x arming the lock of k or clearing its counter?
Arming(x, k) == x.pc \in {"lock", "delete"} /\ k = Key(x.ceiling, x.user, x.ref)

\* What calm means to the one request there is.
CalmRequest(x) ==
  /\ \A c \in Passed(x) : ~lock[Key(c, x.user, x.ref)]
  /\ \A k \in Keys : Owes(x, k) =>
       ~lock[k] /\ wrong[k] = count[k] + 1 /\ count[k] < Limit(k)
  /\ x.pc = "set" => x.live /\ x.read = count[Key(x.ceiling, x.user, x.ref)]
  /\ \A k \in Keys : Arming(x, k) =>
       wrong[k] = Limit(k) /\ (x.pc = "delete" => lock[k]) /\ (x.pc = "lock" => ~lock[k])

\* A key that no request is at shows each of its wrong answers, or is locked.
Settled(k) ==
  IF lock[k] THEN count[k] = 0 /\ wrong[k] = Limit(k)
  ELSE wrong[k] = count[k] /\ count[k] < Limit(k)

\* As long as it is calm there is one request at a time, every key that it is not at
\* is settled, and no ceiling is passed.
CalmInv ==
  calm =>
    /\ \A p, q \in Active : p = q
    /\ \A q \in Active : CalmRequest(req[q])
    /\ \A k \in Keys :
         (\A q \in Active : ~Owes(req[q], k) /\ ~Arming(req[q], k)) =>
           Settled(k)
    /\ \A k \in Keys : wrong[k] <= Limit(k)

\* checkLocked begins with the session ceiling.
AtRest == \A q \in Requests : req[q].pc = "idle" => req[q].ceiling = "session"

LimiterInv == EarlyInv /\ AtRest /\ CalmInv

-----------------------------------------------------------------------------
(* Keys, positions and debts *)

\* The counters of a request's three ceilings are different cache keys.
LEMMA KeyFacts ==
  /\ \A c \in Ceilings, u \in Binders, r \in Refs : Key(c, u, r) \in Keys
  /\ \A c, d \in Ceilings : \A u, v, r, t : Key(c, u, r) = Key(d, v, t) => c = d
  BY DEF Key, Keys, Ceilings

\* Every ceiling that is counted has a positive limit.
LEMMA LimitIsPositive == ASSUME NEW k \in Keys PROVE Limit(k) \in Nat /\ Limit(k) > 0
<1>1. UserRefLimit \in Nat \ {0} /\ CustomerRefLimit \in Nat \ {0} /\ UserTotalLimit \in Nat \ {0}
  BY LimiterAssumption DEF LimiterAssumption
<1>2. k[1] \in Ceilings
  BY DEF Keys, Key, Ceilings
<1> QED BY <1>1, <1>2 DEF Limit, Ceilings

\* What Step writes to a request.
LEMMA StepRecord ==
  ASSUME NEW x \in Request, NEW l \in PC, NEW c \in Ceilings
  PROVE  LET y == [x EXCEPT !.pc = l, !.ceiling = c, !.read = 0, !.live = TRUE] IN
         /\ y \in Request
         /\ y.pc = l /\ y.ceiling = c /\ y.read = 0 /\ y.live = TRUE
         /\ y.user = x.user /\ y.ref = x.ref
  BY DEF Request

\* A request that is not running owes no counter an increment.
LEMMA IdleRecord ==
  /\ Idle \in Request /\ Idle.pc = "idle" /\ Idle.ceiling = "session"
  /\ \A k : ~Owes(Idle, k) /\ ~Arming(Idle, k)
  BY DEF Idle, Request, PC, Ceilings, Owes, Arming

\* The increments a counter still waits for can be counted.
LEMMA PendingFinite ==
  ASSUME IsFiniteSet(Active), NEW k
  PROVE  IsFiniteSet(OwedBy(k)) /\ Cardinality(OwedBy(k)) \in Nat
<1>1. OwedBy(k) \in SUBSET Active
  BY DEF OwedBy
<1> QED BY <1>1, FS_Subset, FS_CardinalityType

\* When one request moves to position x, its debts are the ones of x and those of
\* the others stay.
LEMMA OneMoves ==
  ASSUME LimiterTypeOK, IsFiniteSet(Active), NEW q \in Requests, NEW x \in Request,
         req' = [req EXCEPT ![q] = x]
  PROVE  /\ IsFiniteSet(Active')
         /\ \A p \in Requests : p # q => req'[p] = req[p] /\ (p \in Active' <=> p \in Active)
         /\ req'[q] = x /\ (q \in Active' <=> x.pc # "idle")
         /\ \A k : OwedBy(k)' = IF x.pc # "idle" /\ Owes(x, k) THEN OwedBy(k) \cup {q}
                                                             ELSE OwedBy(k) \ {q}
<1>1. /\ \A p \in Requests : p # q => req'[p] = req[p]
      /\ req'[q] = x
  BY DEF LimiterTypeOK
<1>2. /\ \A p \in Requests : p # q => (p \in Active' <=> p \in Active)
      /\ q \in Active' <=> x.pc # "idle"
  BY <1>1 DEF Active
<1>3. Active' \in SUBSET (Active \cup {q})
  BY <1>1 DEF Active
<1>4. IsFiniteSet(Active')
  BY <1>3, FS_AddElement, FS_Subset
<1>5. ASSUME NEW k
      PROVE  OwedBy(k)' = IF x.pc # "idle" /\ Owes(x, k) THEN OwedBy(k) \cup {q}
                                                      ELSE OwedBy(k) \ {q}
  <2>1. OwedBy(k)' = {p \in Active' : Owes(req'[p], k)}
    BY DEF OwedBy, Owes
  <2> QED BY <1>1, <1>2, <2>1 DEF OwedBy, Active
<1> QED BY <1>1, <1>2, <1>4, <1>5

-----------------------------------------------------------------------------
(* Locks come not early *)

\* A step of one request that records no new failure: it pays debts, or reads or
\* writes a counter for one it has.
LEMMA MovesKeepEarly ==
  ASSUME EarlyInv, NEW q \in Requests, NEW x \in Request, req' = [req EXCEPT ![q] = x],
         x.pc # "idle" => x.user \in Binders /\ x.ref \in Refs,
         UNCHANGED wrong, count' \in [Keys -> Nat], lock' \in [Keys -> BOOLEAN],
         calm' \in BOOLEAN,
         \A k \in Keys : x.pc # "idle" /\ Owes(x, k) => q \in OwedBy(k),
         \A k \in Keys : \/ count'[k] <= count[k] \/ Saturated(k)
                        \/ count'[k] + Cardinality(OwedBy(k)') <= wrong[k],
         x.pc = "set" => x.read <= count[Key(x.ceiling, x.user, x.ref)],
         x.pc = "lock" => wrong[Key(x.ceiling, x.user, x.ref)] >= Limit(Key(x.ceiling, x.user, x.ref)),
         \A k \in Keys : lock'[k] => lock[k] \/ wrong[k] >= Limit(k)
  PROVE  EarlyInv'
<1> USE DEF EarlyInv
<1>1. LimiterTypeOK'
  BY DEF LimiterTypeOK
<1>2. /\ IsFiniteSet(Active')
      /\ \A p \in Requests : p # q => req'[p] = req[p] /\ (p \in Active' <=> p \in Active)
      /\ req'[q] = x /\ (q \in Active' <=> x.pc # "idle")
      /\ \A k : OwedBy(k)' = IF x.pc # "idle" /\ Owes(x, k) THEN OwedBy(k) \cup {q}
                                                          ELSE OwedBy(k) \ {q}
  BY OneMoves
<1>3. Active \subseteq Requests /\ Active' \subseteq Requests
  BY DEF Active
<1>4. Placed'
  BY <1>2, <1>3 DEF Placed
<1>5. ASSUME NEW k \in Keys
      PROVE  /\ Cardinality(OwedBy(k)) \in Nat /\ Cardinality(OwedBy(k)') \in Nat
             /\ Cardinality(OwedBy(k)') <= Cardinality(OwedBy(k))
  <2>1. OwedBy(k)' \in SUBSET OwedBy(k)
    BY <1>2
  <2> QED BY <2>1, PendingFinite, FS_Subset, FS_CardinalityType
<1>6. ASSUME NEW k \in Keys
      PROVE  Saturated(k)' \/ count'[k] + Cardinality(OwedBy(k)') <= wrong'[k]
  BY <1>5 DEF Accounted, Saturated, LimiterTypeOK
<1>7. ASSUME NEW p \in Active', req'[p].pc = "set", NEW k \in Keys,
             k = Key(req'[p].ceiling, req'[p].user, req'[p].ref)
      PROVE  Saturated(k)' \/ req'[p].read + Cardinality(OwedBy(k)') <= wrong'[k]
  <2>1. Cardinality(OwedBy(k)') <= Cardinality(OwedBy(k))
        /\ Cardinality(OwedBy(k)) \in Nat /\ Cardinality(OwedBy(k)') \in Nat
    BY <1>5
  <2>2. /\ wrong'[k] = wrong[k] /\ wrong[k] \in Nat /\ count[k] \in Nat
        /\ Saturated(k)' <=> Saturated(k)
    BY DEF LimiterTypeOK, Saturated
  <2>3. CASE p = q
    <3>1. x.read \in Nat /\ x.read <= count[k]
      BY <1>2, <1>7, <2>3 DEF Request
    <3>2. Saturated(k) \/ count[k] + Cardinality(OwedBy(k)) <= wrong[k]
      BY DEF Accounted
    <3> QED BY <1>2, <2>1, <2>2, <2>3, <3>1, <3>2
  <2>4. CASE p # q
    <3>1. req'[p] = req[p] /\ p \in Active
      BY <1>2, <1>3, <1>7, <2>4
    <3>2. req[p].read \in Nat
      BY <1>3, <3>1 DEF LimiterTypeOK, Request
    <3>3. Saturated(k) \/ req[p].read + Cardinality(OwedBy(k)) <= wrong[k]
      BY <1>7, <3>1 DEF Accounted, key
    <3> QED BY <2>1, <2>2, <3>1, <3>2, <3>3
  <2> QED BY <2>3, <2>4
<1>8. Accounted'
  <2>1. ASSUME NEW p \in Active' PROVE Key(req'[p].ceiling, req'[p].user, req'[p].ref) \in Keys
    <3>1. req'[p] \in Request
      BY <1>1, <1>3 DEF LimiterTypeOK
    <3> QED BY <1>4, <3>1, KeyFacts DEF Placed, Request
  <2> QED BY <1>6, <1>7, <2>1 DEF Accounted, key
<1>9. LockIsDue'
  BY <1>2, <1>3 DEF LockIsDue, key
<1>10. NoEarlyLock'
  BY DEF NoEarlyLock
<1> QED BY <1>1, <1>2, <1>4, <1>8, <1>9, <1>10

\* recordFailure takes the ceilings in one order, each counter once.
LEMMA RankFacts ==
  /\ \A c \in Ceilings : rank[c] \in Nat /\ rank[c] >= rank["user_ref"] /\ rank["session"] >= rank[c]
  /\ \A c \in {"user_ref", "customer_ref"} :
       /\ bumpNext[c] \in Ceilings
       /\ \A d \in Ceilings : rank[d] >= rank[bumpNext[c]] <=> rank[d] > rank[c]
  BY DEF rank, bumpNext, Ceilings

\* NextCeiling turns to the debts after the present one, or ends.
LEMMA NextCeilingRecord ==
  ASSUME LimiterTypeOK, NEW q \in Requests, NextCeiling(q)
  PROVE  \E x \in Request :
           /\ req' = [req EXCEPT ![q] = x]
           /\ \/ x.pc = "idle" /\ x.ceiling = "session"
              \/ x.pc = "get" /\ x.user = req[q].user /\ x.ref = req[q].ref
           /\ \A k : Owes(x, k) <=> \E c \in Ceilings : /\ k = Key(c, req[q].user, req[q].ref)
                                                     /\ rank[c] > rank[req[q].ceiling]
           /\ \A k : ~Arming(x, k)
<1>1. req[q] \in Request /\ req[q].ceiling \in Ceilings
  BY DEF LimiterTypeOK, Request
<1>2. CASE req[q].ceiling = "session"
  <2>1. req' = [req EXCEPT ![q] = Idle]
    BY <1>2 DEF NextCeiling, EndBind
  <2>2. \A c \in Ceilings : ~(rank[c] > rank["session"])
    BY RankFacts DEF Ceilings
  <2> QED BY <1>2, <2>1, <2>2, IdleRecord
<1>3. CASE req[q].ceiling # "session"
  <2>1. req[q].ceiling \in {"user_ref", "customer_ref"}
    BY <1>1, <1>3 DEF Ceilings
  <2>2. bumpNext[req[q].ceiling] \in Ceilings
    BY <2>1 DEF bumpNext, Ceilings
  <2>3. PICK x : x = [req[q] EXCEPT !.pc = "get", !.ceiling = bumpNext[req[q].ceiling],
                                    !.read = 0, !.live = TRUE]
    OBVIOUS
  <2>4. /\ x \in Request /\ x.pc = "get" /\ x.ceiling = bumpNext[req[q].ceiling]
        /\ x.user = req[q].user /\ x.ref = req[q].ref
    BY <1>1, <2>2, <2>3 DEF PC, Request
  <2>5. req' = [req EXCEPT ![q] = x]
    BY <1>3, <2>3 DEF NextCeiling, Step
  <2>6. \A k : Owes(x, k) <=> \E c \in Ceilings : /\ k = Key(c, req[q].user, req[q].ref)
                                                /\ rank[c] > rank[req[q].ceiling]
    BY <2>1, <2>4, RankFacts DEF Owes
  <2> QED BY <2>4, <2>5, <2>6 DEF Arming
<1> QED BY <1>2, <1>3

\* What a request under way is about.
LEMMA ActiveFacts ==
  ASSUME LimiterTypeOK, Placed, NEW q \in Requests, req[q].pc # "idle"
  PROVE  /\ q \in Active /\ req[q] \in Request
         /\ req[q].user \in Binders /\ req[q].ref \in Refs /\ req[q].ceiling \in Ceilings
         /\ req[q].read \in Nat /\ req[q].live \in BOOLEAN
         /\ key(q) \in Keys /\ key(q) = Key(req[q].ceiling, req[q].user, req[q].ref)
         /\ count[key(q)] \in Nat /\ wrong[key(q)] \in Nat /\ Limit(key(q)) \in Nat
  BY KeyFacts, LimitIsPositive DEF LimiterTypeOK, Placed, Active, Request, key

\* What every position in recordFailure owes.
LEMMA DebtFacts ==
  ASSUME LimiterTypeOK, Placed, NEW q \in Requests
  PROVE  /\ req[q].pc \in {"get", "set"} => Owes(req[q], key(q))
         /\ req[q].pc \in {"get", "set"} =>
              \A c \in Ceilings : rank[c] > rank[req[q].ceiling] =>
                /\ Owes(req[q], Key(c, req[q].user, req[q].ref))
                /\ Key(c, req[q].user, req[q].ref) # key(q)
         /\ req[q].pc \in {"lock", "delete"} => ~Owes(req[q], key(q))
<1>1. /\ req[q].pc \in {"get", "set", "lock", "delete"} => req[q].pc # "idle"
      /\ \A c \in Ceilings : rank[c] \in Nat
  BY RankFacts
<1> QED BY <1>1, ActiveFacts, KeyFacts DEF Owes

\* A bind that begins (checkLocked) disturbs no counter.
LEMMA StartKeepsEarly ==
  ASSUME EarlyInv, NEW q \in Requests, NEW u \in Binders, NEW r \in Refs, Start(q, u, r)
  PROVE  EarlyInv'
<1>1. LimiterTypeOK /\ req[q] \in Request
  BY DEF EarlyInv, LimiterTypeOK
<1>2. PICK x : x = [req[q] EXCEPT !.pc = "check", !.user = u, !.ref = r]
  OBVIOUS
<1>3. x \in Request /\ x.pc = "check" /\ x.user = u /\ x.ref = r
  BY <1>1, <1>2 DEF Request, PC
<1>4. req' = [req EXCEPT ![q] = x] /\ UNCHANGED <<count, lock, wrong>> /\ calm' \in BOOLEAN
  BY <1>1, <1>2 DEF Start, LimiterTypeOK
<1>5. \A k \in Keys : count'[k] <= count[k]
  BY <1>1, <1>4 DEF LimiterTypeOK
<1>6. \A k : ~Owes(x, k)
  BY <1>3 DEF Owes
<1>7. count' \in [Keys -> Nat] /\ lock' \in [Keys -> BOOLEAN]
  BY <1>1, <1>4 DEF LimiterTypeOK
<1> QED BY <1>3, <1>4, <1>5, <1>6, <1>7, MovesKeepEarly

\* A request that ends, or turns to another check or to clearing, owes nothing.
LEMMA FreeMovesKeepEarly ==
  ASSUME EarlyInv, NEW q \in Requests,
         Locked(q) \/ PassCheck(q) \/ RightSecret(q) \/ SetFails(q) \/ Clear(q)
  PROVE  EarlyInv'
<1>1. /\ LimiterTypeOK /\ Placed /\ req[q] \in Request /\ req[q].user \in Binders /\ req[q].ref \in Refs
      /\ key(q) \in Keys /\ req[q].ceiling \in Ceilings
  <2>1. req[q].pc # "idle"
    BY DEF Locked, PassCheck, RightSecret, SetFails, Clear
  <2> QED BY <2>1, ActiveFacts DEF EarlyInv
<1> DEFINE Moved == \E x \in Request :
                      /\ req' = [req EXCEPT ![q] = x]
                      /\ x.pc \in {"idle", "check", "verify", "clear"}
                      /\ x.pc # "idle" => x.user = req[q].user /\ x.ref = req[q].ref
<1>2. Moved
  <2>1. CASE EndBind(q)
    BY <2>1, IdleRecord DEF EndBind
  <2>2. ASSUME NEW l \in {"check", "verify", "clear"}, NEW c \in Ceilings, Step(q, l, c)
        PROVE  Moved
    <3>1. PICK x : x = [req[q] EXCEPT !.pc = l, !.ceiling = c, !.read = 0, !.live = TRUE]
      OBVIOUS
    <3>2. /\ x \in Request /\ x.pc = l
          /\ x.user = req[q].user /\ x.ref = req[q].ref
      BY <1>1, <3>1 DEF Request, PC
    <3>3. req' = [req EXCEPT ![q] = x]
      BY <2>2, <3>1 DEF Step
    <3> QED BY <3>2, <3>3
  <2> HIDE DEF Moved
  <2>3. CASE Locked(q) \/ SetFails(q)
    BY <2>1, <2>3 DEF Locked, SetFails
  <2>4. CASE PassCheck(q)
    <3>1. req[q].ceiling # "customer_ref" => checkNext[req[q].ceiling] \in Ceilings
      BY <1>1 DEF Ceilings, checkNext
    <3> QED BY <2>2, <2>4, <3>1 DEF PassCheck, Ceilings
  <2>5. CASE RightSecret(q)
    BY <2>2, <2>5 DEF RightSecret, Ceilings
  <2>6. CASE Clear(q)
    BY <2>1, <2>2, <2>6 DEF Clear, Ceilings
  <2> QED BY <2>3, <2>4, <2>5, <2>6
<1>3. PICK x \in Request :
        /\ req' = [req EXCEPT ![q] = x]
        /\ x.pc \in {"idle", "check", "verify", "clear"}
        /\ x.pc # "idle" => x.user = req[q].user /\ x.ref = req[q].ref
  BY <1>2
<1>4. \A k : ~Owes(x, k)
  BY <1>3 DEF Owes
<1>5. /\ UNCHANGED <<lock, wrong>> /\ calm' \in BOOLEAN /\ count' \in [Keys -> Nat]
      /\ \A k \in Keys : count'[k] <= count[k]
  <2>1. /\ UNCHANGED <<lock, wrong>> /\ calm' \in BOOLEAN
        /\ count' = count \/ count' = [count EXCEPT ![key(q)] = 0]
    BY <1>1 DEF Locked, PassCheck, RightSecret, SetFails, Clear, LimiterTypeOK
  <2>2. \A k \in Keys : count[k] \in Nat
    BY <1>1 DEF LimiterTypeOK
  <2> QED BY <1>1, <2>1, <2>2 DEF LimiterTypeOK
<1>6. lock' \in [Keys -> BOOLEAN]
  BY <1>1, <1>5 DEF LimiterTypeOK
<1> QED BY <1>1, <1>3, <1>4, <1>5, <1>6, MovesKeepEarly

\* Reading a counter fixes the value its write will be based on.
LEMMA BumpGetKeepsEarly ==
  ASSUME EarlyInv, NEW q \in Requests, BumpGet(q)
  PROVE  EarlyInv'
<1>1. /\ LimiterTypeOK /\ Placed /\ req[q].pc = "get" /\ req[q].pc # "idle"
  BY DEF EarlyInv, BumpGet
<1>2. /\ q \in Active /\ req[q] \in Request /\ key(q) \in Keys
      /\ req[q].user \in Binders /\ req[q].ref \in Refs
      /\ key(q) = Key(req[q].ceiling, req[q].user, req[q].ref) /\ count[key(q)] \in Nat
  BY <1>1, ActiveFacts
<1>3. PICK n \in {0, count[key(q)]} :
        req' = [req EXCEPT ![q].pc = "set", ![q].read = n, ![q].live = TRUE]
  BY DEF BumpGet
<1>4. PICK x : x = [req[q] EXCEPT !.pc = "set", !.read = n, !.live = TRUE]
  OBVIOUS
<1>5. /\ x \in Request /\ x.pc = "set" /\ x.read = n /\ x.ceiling = req[q].ceiling
      /\ x.user = req[q].user /\ x.ref = req[q].ref /\ req' = [req EXCEPT ![q] = x]
  <2>1. n \in Nat
    BY <1>2, <1>3
  <2>2. /\ x \in Request /\ x.pc = "set" /\ x.read = n /\ x.ceiling = req[q].ceiling
        /\ x.user = req[q].user /\ x.ref = req[q].ref
    BY <1>2, <1>4, <2>1 DEF Request, PC
  <2>3. req' = [req EXCEPT ![q] = x]
    BY <1>3, <1>4
  <2> QED BY <2>2, <2>3
<1>6. \A k : Owes(x, k) => q \in OwedBy(k)
  BY <1>1, <1>2, <1>5 DEF Owes, OwedBy
<1>7. /\ UNCHANGED wrong /\ count' \in [Keys -> Nat] /\ lock' \in [Keys -> BOOLEAN]
      /\ calm' \in BOOLEAN /\ lock' = lock
      /\ \A k \in Keys : count'[k] <= count[k]
  <2>1. wrong' = wrong /\ count' = count /\ lock' = lock /\ (calm' = calm \/ calm' = FALSE)
    BY DEF BumpGet
  <2>2. \A k \in Keys : count[k] \in Nat
    BY <1>1 DEF LimiterTypeOK
  <2>3. \A k \in Keys : count'[k] <= count[k]
    BY <2>1, <2>2
  <2> QED BY <1>1, <2>1, <2>3 DEF LimiterTypeOK
<1>8. x.read <= count[Key(x.ceiling, x.user, x.ref)]
  BY <1>2, <1>5
<1> QED BY <1>2, <1>5, <1>6, <1>7, <1>8, MovesKeepEarly

\* Writing a counter pays the increment the request owed.
LEMMA BumpSetKeepsEarly ==
  ASSUME EarlyInv, NEW q \in Requests, BumpSet(q)
  PROVE  EarlyInv'
<1>1. /\ LimiterTypeOK /\ Placed /\ IsFiniteSet(Active)
      /\ req[q].pc = "set" /\ req[q].pc # "idle"
  BY DEF EarlyInv, BumpSet
<1>2. /\ q \in Active /\ req[q] \in Request /\ key(q) \in Keys
      /\ req[q].user \in Binders /\ req[q].ref \in Refs /\ req[q].ceiling \in Ceilings
      /\ req[q].read \in Nat /\ wrong[key(q)] \in Nat /\ Limit(key(q)) \in Nat
      /\ key(q) = Key(req[q].ceiling, req[q].user, req[q].ref)
  BY <1>1, ActiveFacts
<1> DEFINE n == IF req[q].live THEN Cap(req[q].read + 1, Limit(key(q))) ELSE 0
<1>3. n \in Nat /\ n <= req[q].read + 1
  BY <1>2 DEF Cap
<1>4. /\ UNCHANGED <<lock, wrong, calm>> /\ count' = [count EXCEPT ![key(q)] = n]
  BY DEF BumpSet
<1>5. \E x \in Request :
        /\ req' = [req EXCEPT ![q] = x]
        /\ x.pc # "idle" => x.user = req[q].user /\ x.ref = req[q].ref
        /\ \A k : Owes(x, k) => q \in OwedBy(k)
        /\ ~Owes(x, key(q)) /\ x.pc # "set"
        /\ x.pc = "lock" => /\ Key(x.ceiling, x.user, x.ref) = key(q)
                            /\ req[q].read + 1 >= Limit(key(q))
  <2>1. CASE req[q].read + 1 >= Limit(key(q))
    <3>1. PICK x : x = [req[q] EXCEPT !.pc = "lock"]
      OBVIOUS
    <3>2. /\ x \in Request /\ x.pc = "lock" /\ x.ceiling = req[q].ceiling
          /\ x.user = req[q].user /\ x.ref = req[q].ref
      BY <1>2, <3>1 DEF Request, PC
    <3>3. req' = [req EXCEPT ![q] = x]
      BY <2>1, <3>1 DEF BumpSet
    <3>4. \A k : Owes(x, k) => q \in OwedBy(k)
      BY <1>1, <1>2, <3>2, RankFacts DEF Owes, OwedBy
    <3>5. ~Owes(x, key(q))
      BY <1>2, <3>2, KeyFacts, RankFacts DEF Owes
    <3> QED BY <1>2, <2>1, <3>2, <3>3, <3>4, <3>5
  <2>2. CASE ~(req[q].read + 1 >= Limit(key(q)))
    <3>1. NextCeiling(q)
      BY <2>2 DEF BumpSet
    <3>2. PICK x \in Request :
            /\ req' = [req EXCEPT ![q] = x]
            /\ x.pc = "idle" \/ (x.pc = "get" /\ x.user = req[q].user /\ x.ref = req[q].ref)
            /\ \A k : Owes(x, k) <=> \E c \in Ceilings : /\ k = Key(c, req[q].user, req[q].ref)
                                                      /\ rank[c] > rank[req[q].ceiling]
      BY <1>1, <3>1, NextCeilingRecord
    <3>3. \A k : Owes(x, k) => q \in OwedBy(k) /\ k # key(q)
      BY <1>1, <1>2, <3>2, DebtFacts DEF OwedBy
    <3> QED BY <3>2, <3>3
  <2> QED BY <2>1, <2>2
<1>6. PICK x \in Request :
        /\ req' = [req EXCEPT ![q] = x]
        /\ x.pc # "idle" => x.user = req[q].user /\ x.ref = req[q].ref
        /\ \A k : Owes(x, k) => q \in OwedBy(k)
        /\ ~Owes(x, key(q)) /\ x.pc # "set"
        /\ x.pc = "lock" => /\ Key(x.ceiling, x.user, x.ref) = key(q)
                            /\ req[q].read + 1 >= Limit(key(q))
  BY <1>5
<1>7. PICK kk : kk = key(q)
  OBVIOUS
<1>8. /\ Cardinality(OwedBy(kk)') + 1 = Cardinality(OwedBy(kk))
      /\ Cardinality(OwedBy(kk)) \in Nat /\ Cardinality(OwedBy(kk)') \in Nat
      /\ Cardinality(OwedBy(kk)) > 0
  <2>1. OwedBy(kk)' = OwedBy(kk) \ {q}
    BY <1>1, <1>6, <1>7, OneMoves
  <2>2. q \in OwedBy(kk)
    BY <1>1, <1>2, <1>7, DebtFacts DEF OwedBy
  <2>3. IsFiniteSet(OwedBy(kk)) /\ Cardinality(OwedBy(kk)) \in Nat
    BY <1>1, PendingFinite
  <2>4. IsFiniteSet(OwedBy(kk)') /\ Cardinality(OwedBy(kk)') = Cardinality(OwedBy(kk)) - 1
    BY <2>1, <2>2, <2>3, FS_RemoveElement
  <2>5. Cardinality(OwedBy(kk)') \in Nat
    BY <2>4, FS_CardinalityType
  <2> QED BY <2>3, <2>4, <2>5
<1>9. Saturated(kk) \/ req[q].read + Cardinality(OwedBy(kk)) <= wrong[kk]
  BY <1>1, <1>2, <1>7 DEF EarlyInv, Accounted
<1>10. Saturated(kk) \/ n + Cardinality(OwedBy(kk)') <= wrong[kk]
  <2> HIDE DEF n
  <2>1. wrong[kk] \in Nat /\ req[q].read \in Nat
    BY <1>2, <1>7
  <2> QED BY <2>1, <1>3, <1>8, <1>9
<1>11. count' \in [Keys -> Nat] /\ lock' \in [Keys -> BOOLEAN] /\ calm' \in BOOLEAN
  BY <1>1, <1>3, <1>4 DEF LimiterTypeOK
<1>12. ASSUME NEW k \in Keys
       PROVE  \/ count'[k] <= count[k] \/ Saturated(k)
              \/ count'[k] + Cardinality(OwedBy(k)') <= wrong[k]
  <2>1. CASE k = kk
    <3>1. count'[k] = n
      BY <1>1, <1>4, <1>7, <2>1 DEF LimiterTypeOK
    <3> QED BY <1>10, <2>1, <3>1
  <2>2. CASE k # kk
    BY <1>1, <1>4, <1>7, <2>2 DEF LimiterTypeOK
  <2> QED BY <2>1, <2>2
<1>13. x.pc = "lock" => wrong[Key(x.ceiling, x.user, x.ref)] >= Limit(Key(x.ceiling, x.user, x.ref))
  BY <1>2, <1>6, <1>7, <1>8, <1>9 DEF Saturated
<1>14. x.pc # "idle" => x.user \in Binders /\ x.ref \in Refs
  BY <1>2, <1>6
<1>15. lock' = lock /\ wrong' = wrong
  BY <1>4
<1> QED BY <1>6, <1>11, <1>12, <1>13, <1>14, <1>15, MovesKeepEarly

\* A lock is armed by a request whose own count had reached the limit.
LEMMA SetLockKeepsEarly ==
  ASSUME EarlyInv, NEW q \in Requests, SetLock(q)
  PROVE  EarlyInv'
<1>1. /\ LimiterTypeOK /\ Placed /\ req[q].pc = "lock" /\ req[q].pc # "idle"
  BY DEF EarlyInv, SetLock
<1>2. /\ q \in Active /\ req[q] \in Request /\ key(q) \in Keys
      /\ req[q].user \in Binders /\ req[q].ref \in Refs /\ req[q].ceiling \in Ceilings
      /\ wrong[key(q)] >= Limit(key(q))
  BY <1>1, ActiveFacts DEF EarlyInv, LockIsDue
<1>3. PICK x : x = [req[q] EXCEPT !.pc = "delete", !.ceiling = req[q].ceiling, !.read = 0, !.live = TRUE]
  OBVIOUS
<1>4. /\ x \in Request /\ x.pc = "delete" /\ x.ceiling = req[q].ceiling
      /\ x.user = req[q].user /\ x.ref = req[q].ref
  BY <1>2, <1>3 DEF Request, PC
<1>5. req' = [req EXCEPT ![q] = x]
  BY <1>3 DEF SetLock, Step
<1>6. \A k : Owes(x, k) => q \in OwedBy(k)
  BY <1>1, <1>2, <1>4 DEF Owes, OwedBy
<1>7. /\ wrong' = wrong /\ count' = count /\ calm' = calm
      /\ lock' = [lock EXCEPT ![key(q)] = TRUE]
  BY DEF SetLock
<1>8. /\ count' \in [Keys -> Nat] /\ lock' \in [Keys -> BOOLEAN] /\ calm' \in BOOLEAN
      /\ \A k \in Keys : count'[k] <= count[k]
      /\ \A k \in Keys : lock'[k] => lock[k] \/ wrong[k] >= Limit(k)
  BY <1>1, <1>2, <1>7 DEF LimiterTypeOK
<1> QED BY <1>2, <1>4, <1>5, <1>6, <1>7, <1>8, MovesKeepEarly

\* Once the lock is armed its counter is deleted, or the delete fails.
LEMMA DeleteCounterKeepsEarly ==
  ASSUME EarlyInv, NEW q \in Requests, DeleteCounter(q)
  PROVE  EarlyInv'
<1>1. /\ LimiterTypeOK /\ Placed /\ req[q].pc = "delete" /\ req[q].pc # "idle"
  BY DEF EarlyInv, DeleteCounter
<1>2. /\ q \in Active /\ req[q] \in Request /\ key(q) \in Keys
      /\ req[q].user \in Binders /\ req[q].ref \in Refs
  BY <1>1, ActiveFacts
<1>3. PICK x \in Request :
        /\ req' = [req EXCEPT ![q] = x]
        /\ x.pc = "idle" \/ (x.pc = "get" /\ x.user = req[q].user /\ x.ref = req[q].ref)
        /\ \A k : Owes(x, k) <=> \E c \in Ceilings : /\ k = Key(c, req[q].user, req[q].ref)
                                                  /\ rank[c] > rank[req[q].ceiling]
  BY <1>1, NextCeilingRecord DEF DeleteCounter
<1>4. \A k : Owes(x, k) => q \in OwedBy(k)
  BY <1>1, <1>2, <1>3 DEF Owes, OwedBy
<1>5. /\ wrong' = wrong /\ lock' = lock /\ calm' \in BOOLEAN
      /\ count' = count \/ count' = [count EXCEPT ![key(q)] = 0]
  BY <1>1 DEF DeleteCounter, LimiterTypeOK
<1>6. /\ count' \in [Keys -> Nat] /\ lock' \in [Keys -> BOOLEAN]
      /\ \A k \in Keys : count'[k] <= count[k]
  BY <1>1, <1>2, <1>5 DEF LimiterTypeOK
<1> QED BY <1>2, <1>3, <1>4, <1>5, <1>6, MovesKeepEarly

\* A wrong answer is one more failure for each of the request's keys, and a debt.
LEMMA WrongSecretKeepsEarly ==
  ASSUME EarlyInv, NEW q \in Requests, WrongSecret(q)
  PROVE  EarlyInv'
<1>1. /\ LimiterTypeOK /\ Placed /\ IsFiniteSet(Active)
      /\ req[q].pc = "verify" /\ req[q].pc # "idle"
  BY DEF EarlyInv, WrongSecret
<1>2. /\ q \in Active /\ req[q] \in Request
      /\ req[q].user \in Binders /\ req[q].ref \in Refs
  BY <1>1, ActiveFacts
<1>3. PICK x : x = [req[q] EXCEPT !.pc = "get", !.ceiling = "user_ref", !.read = 0, !.live = TRUE]
  OBVIOUS
<1>4. /\ x \in Request /\ x.pc = "get" /\ x.ceiling = "user_ref"
      /\ x.user = req[q].user /\ x.ref = req[q].ref
  BY <1>2, <1>3 DEF Request, PC, Ceilings
<1>5. req' = [req EXCEPT ![q] = x] /\ count' = count /\ lock' = lock /\ calm' = calm
  BY <1>3 DEF WrongSecret, Step
<1>6. /\ IsFiniteSet(Active')
      /\ \A p \in Requests : p # q => req'[p] = req[p] /\ (p \in Active' <=> p \in Active)
      /\ req'[q] = x
      /\ \A k : OwedBy(k)' = IF x.pc # "idle" /\ Owes(x, k) THEN OwedBy(k) \cup {q}
                                                          ELSE OwedBy(k) \ {q}
  BY <1>1, <1>4, <1>5, OneMoves
<1>7. \A k : Owes(x, k) <=> k \in OwnKeys(q)
  BY <1>4, RankFacts DEF Owes, OwnKeys
<1>8. ASSUME NEW k \in Keys
      PROVE  /\ wrong'[k] = IF k \in OwnKeys(q) THEN Cap(wrong[k] + 1, Limit(k) + 1) ELSE wrong[k]
             /\ wrong[k] \in Nat /\ count[k] \in Nat /\ Limit(k) \in Nat /\ wrong'[k] \in Nat
             /\ wrong[k] >= Limit(k) => wrong'[k] >= Limit(k)
             /\ wrong[k] > Limit(k) => wrong'[k] > Limit(k)
             /\ ~(wrong[k] > Limit(k)) =>
                  wrong'[k] = IF k \in OwnKeys(q) THEN wrong[k] + 1 ELSE wrong[k]
  <2>1. wrong'[k] = IF k \in OwnKeys(q) THEN Cap(wrong[k] + 1, Limit(k) + 1) ELSE wrong[k]
    BY DEF WrongSecret
  <2>2. wrong[k] \in Nat /\ count[k] \in Nat /\ Limit(k) \in Nat
    BY <1>1, LimitIsPositive DEF LimiterTypeOK
  <2> QED BY <2>1, <2>2 DEF Cap
<1>9. LimiterTypeOK'
  <2>1. wrong' \in [Keys -> Nat]
    <3>1. wrong' = [k \in Keys |-> wrong'[k]]
      BY DEF WrongSecret
    <3> QED BY <3>1, <1>8
  <2> QED BY <1>1, <1>4, <1>5, <2>1 DEF LimiterTypeOK
<1>10. ASSUME NEW k \in Keys
       PROVE  /\ Cardinality(OwedBy(k)) \in Nat /\ Cardinality(OwedBy(k)') \in Nat
              /\ Cardinality(OwedBy(k)') <= Cardinality(OwedBy(k)) + (IF k \in OwnKeys(q) THEN 1 ELSE 0)
  <2>1. IsFiniteSet(OwedBy(k)) /\ Cardinality(OwedBy(k)) \in Nat
    BY <1>1, PendingFinite
  <2>2. CASE k \in OwnKeys(q)
    <3>1. OwedBy(k)' = OwedBy(k) \cup {q}
      BY <1>4, <1>6, <1>7, <2>2
    <3>2. /\ IsFiniteSet(OwedBy(k) \cup {q})
          /\ \/ Cardinality(OwedBy(k) \cup {q}) = Cardinality(OwedBy(k))
             \/ Cardinality(OwedBy(k) \cup {q}) = Cardinality(OwedBy(k)) + 1
      BY <2>1, FS_AddElement
    <3> QED BY <2>1, <2>2, <3>1, <3>2
  <2>3. CASE k \notin OwnKeys(q)
    <3>1. OwedBy(k)' = OwedBy(k) \ {q}
      BY <1>4, <1>6, <1>7, <2>3
    <3>2. OwedBy(k) \ {q} \in SUBSET OwedBy(k)
      OBVIOUS
    <3>3. /\ IsFiniteSet(OwedBy(k) \ {q})
          /\ Cardinality(OwedBy(k) \ {q}) <= Cardinality(OwedBy(k))
      BY <2>1, <3>2, FS_Subset
    <3>4. Cardinality(OwedBy(k) \ {q}) \in Nat
      BY <3>3, FS_CardinalityType
    <3> QED BY <2>1, <2>3, <3>1, <3>3, <3>4
  <2> QED BY <2>2, <2>3
<1>11. Active \subseteq Requests /\ Active' \subseteq Requests
  BY DEF Active
<1>12. Placed'
  BY <1>2, <1>4, <1>6, <1>11 DEF EarlyInv, Placed
<1>13. ASSUME NEW k \in Keys
       PROVE  Saturated(k)' \/ count'[k] + Cardinality(OwedBy(k)') <= wrong'[k]
  <2>1. Saturated(k) \/ count[k] + Cardinality(OwedBy(k)) <= wrong[k]
    BY DEF EarlyInv, Accounted
  <2> QED BY <1>5, <1>8, <1>10, <2>1 DEF Saturated
<1>14. ASSUME NEW p \in Active', req'[p].pc = "set", NEW k \in Keys,
              k = Key(req'[p].ceiling, req'[p].user, req'[p].ref)
       PROVE  Saturated(k)' \/ req'[p].read + Cardinality(OwedBy(k)') <= wrong'[k]
  <2>1. req'[p] = req[p] /\ p \in Active
    BY <1>4, <1>6, <1>11, <1>14
  <2>2. Saturated(k) \/ req[p].read + Cardinality(OwedBy(k)) <= wrong[k]
    BY <1>14, <2>1 DEF EarlyInv, Accounted, key
  <2>3. req[p].read \in Nat
    BY <1>1, <1>11, <2>1 DEF LimiterTypeOK, Request
  <2> QED BY <1>8, <1>10, <2>1, <2>2, <2>3 DEF Saturated
<1>15. \A p \in Active' : Key(req'[p].ceiling, req'[p].user, req'[p].ref) \in Keys
  <2>1. ASSUME NEW p \in Active' PROVE Key(req'[p].ceiling, req'[p].user, req'[p].ref) \in Keys
    <3>1. req'[p] \in Request
      BY <1>9, <1>11 DEF LimiterTypeOK
    <3> QED BY <1>12, <3>1, KeyFacts DEF Placed, Request
  <2> QED BY <2>1
<1>16. Accounted'
  BY <1>13, <1>14, <1>15 DEF Accounted, key
<1>17. LockIsDue'
  <2>1. ASSUME NEW p \in Active', req'[p].pc = "lock"
        PROVE  LET k == Key(req'[p].ceiling, req'[p].user, req'[p].ref) IN wrong'[k] >= Limit(k)
    <3>1. req'[p] = req[p] /\ p \in Active
      BY <1>4, <1>6, <1>11, <2>1
    <3>2. wrong[key(p)] >= Limit(key(p))
      BY <2>1, <3>1 DEF EarlyInv, LockIsDue
    <3>3. key(p) = Key(req'[p].ceiling, req'[p].user, req'[p].ref) /\ key(p) \in Keys
      BY <3>1, <1>15 DEF key
    <3> QED BY <1>8, <3>2, <3>3
  <2> QED BY <2>1 DEF LockIsDue, key
<1>18. NoEarlyLock'
  BY <1>5, <1>8 DEF EarlyInv, NoEarlyLock
<1> QED BY <1>6, <1>9, <1>12, <1>16, <1>17, <1>18 DEF EarlyInv

\* A window that runs out takes failures off a counter, and off no debt.
LEMMA WindowEndsKeepsEarly ==
  ASSUME EarlyInv, NEW k \in Keys, WindowEnds(k)
  PROVE  EarlyInv'
<1>1. LimiterTypeOK
  BY DEF EarlyInv
<1>2. /\ count' = [count EXCEPT ![k] = 0] /\ lock' = lock /\ wrong' = wrong /\ calm' = FALSE
      /\ req' = [q \in Requests |->
                   IF req[q].pc = "set" /\ key(q) = k /\ req[q].read > 0
                   THEN [req[q] EXCEPT !.live = FALSE] ELSE req[q]]
  BY DEF WindowEnds
<1>3. ASSUME NEW q \in Requests
      PROVE  /\ req'[q] \in Request
             /\ req'[q].pc = req[q].pc /\ req'[q].user = req[q].user /\ req'[q].ref = req[q].ref
             /\ req'[q].ceiling = req[q].ceiling /\ req'[q].read = req[q].read
  <2>1. req[q] \in Request
    BY <1>1 DEF LimiterTypeOK
  <2>2. req'[q] = [req[q] EXCEPT !.live = FALSE] \/ req'[q] = req[q]
    BY <1>2
  <2> QED BY <2>1, <2>2 DEF Request
<1>4. LimiterTypeOK'
  <2>1. req' \in [Requests -> Request]
    BY <1>2, <1>3
  <2> QED BY <1>1, <1>2, <2>1 DEF LimiterTypeOK
<1>5. Active' = Active /\ Active \subseteq Requests
  BY <1>3 DEF Active
<1>6. \A z : OwedBy(z)' = OwedBy(z)
  <2>1. \A z : \A q \in Active : Owes(req'[q], z) <=> Owes(req[q], z)
    BY <1>3, <1>5 DEF Owes
  <2>2. \A z : OwedBy(z)' = {q \in Active' : Owes(req'[q], z)}
    BY DEF OwedBy, Owes
  <2> QED BY <1>5, <2>1, <2>2 DEF OwedBy
<1>7. Placed' /\ LockIsDue' /\ NoEarlyLock'
  BY <1>2, <1>3, <1>5 DEF EarlyInv, Placed, LockIsDue, NoEarlyLock, key
<1>8. Accounted'
  <2>1. ASSUME NEW z \in Keys
        PROVE  Saturated(z)' \/ count'[z] + Cardinality(OwedBy(z)') <= wrong'[z]
    <3>1. Saturated(z) \/ count[z] + Cardinality(OwedBy(z)) <= wrong[z]
      BY DEF EarlyInv, Accounted
    <3>2. count'[z] \in Nat /\ count[z] \in Nat /\ count'[z] <= count[z] /\ wrong[z] \in Nat
      BY <1>1, <1>2 DEF LimiterTypeOK
    <3>3. Cardinality(OwedBy(z)) \in Nat /\ OwedBy(z)' = OwedBy(z)
      BY <1>6, PendingFinite DEF EarlyInv
    <3> QED BY <1>2, <3>1, <3>2, <3>3 DEF Saturated
  <2>2. ASSUME NEW p \in Active', req'[p].pc = "set", NEW z,
               z = Key(req'[p].ceiling, req'[p].user, req'[p].ref)
        PROVE  Saturated(z)' \/ req'[p].read + Cardinality(OwedBy(z)') <= wrong'[z]
    <3>1. /\ req[p].pc = "set" /\ req'[p].read = req[p].read /\ z = key(p) /\ p \in Active
      BY <1>3, <1>5, <2>2 DEF key
    <3> QED BY <1>2, <1>6, <3>1 DEF EarlyInv, Accounted, Saturated
  <2> QED BY <2>1, <2>2 DEF Accounted, key
<1> QED BY <1>4, <1>5, <1>7, <1>8 DEF EarlyInv

\* A lock that runs out finds no debt under its key: the ghost restarts from what
\* the counter shows.
LEMMA LockEndsKeepsEarly ==
  ASSUME EarlyInv, NEW k \in Keys, LockEnds(k)
  PROVE  EarlyInv'
<1>1. LimiterTypeOK /\ Placed
  BY DEF EarlyInv
<1>2. /\ lock' = [lock EXCEPT ![k] = FALSE] /\ wrong' = [wrong EXCEPT ![k] = count[k]]
      /\ count' = count /\ req' = req /\ calm' = calm
      /\ \A q \in Requests : req[q].pc # "idle" => k \notin OwnKeys(q)
  BY DEF LockEnds
<1>3. LimiterTypeOK'
  BY <1>1, <1>2 DEF LimiterTypeOK
<1>4. Active' = Active /\ Active \subseteq Requests
  BY <1>2 DEF Active
<1>5. \A z : OwedBy(z)' = OwedBy(z)
  BY <1>2, <1>4 DEF OwedBy, Owes
<1>6. OwedBy(k) = {}
  BY <1>2 DEF OwedBy, Active, Owes, OwnKeys
<1>7. ASSUME NEW p \in Active
      PROVE  key(p) # k /\ key(p) \in Keys
  <2>1. req[p].pc # "idle" /\ p \in Requests
    BY DEF Active
  <2> QED BY <1>1, <1>2, <2>1, ActiveFacts DEF OwnKeys
<1>8. Placed' /\ NoEarlyLock'
  BY <1>1, <1>2, <1>4 DEF EarlyInv, Placed, NoEarlyLock, LimiterTypeOK
<1>9. ASSUME NEW z \in Keys
      PROVE  Saturated(z)' \/ count'[z] + Cardinality(OwedBy(z)') <= wrong'[z]
  <2>1. CASE z = k
    <3>1. Cardinality(OwedBy(z)') = 0
      BY <1>5, <1>6, <2>1, FS_EmptySet
    <3>2. count'[z] \in Nat /\ wrong'[z] = count'[z]
      BY <1>1, <1>2, <2>1 DEF LimiterTypeOK
    <3> QED BY <3>1, <3>2
  <2>2. CASE z # k
    BY <1>1, <1>2, <1>5, <2>2 DEF EarlyInv, Accounted, Saturated, LimiterTypeOK
  <2> QED BY <2>1, <2>2
<1>10. ASSUME NEW p \in Active', req'[p].pc = "set", NEW z,
              z = Key(req'[p].ceiling, req'[p].user, req'[p].ref)
       PROVE  Saturated(z)' \/ req'[p].read + Cardinality(OwedBy(z)') <= wrong'[z]
  <2>1. z = key(p) /\ p \in Active /\ req[p].pc = "set" /\ req'[p] = req[p]
    BY <1>2, <1>4, <1>10 DEF key
  <2>2. wrong'[z] = wrong[z]
    BY <1>1, <1>2, <1>7, <2>1 DEF LimiterTypeOK
  <2>3. Saturated(z) \/ req[p].read + Cardinality(OwedBy(z)) <= wrong[z]
    BY <2>1 DEF EarlyInv, Accounted
  <2> QED BY <1>5, <2>1, <2>2, <2>3 DEF Saturated
<1>11. Accounted'
  BY <1>9, <1>10 DEF Accounted, key
<1>12. LockIsDue'
  BY <1>1, <1>2, <1>4, <1>7 DEF EarlyInv, LockIsDue, key, LimiterTypeOK
<1> QED BY <1>3, <1>4, <1>8, <1>11, <1>12 DEF EarlyInv

\* A step of another part changes nothing here.
LEMMA EarlyStutter ==
  ASSUME EarlyInv, UNCHANGED limiterVars
  PROVE  EarlyInv'
<1>1. count' = count /\ lock' = lock /\ req' = req /\ wrong' = wrong /\ calm' = calm
  BY DEF limiterVars
<1>2. Active' = Active /\ \A z : OwedBy(z)' = OwedBy(z)
  BY <1>1 DEF Active, OwedBy, Owes
<1>3. LimiterTypeOK' /\ Placed' /\ LockIsDue' /\ NoEarlyLock'
  BY <1>1, <1>2 DEF EarlyInv, LimiterTypeOK, Placed, LockIsDue, NoEarlyLock, key
<1>4. Accounted'
  BY <1>1, <1>2 DEF EarlyInv, Accounted, Saturated, key
<1> QED BY <1>2, <1>3, <1>4 DEF EarlyInv

\* The counters start empty.
LEMMA EarlyInit == LimiterInit => EarlyInv
<1> SUFFICES ASSUME LimiterInit PROVE EarlyInv
  OBVIOUS
<1>1. Active = {} /\ IsFiniteSet(Active)
  BY FS_EmptySet DEF LimiterInit, Active, Idle
<1>2. LimiterTypeOK
  BY IdleRecord DEF LimiterInit, LimiterTypeOK
<1>3. \A k \in Keys : OwedBy(k) = {} /\ Cardinality(OwedBy(k)) = 0
  BY <1>1, FS_EmptySet DEF OwedBy
<1>4. Accounted /\ NoEarlyLock
  BY <1>1, <1>3 DEF LimiterInit, Accounted, NoEarlyLock
<1> QED BY <1>1, <1>2, <1>4 DEF EarlyInv, Placed, LockIsDue

\* Every step of a bind, and every end of a window, keeps the early bound.
LEMMA EarlyStep == EarlyInv /\ [LimiterNext]_limiterVars => EarlyInv'
<1> SUFFICES ASSUME EarlyInv, [LimiterNext]_limiterVars PROVE EarlyInv'
  OBVIOUS
<1>1. CASE Starts
  BY <1>1, StartKeepsEarly DEF Starts
<1>2. ASSUME NEW q \in Requests, WrongAttempt(q) \/ RightSecret(q) \/ SetFails(q) \/ Clear(q)
      PROVE  EarlyInv'
  BY <1>2, FreeMovesKeepEarly, WrongSecretKeepsEarly, BumpGetKeepsEarly,
     BumpSetKeepsEarly,
     SetLockKeepsEarly, DeleteCounterKeepsEarly DEF WrongAttempt
<1>3. ASSUME NEW k \in Keys, WindowEnds(k) \/ LockEnds(k)
      PROVE  EarlyInv'
  BY <1>3, WindowEndsKeepsEarly, LockEndsKeepsEarly
<1>4. CASE UNCHANGED limiterVars
  BY <1>4, EarlyStutter
<1> QED BY <1>1, <1>2, <1>3, <1>4 DEF LimiterNext

-----------------------------------------------------------------------------
(* Without overlap and forgiveness, locks come not late *)

\* What is known of the only request of a calm system.
LEMMA CalmFacts ==
  ASSUME CalmInv, calm
  PROVE  /\ \A q \in Active : /\ Active = {q} /\ CalmRequest(req[q])
                              /\ \A k \in Keys : ~Owes(req[q], k) /\ ~Arming(req[q], k) => Settled(k)
         /\ Active = {} => \A k \in Keys : Settled(k)
         /\ \A k \in Keys : wrong[k] <= Limit(k)
  BY DEF CalmInv

\* A step of the only request.
LEMMA MovesKeepCalm ==
  ASSUME LimiterTypeOK, IsFiniteSet(Active), NEW q \in Requests, NEW x \in Request,
         req' = [req EXCEPT ![q] = x],
         calm' => /\ \A p \in Active : p = q
                  /\ x.pc # "idle" => CalmRequest(x)'
                  /\ \A k \in Keys : ~Owes(x, k) /\ ~Arming(x, k) => Settled(k)'
                  /\ \A k \in Keys : wrong'[k] <= Limit(k)
  PROVE  CalmInv'
<1> SUFFICES ASSUME calm' PROVE CalmInv'
  BY DEF CalmInv
<1>1. /\ \A p \in Requests : p # q => req'[p] = req[p] /\ (p \in Active' <=> p \in Active)
      /\ req'[q] = x /\ (q \in Active' <=> x.pc # "idle")
  BY OneMoves
<1>2. Active' \subseteq Requests
  BY DEF Active
<1>3. \A p \in Active' : p = q /\ req'[p] = x /\ x.pc # "idle"
  BY <1>1, <1>2
<1>4. \A p \in Active' : CalmRequest(x)'
  BY <1>3
<1>5. \A p \in Active' : CalmRequest(req[p])'
  BY <1>3, <1>4 DEF CalmRequest, Passed, Owes, Arming
<1>6. ASSUME NEW k \in Keys, \A p \in Active' : ~Owes(req'[p], k) /\ ~Arming(req'[p], k)
      PROVE  Settled(k)'
  <2>1. CASE q \in Active'
    BY <1>1, <1>6, <2>1
  <2>2. CASE q \notin Active'
    BY <1>1, <2>2 DEF Owes, Arming
  <2> QED BY <2>1, <2>2
<1>7. \A k \in Keys : (\A p \in Active' : ~Owes(req[p], k)' /\ ~Arming(req[p], k)') => Settled(k)'
  BY <1>6 DEF Owes, Arming
<1> QED BY <1>3, <1>5, <1>7 DEF CalmInv

\* A step that changes neither the counters nor the locks, of a request that is
\* not in recordFailure and does not get there.
LEMMA ChecksKeepCalm ==
  ASSUME LimiterInv, NEW q \in Requests, NEW x \in Request, req' = [req EXCEPT ![q] = x],
         x.pc \in {"idle", "check", "verify", "clear"},
         calm' => calm /\ UNCHANGED <<count, lock, wrong>>,
         calm' => IF req[q].pc = "idle" THEN Active = {}
                                        ELSE req[q].pc \in {"check", "verify", "clear"},
         calm' => \A c \in Passed(x) : ~lock[Key(c, x.user, x.ref)]
  PROVE  CalmInv'
<1>1. LimiterTypeOK /\ IsFiniteSet(Active) /\ CalmInv
  BY DEF LimiterInv, EarlyInv
<1>2. ASSUME calm'
      PROVE  /\ \A p \in Active : p = q
             /\ x.pc # "idle" => CalmRequest(x)'
             /\ \A k \in Keys : ~Owes(x, k) /\ ~Arming(x, k) => Settled(k)'
             /\ \A k \in Keys : wrong'[k] <= Limit(k)
  <2>1. calm /\ count' = count /\ lock' = lock /\ wrong' = wrong
    BY <1>2
  <2>2. \A k : ~Owes(x, k) /\ ~Arming(x, k)
    BY DEF Owes, Arming
  <2>3. (\A p \in Active : p = q) /\ \A k \in Keys : Settled(k)
    <3>1. CASE req[q].pc = "idle"
      BY <1>1, <1>2, <2>1, <3>1, CalmFacts
    <3>2. CASE req[q].pc # "idle"
      <4>1. q \in Active
        BY <3>2 DEF Active
      <4>2. \A k : ~Owes(req[q], k) /\ ~Arming(req[q], k)
        BY <1>2, <3>2 DEF Owes, Arming
      <4> QED BY <1>1, <2>1, <4>1, <4>2, CalmFacts
    <3> QED BY <3>1, <3>2
  <2>4. \A k \in Keys : Settled(k)'
    BY <2>1, <2>3 DEF Settled
  <2>5. CalmRequest(x)'
    BY <1>2, <2>1, <2>2 DEF CalmRequest
  <2>6. \A k \in Keys : wrong'[k] <= Limit(k)
    BY <1>1, <2>1, CalmFacts
  <2> QED BY <2>3, <2>4, <2>5, <2>6
<1> QED BY <1>1, <1>2, MovesKeepCalm

\* A bind that begins has passed no check.
LEMMA StartKeepsCalm ==
  ASSUME LimiterInv, NEW q \in Requests, NEW u \in Binders, NEW r \in Refs, Start(q, u, r)
  PROVE  CalmInv'
<1>1. /\ req[q] \in Request /\ req[q].pc = "idle" /\ req[q].ceiling = "session"
  BY DEF LimiterInv, EarlyInv, LimiterTypeOK, AtRest, Start
<1>2. PICK x : x = [req[q] EXCEPT !.pc = "check", !.user = u, !.ref = r]
  OBVIOUS
<1>3. x \in Request /\ x.pc = "check" /\ x.ceiling = "session"
  BY <1>1, <1>2 DEF Request, PC
<1>4. req' = [req EXCEPT ![q] = x]
  BY <1>2 DEF Start
<1>5. calm' => calm /\ Active = {} /\ UNCHANGED <<count, lock, wrong>>
  BY DEF Start, Active
<1>6. Passed(x) = {}
  BY <1>3 DEF Passed
<1> QED BY <1>1, <1>3, <1>4, <1>5, <1>6, ChecksKeepCalm

\* A passed check found no lock under the ceiling it was about.
LEMMA PassCheckKeepsCalm ==
  ASSUME LimiterInv, NEW q \in Requests, PassCheck(q)
  PROVE  CalmInv'
<1>1. LimiterTypeOK /\ Placed /\ CalmInv /\ req[q].pc = "check" /\ req[q].pc # "idle"
  BY DEF LimiterInv, EarlyInv, PassCheck
<1>2. /\ q \in Active /\ req[q] \in Request /\ req[q].ceiling \in Ceilings
      /\ key(q) = Key(req[q].ceiling, req[q].user, req[q].ref)
  BY <1>1, ActiveFacts
<1>3. PICK l, c : /\ IF req[q].ceiling = "customer_ref" THEN l = "verify" /\ c = "customer_ref"
                     ELSE l = "check" /\ c = checkNext[req[q].ceiling]
                  /\ Step(q, l, c)
  BY DEF PassCheck
<1>4. /\ l \in {"check", "verify"} /\ c \in Ceilings
      /\ \/ req[q].ceiling = "session" /\ l = "check" /\ c = "user_ref"
         \/ req[q].ceiling = "user_ref" /\ l = "check" /\ c = "customer_ref"
         \/ req[q].ceiling = "customer_ref" /\ l = "verify"
  BY <1>2, <1>3 DEF Ceilings, checkNext
<1>5. PICK x : x = [req[q] EXCEPT !.pc = l, !.ceiling = c, !.read = 0, !.live = TRUE]
  OBVIOUS
<1>6. x \in Request /\ x.pc = l /\ x.ceiling = c /\ x.user = req[q].user /\ x.ref = req[q].ref
  BY <1>2, <1>4, <1>5 DEF Request, PC
<1>7. req' = [req EXCEPT ![q] = x]
  BY <1>3, <1>5 DEF Step
<1>8. calm' => calm /\ ~lock[key(q)] /\ UNCHANGED <<count, lock, wrong>>
  BY DEF PassCheck
<1>9. Passed(x) \subseteq Passed(req[q]) \cup {req[q].ceiling}
  BY <1>1, <1>4, <1>6 DEF Passed, Ceilings
<1>10. calm => \A d \in Passed(req[q]) : ~lock[Key(d, req[q].user, req[q].ref)]
  BY <1>1, <1>2, CalmFacts DEF CalmRequest
<1>11. calm' => \A d \in Passed(x) : ~lock[Key(d, x.user, x.ref)]
  BY <1>2, <1>6, <1>8, <1>9, <1>10
<1> QED BY <1>1, <1>4, <1>6, <1>7, <1>8, <1>11, ChecksKeepCalm

\* A refused bind, or one whose cache write failed, leaves with nothing counted.
LEMMA EndsKeepCalm ==
  ASSUME LimiterInv, NEW q \in Requests, Locked(q) \/ SetFails(q)
  PROVE  CalmInv'
<1>1. req' = [req EXCEPT ![q] = Idle] /\ Passed(Idle) = {}
  BY DEF Locked, SetFails, EndBind, Passed, Idle
<1>2. calm' => calm /\ req[q].pc = "check" /\ UNCHANGED <<count, lock, wrong>>
  BY DEF Locked, SetFails
<1> QED BY <1>1, <1>2, IdleRecord, ChecksKeepCalm

\* A right secret owes no increment; clearFailures comes next.
LEMMA RightSecretKeepsCalm ==
  ASSUME LimiterInv, NEW q \in Requests, RightSecret(q)
  PROVE  CalmInv'
<1>1. req[q] \in Request /\ req[q].pc = "verify"
  BY DEF LimiterInv, EarlyInv, LimiterTypeOK, RightSecret
<1>2. PICK x : x = [req[q] EXCEPT !.pc = "clear", !.ceiling = "user_ref", !.read = 0, !.live = TRUE]
  OBVIOUS
<1>3. x \in Request /\ x.pc = "clear"
  BY <1>1, <1>2 DEF Request, PC, Ceilings
<1>4. req' = [req EXCEPT ![q] = x] /\ calm' = calm /\ UNCHANGED <<count, lock, wrong>>
  BY <1>2 DEF RightSecret, Step
<1>5. Passed(x) = {}
  BY <1>3 DEF Passed
<1> QED BY <1>1, <1>3, <1>4, <1>5, ChecksKeepCalm

\* A wrong answer that checkLocked let through is within every ceiling.
LEMMA WrongSecretKeepsCalm ==
  ASSUME LimiterInv, NEW q \in Requests, WrongSecret(q)
  PROVE  CalmInv'
<1>1. /\ LimiterTypeOK /\ Placed /\ IsFiniteSet(Active) /\ CalmInv
      /\ req[q].pc = "verify" /\ req[q].pc # "idle"
  BY DEF LimiterInv, EarlyInv, WrongSecret
<1>2. q \in Active /\ req[q] \in Request
  BY <1>1, ActiveFacts
<1>3. PICK x : x = [req[q] EXCEPT !.pc = "get", !.ceiling = "user_ref", !.read = 0, !.live = TRUE]
  OBVIOUS
<1>4. /\ x \in Request /\ x.pc = "get" /\ x.ceiling = "user_ref"
      /\ x.user = req[q].user /\ x.ref = req[q].ref
  BY <1>2, <1>3 DEF Request, PC, Ceilings
<1>5. req' = [req EXCEPT ![q] = x] /\ count' = count /\ lock' = lock /\ calm' = calm
  BY <1>3 DEF WrongSecret, Step
<1>6. \A k : (Owes(x, k) <=> k \in OwnKeys(q)) /\ ~Arming(x, k)
  BY <1>4, RankFacts DEF Owes, OwnKeys, Arming
<1>7. ASSUME calm', NEW k \in Keys
      PROVE  /\ wrong'[k] <= Limit(k)
             /\ IF k \in OwnKeys(q)
                THEN ~lock'[k] /\ wrong'[k] = count'[k] + 1 /\ count'[k] < Limit(k)
                ELSE Settled(k)'
  <2>1. wrong'[k] = IF k \in OwnKeys(q) THEN Cap(wrong[k] + 1, Limit(k) + 1) ELSE wrong[k]
    BY DEF WrongSecret
  <2>2. wrong[k] \in Nat /\ count[k] \in Nat /\ Limit(k) \in Nat /\ wrong[k] <= Limit(k)
    BY <1>1, <1>5, <1>7, CalmFacts, LimitIsPositive DEF LimiterTypeOK
  <2>3. \A z : ~Owes(req[q], z) /\ ~Arming(req[q], z)
    BY <1>1 DEF Owes, Arming
  <2>4. Settled(k)
    BY <1>1, <1>2, <1>5, <1>7, <2>3, CalmFacts
  <2>5. k \in OwnKeys(q) => ~lock[k]
    <3>1. CalmRequest(req[q])
      BY <1>1, <1>2, <1>5, <1>7, CalmFacts
    <3> QED BY <1>1, <3>1 DEF CalmRequest, Passed, OwnKeys
  <2> QED BY <1>5, <2>1, <2>2, <2>4, <2>5 DEF Settled, Cap
<1>8. calm' => \A p \in Active : p = q
  BY <1>1, <1>2, <1>5, CalmFacts
<1>9. calm' => CalmRequest(x)'
  BY <1>4, <1>6, <1>7 DEF CalmRequest, Passed
<1> QED BY <1>1, <1>4, <1>5, <1>6, <1>7, <1>8, <1>9, MovesKeepCalm

\* Outside the key it is at, a request owes the ceilings that come later.
LEMMA LaterDebts ==
  ASSUME LimiterTypeOK, Placed, NEW q \in Requests,
         req[q].pc \in {"get", "set", "lock", "delete"}, NEW k, k # key(q)
  PROVE  /\ Owes(req[q], k) <=> \E c \in Ceilings : /\ k = Key(c, req[q].user, req[q].ref)
                                                /\ rank[c] > rank[req[q].ceiling]
         /\ ~Arming(req[q], k)
<1>1. /\ req[q].ceiling \in Ceilings /\ key(q) = Key(req[q].ceiling, req[q].user, req[q].ref)
  BY ActiveFacts
<1>2. ~Arming(req[q], k)
  BY <1>1 DEF Arming
<1>3. \A c \in Ceilings : k = Key(c, req[q].user, req[q].ref) =>
        (rank[c] >= rank[req[q].ceiling] <=> rank[c] > rank[req[q].ceiling])
  <2>1. \A c \in Ceilings : k = Key(c, req[q].user, req[q].ref) => c # req[q].ceiling
    BY <1>1
  <2>2. \A c, d \in Ceilings : c # d => (rank[c] >= rank[d] <=> rank[c] > rank[d])
    BY DEF rank, Ceilings
  <2> QED BY <1>1, <2>1, <2>2
<1> QED BY <1>2, <1>3 DEF Owes

\* A step of recordFailure is about one key: it leaves the others as they are.
LEMMA BumpsKeepCalm ==
  ASSUME LimiterInv, NEW q \in Requests, NEW x \in Request, req' = [req EXCEPT ![q] = x],
         NEW kk, kk = key(q),
         req[q].pc \in {"get", "set", "lock", "delete"},
         x.pc \in {"idle", "get", "set", "lock", "delete"},
         x.pc # "idle" => x.user = req[q].user /\ x.ref = req[q].ref,
         calm' => calm,
         \A k : k # kk => (Owes(x, k) <=> Owes(req[q], k)) /\ ~Arming(x, k),
         UNCHANGED wrong,
         calm' => \A k \in Keys \ {kk} : count'[k] = count[k] /\ lock'[k] = lock[k],
         calm' => \/ /\ Owes(x, kk) /\ ~Arming(x, kk)
                     /\ ~lock'[kk] /\ wrong[kk] = count'[kk] + 1
                     /\ count'[kk] < Limit(kk)
                  \/ /\ ~Owes(x, kk) /\ Arming(x, kk)
                     /\ wrong[kk] = Limit(kk)
                     /\ x.pc = "delete" <=> lock'[kk]
                  \/ ~Owes(x, kk) /\ ~Arming(x, kk) /\ Settled(kk)',
         calm' => (x.pc = "set" => x.live /\ x.read = count'[Key(x.ceiling, x.user, x.ref)])
  PROVE  CalmInv'
<1>1. LimiterTypeOK /\ Placed /\ IsFiniteSet(Active) /\ CalmInv /\ req[q].pc # "idle"
  BY DEF LimiterInv, EarlyInv
<1>2. q \in Active /\ key(q) \in Keys
  BY <1>1, ActiveFacts
<1>3. ASSUME calm'
      PROVE  /\ \A p \in Active : p = q
             /\ x.pc # "idle" => CalmRequest(x)'
             /\ \A k \in Keys : ~Owes(x, k) /\ ~Arming(x, k) => Settled(k)'
             /\ \A k \in Keys : wrong'[k] <= Limit(k)
  <2>1. calm /\ Active = {q} /\ CalmRequest(req[q])
    BY <1>1, <1>2, <1>3, CalmFacts
  <2>2. wrong' = wrong /\ \A k \in Keys : wrong'[k] <= Limit(k)
    BY <1>1, <2>1, CalmFacts
  <2>3. ASSUME NEW k \in Keys, k # kk
        PROVE  /\ count'[k] = count[k] /\ lock'[k] = lock[k] /\ wrong'[k] = wrong[k]
               /\ (Owes(x, k) <=> Owes(req[q], k)) /\ ~Arming(x, k) /\ ~Arming(req[q], k)
    BY <1>1, <1>3, <2>2, <2>3, LaterDebts
  <2>4. ASSUME NEW k \in Keys, k # kk
        PROVE  /\ Owes(x, k) => ~lock'[k] /\ wrong'[k] = count'[k] + 1 /\ count'[k] < Limit(k)
               /\ ~Owes(x, k) => Settled(k)'
    <3>1. Owes(x, k) => ~lock[k] /\ wrong[k] = count[k] + 1 /\ count[k] < Limit(k)
      BY <2>1, <2>3, <2>4 DEF CalmRequest
    <3>2. ~Owes(x, k) => Settled(k)
      BY <1>1, <1>2, <2>1, <2>3, <2>4, CalmFacts
    <3> QED BY <2>3, <2>4, <3>1, <3>2 DEF Settled
  <2>5. /\ Owes(x, kk) => ~lock'[kk] /\ wrong'[kk] = count'[kk] + 1 /\ count'[kk] < Limit(kk)
        /\ Arming(x, kk) => wrong'[kk] = Limit(kk) /\ (x.pc = "delete" <=> lock'[kk])
        /\ ~Owes(x, kk) /\ ~Arming(x, kk) => Settled(kk)'
    BY <1>3, <2>2
  <2>6. /\ Passed(x) = {}
        /\ \A k \in Keys : Arming(x, k) => k = kk
    BY <2>3 DEF Passed
  <2>7. CalmRequest(x)'
    BY <1>3, <2>4, <2>5, <2>6 DEF CalmRequest
  <2> QED BY <2>1, <2>2, <2>3, <2>4, <2>5, <2>7
<1> QED BY <1>1, <1>3, MovesKeepCalm

\* In a calm run the value read is the value still stored at the write.
LEMMA BumpGetKeepsCalm ==
  ASSUME LimiterInv, NEW q \in Requests, BumpGet(q)
  PROVE  CalmInv'
<1>1. /\ LimiterTypeOK /\ Placed /\ CalmInv /\ req[q].pc = "get" /\ req[q].pc # "idle"
  BY DEF LimiterInv, EarlyInv, BumpGet
<1>2. /\ q \in Active /\ req[q] \in Request /\ count[key(q)] \in Nat
      /\ key(q) = Key(req[q].ceiling, req[q].user, req[q].ref)
  BY <1>1, ActiveFacts
<1>3. PICK n \in {0, count[key(q)]} :
        /\ req' = [req EXCEPT ![q].pc = "set", ![q].read = n, ![q].live = TRUE]
        /\ calm' => calm /\ n = count[key(q)]
  BY DEF BumpGet
<1>4. PICK x : x = [req[q] EXCEPT !.pc = "set", !.read = n, !.live = TRUE]
  OBVIOUS
<1>5. n \in Nat
  BY <1>2, <1>3
<1>6. /\ x \in Request /\ x.pc = "set" /\ x.read = n /\ x.ceiling = req[q].ceiling
      /\ x.user = req[q].user /\ x.ref = req[q].ref /\ x.live = TRUE
  BY <1>2, <1>4, <1>5 DEF Request, PC
<1>7. req' = [req EXCEPT ![q] = x]
  BY <1>3, <1>4
<1>8. \A k : (Owes(x, k) <=> Owes(req[q], k)) /\ ~Arming(x, k)
  BY <1>1, <1>6 DEF Owes, Arming
<1>9. count' = count /\ lock' = lock /\ wrong' = wrong
  BY DEF BumpGet
<1>10. PICK kk \in Keys : kk = key(q)
  BY <1>1, ActiveFacts
<1>11. Owes(req[q], kk)
  BY <1>1, <1>10, DebtFacts
<1>12. calm' => ~lock[kk] /\ wrong[kk] = count[kk] + 1 /\ count[kk] < Limit(kk)
  BY <1>1, <1>2, <1>3, <1>11, CalmFacts DEF CalmRequest
<1>13. calm' => x.live /\ x.read = count'[Key(x.ceiling, x.user, x.ref)]
  BY <1>2, <1>3, <1>6, <1>9
<1> QED BY <1>1, <1>3, <1>6, <1>7, <1>8, <1>9, <1>10, <1>11, <1>12, <1>13, BumpsKeepCalm

\* The bump that reaches the ceiling goes on to arm its lock, in time.
LEMMA BumpSetKeepsCalm ==
  ASSUME LimiterInv, NEW q \in Requests, BumpSet(q)
  PROVE  CalmInv'
<1>1. /\ LimiterTypeOK /\ Placed /\ CalmInv /\ req[q].pc = "set" /\ req[q].pc # "idle"
  BY DEF LimiterInv, EarlyInv, BumpSet
<1>2. /\ q \in Active /\ req[q] \in Request /\ req[q].ceiling \in Ceilings
      /\ key(q) = Key(req[q].ceiling, req[q].user, req[q].ref)
  BY <1>1, ActiveFacts
<1>3. PICK kk \in Keys : kk = key(q)
  BY <1>1, ActiveFacts
<1>4. count[kk] \in Nat /\ Limit(kk) \in Nat
  BY <1>1, LimitIsPositive DEF LimiterTypeOK
<1>5. lock' = lock /\ wrong' = wrong /\ calm' = calm
  BY DEF BumpSet
<1>6. calm => /\ ~lock[kk] /\ wrong[kk] = count[kk] + 1 /\ count[kk] < Limit(kk)
              /\ req[q].live = TRUE /\ req[q].read = count[kk]
  <2>1. Owes(req[q], kk)
    BY <1>1, <1>3, DebtFacts
  <2> QED BY <1>1, <1>2, <1>3, <2>1, CalmFacts DEF CalmRequest
<1>7. calm => count' = [count EXCEPT ![kk] = count[kk] + 1]
  <2>1. count' = [count EXCEPT ![kk] = IF req[q].live THEN Cap(req[q].read + 1, Limit(kk)) ELSE 0]
    BY <1>3 DEF BumpSet
  <2>2. count[kk] < Limit(kk) => Cap(count[kk] + 1, Limit(kk)) = count[kk] + 1
    BY <1>4 DEF Cap
  <2> QED BY <1>6, <2>1, <2>2
<1>8. /\ calm => count'[kk] = count[kk] + 1
      /\ calm => \A k \in Keys \ {kk} : count'[k] = count[k]
  BY <1>1, <1>7 DEF LimiterTypeOK
<1>9. CASE req[q].read + 1 >= Limit(kk)
  <2>1. PICK x : x = [req[q] EXCEPT !.pc = "lock"]
    OBVIOUS
  <2>2. /\ x \in Request /\ x.pc = "lock" /\ x.ceiling = req[q].ceiling
        /\ x.user = req[q].user /\ x.ref = req[q].ref
    BY <1>2, <2>1 DEF Request, PC
  <2>3. req' = [req EXCEPT ![q] = x]
    BY <1>3, <1>9, <2>1 DEF BumpSet
  <2>4. \A k : Owes(x, k) <=> \E c \in Ceilings : /\ k = Key(c, req[q].user, req[q].ref)
                                                /\ rank[c] > rank[req[q].ceiling]
    BY <2>2 DEF Owes
  <2>5. \A k : k # kk => (Owes(x, k) <=> Owes(req[q], k)) /\ ~Arming(x, k)
    BY <1>1, <1>2, <1>3, <2>2, <2>4, LaterDebts DEF Arming
  <2>6. ~Owes(x, kk) /\ Arming(x, kk)
    BY <1>2, <1>3, <2>2, <2>4, KeyFacts, RankFacts DEF Arming
  <2>7. calm' => wrong[kk] = Limit(kk) /\ ~lock'[kk]
    BY <1>4, <1>5, <1>6, <1>9
  <2> QED BY <1>1, <1>3, <1>5, <1>8, <2>2, <2>3, <2>5, <2>6, <2>7, BumpsKeepCalm
<1>10. CASE ~(req[q].read + 1 >= Limit(kk))
  <2>1. NextCeiling(q)
    BY <1>3, <1>10 DEF BumpSet
  <2>2. PICK x \in Request :
          /\ req' = [req EXCEPT ![q] = x]
          /\ x.pc = "idle" \/ (x.pc = "get" /\ x.user = req[q].user /\ x.ref = req[q].ref)
          /\ \A k : Owes(x, k) <=> \E c \in Ceilings : /\ k = Key(c, req[q].user, req[q].ref)
                                                    /\ rank[c] > rank[req[q].ceiling]
          /\ \A k : ~Arming(x, k)
    BY <1>1, <2>1, NextCeilingRecord
  <2>3. \A k : k # kk => (Owes(x, k) <=> Owes(req[q], k))
    BY <1>1, <1>3, <2>2, LaterDebts
  <2>4. ~Owes(x, kk)
    BY <1>2, <1>3, <2>2, KeyFacts, RankFacts
  <2>5. calm' => Settled(kk)'
    BY <1>4, <1>5, <1>6, <1>8, <1>10 DEF Settled
  <2> QED BY <1>1, <1>3, <1>5, <1>8, <2>2, <2>3, <2>4, <2>5, BumpsKeepCalm
<1> QED BY <1>9, <1>10

\* In a calm run the counter that reached its limit is locked before the next
\* check.
LEMMA SetLockKeepsCalm ==
  ASSUME LimiterInv, NEW q \in Requests, SetLock(q)
  PROVE  CalmInv'
<1>1. /\ LimiterTypeOK /\ Placed /\ CalmInv /\ req[q].pc = "lock" /\ req[q].pc # "idle"
  BY DEF LimiterInv, EarlyInv, SetLock
<1>2. /\ q \in Active /\ req[q] \in Request /\ req[q].ceiling \in Ceilings
      /\ key(q) = Key(req[q].ceiling, req[q].user, req[q].ref)
  BY <1>1, ActiveFacts
<1>3. PICK kk \in Keys : kk = key(q)
  BY <1>1, ActiveFacts
<1>4. PICK x : x = [req[q] EXCEPT !.pc = "delete", !.ceiling = req[q].ceiling, !.read = 0, !.live = TRUE]
  OBVIOUS
<1>5. /\ x \in Request /\ x.pc = "delete" /\ x.ceiling = req[q].ceiling
      /\ x.user = req[q].user /\ x.ref = req[q].ref
  BY <1>2, <1>4 DEF Request, PC
<1>6. req' = [req EXCEPT ![q] = x]
  BY <1>4 DEF SetLock, Step
<1>7. /\ wrong' = wrong /\ count' = count /\ calm' = calm
      /\ lock' = [lock EXCEPT ![kk] = TRUE]
  BY <1>3 DEF SetLock
<1>8. lock'[kk] = TRUE /\ \A k \in Keys \ {kk} : lock'[k] = lock[k]
  BY <1>1, <1>3, <1>7 DEF LimiterTypeOK
<1>9. \A k : Owes(x, k) <=> Owes(req[q], k)
  BY <1>1, <1>5 DEF Owes
<1>10. \A k : k # kk => ~Arming(x, k)
  BY <1>2, <1>3, <1>5 DEF Arming
<1>11. ~Owes(x, kk) /\ Arming(x, kk) /\ Arming(req[q], kk)
  BY <1>1, <1>2, <1>3, <1>5, <1>9, DebtFacts DEF Arming
<1>12. calm' => wrong[kk] = Limit(kk)
  BY <1>1, <1>2, <1>3, <1>7, <1>11, CalmFacts DEF CalmRequest
<1> QED BY ZenonT(40), <1>1, <1>3, <1>5, <1>6, <1>7, <1>8, <1>9, <1>10, <1>11, <1>12, BumpsKeepCalm

\* The counter of a key that has just been locked goes back to none.
LEMMA DeleteCounterKeepsCalm ==
  ASSUME LimiterInv, NEW q \in Requests, DeleteCounter(q)
  PROVE  CalmInv'
<1>1. /\ LimiterTypeOK /\ Placed /\ CalmInv /\ req[q].pc = "delete" /\ req[q].pc # "idle"
  BY DEF LimiterInv, EarlyInv, DeleteCounter
<1>2. /\ q \in Active /\ req[q] \in Request /\ req[q].ceiling \in Ceilings
      /\ key(q) = Key(req[q].ceiling, req[q].user, req[q].ref)
  BY <1>1, ActiveFacts
<1>3. PICK kk \in Keys : kk = key(q)
  BY <1>1, ActiveFacts
<1>4. PICK x \in Request :
        /\ req' = [req EXCEPT ![q] = x]
        /\ x.pc = "idle" \/ (x.pc = "get" /\ x.user = req[q].user /\ x.ref = req[q].ref)
        /\ \A k : Owes(x, k) <=> \E c \in Ceilings : /\ k = Key(c, req[q].user, req[q].ref)
                                                  /\ rank[c] > rank[req[q].ceiling]
        /\ \A k : ~Arming(x, k)
  BY <1>1, NextCeilingRecord DEF DeleteCounter
<1>5. \A k : Owes(x, k) <=> Owes(req[q], k)
  BY <1>1, <1>4 DEF Owes
<1>6. ~Owes(x, kk) /\ Arming(req[q], kk)
  BY <1>1, <1>2, <1>3, <1>5, DebtFacts DEF Arming
<1>7. calm => wrong[kk] = Limit(kk) /\ lock[kk]
  BY <1>1, <1>2, <1>3, <1>6, CalmFacts DEF CalmRequest
<1>8. /\ wrong' = wrong /\ lock' = lock
      /\ calm' => calm /\ count' = [count EXCEPT ![kk] = 0]
  BY <1>3 DEF DeleteCounter
<1>9. calm' => count'[kk] = 0 /\ \A k \in Keys \ {kk} : count'[k] = count[k]
  BY <1>1, <1>3, <1>8 DEF LimiterTypeOK
<1>10. calm' => Settled(kk)'
  BY <1>7, <1>8, <1>9 DEF Settled
<1> QED BY ZenonT(40), <1>1, <1>3, <1>4, <1>5, <1>6, <1>8, <1>9, <1>10, BumpsKeepCalm

\* The key whose lock runs out is at no request and starts from nothing.
LEMMA LockEndsKeepsCalm ==
  ASSUME LimiterInv, NEW k \in Keys, LockEnds(k)
  PROVE  CalmInv'
<1>1. LimiterTypeOK /\ CalmInv
  BY DEF LimiterInv, EarlyInv
<1>2. /\ lock[k] /\ count' = count /\ req' = req /\ calm' = calm
      /\ lock' = [lock EXCEPT ![k] = FALSE] /\ wrong' = [wrong EXCEPT ![k] = count[k]]
      /\ \A q \in Requests : req[q].pc # "idle" => k \notin OwnKeys(q)
  BY DEF LockEnds
<1>3. /\ ~lock'[k] /\ wrong'[k] = count[k]
      /\ \A z \in Keys : z # k => lock'[z] = lock[z] /\ wrong'[z] = wrong[z]
      /\ \A z : lock'[z] => lock[z]
  BY <1>1, <1>2 DEF LimiterTypeOK
<1>4. Active' = Active /\ \A q \in Active : k \notin OwnKeys(q)
  BY <1>2 DEF Active
<1>5. \A q \in Active : ~Owes(req[q], k) /\ ~Arming(req[q], k)
  <2>1. \A q \in Active : q \in Requests /\ req[q].ceiling \in Ceilings
    BY <1>1 DEF Active, LimiterTypeOK, Request
  <2> QED BY <1>4, <2>1 DEF Owes, Arming, OwnKeys
<1> SUFFICES ASSUME calm' PROVE CalmInv'
  BY DEF CalmInv
<1>6. calm /\ \A p, q \in Active : p = q
  BY <1>1, <1>2 DEF CalmInv
<1>7. count[k] = 0 /\ Limit(k) \in Nat /\ Limit(k) > 0
  <2>1. Settled(k)
    BY <1>1, <1>5, <1>6 DEF CalmInv
  <2> QED BY <1>2, <2>1, LimitIsPositive DEF Settled
<1>8. ASSUME NEW z \in Keys
      PROVE  wrong'[z] <= Limit(z) /\ (Settled(z) => Settled(z)')
  <2>1. wrong[z] <= Limit(z)
    BY <1>1, <1>6, CalmFacts
  <2> QED BY <1>2, <1>3, <1>7, <2>1 DEF Settled
<1>9. ASSUME NEW q \in Active
      PROVE  CalmRequest(req[q])'
  <2>1. CalmRequest(req[q])
    BY <1>1, <1>6, CalmFacts
  <2>2. PICK x : x = req[q]
    OBVIOUS
  <2>3. \A z \in Keys : Owes(x, z) \/ Arming(x, z) => z # k
    BY <1>5, <2>2
  <2>4. CalmRequest(x)'
    BY <1>2, <1>3, <2>1, <2>2, <2>3 DEF CalmRequest
  <2> QED BY <1>2, <2>2, <2>4 DEF CalmRequest, Passed, Owes, Arming
<1>10. ASSUME NEW z \in Keys, \A q \in Active : ~Owes(req[q], z) /\ ~Arming(req[q], z)
       PROVE  Settled(z)'
  BY <1>1, <1>6, <1>8, <1>10 DEF CalmInv
<1>11. \A z \in Keys : (\A q \in Active' : ~Owes(req[q], z)' /\ ~Arming(req[q], z)') => Settled(z)'
  BY <1>2, <1>4, <1>10 DEF Owes, Arming
<1> QED BY <1>4, <1>6, <1>8, <1>9, <1>11 DEF CalmInv

\* Who is at rest begins again with the session ceiling.
LEMMA AtRestStep ==
  ASSUME LimiterTypeOK, AtRest, [LimiterNext]_limiterVars
  PROVE  AtRest'
<1>1. ASSUME NEW q \in Requests, NEW x, req' = [req EXCEPT ![q] = x],
             x.pc = "idle" => x.ceiling = "session"
      PROVE  AtRest'
  <2>1. \A p \in Requests : req'[p] = IF p = q THEN x ELSE req[p]
    BY <1>1 DEF LimiterTypeOK
  <2> QED BY <1>1, <2>1 DEF AtRest
<1>2. ASSUME NEW q \in Requests, EndBind(q) PROVE AtRest'
  BY <1>1, <1>2, IdleRecord DEF EndBind
<1>3. ASSUME NEW q \in Requests, NEW l, l # "idle", NEW c, Step(q, l, c) PROVE AtRest'
  <2>1. PICK x : x = [req[q] EXCEPT !.pc = l, !.ceiling = c, !.read = 0, !.live = TRUE]
    OBVIOUS
  <2>2. req[q] \in Request
    BY DEF LimiterTypeOK
  <2>3. x.pc = l
    BY <2>1, <2>2 DEF Request
  <2>4. req' = [req EXCEPT ![q] = x]
    BY <1>3, <2>1 DEF Step
  <2> QED BY <1>1, <1>3, <2>3, <2>4
<1>4. ASSUME NEW q \in Requests, NextCeiling(q) PROVE AtRest'
  BY <1>1, <1>4, NextCeilingRecord
<1>5. CASE Starts
  <2>1. PICK q \in Requests, u \in Binders, r \in Refs : Start(q, u, r)
    BY <1>5 DEF Starts
  <2>2. PICK x : x = [req[q] EXCEPT !.pc = "check", !.user = u, !.ref = r]
    OBVIOUS
  <2>3. x.pc = "check"
    BY <2>2 DEF LimiterTypeOK, Request
  <2>4. req' = [req EXCEPT ![q] = x]
    BY <2>1, <2>2 DEF Start
  <2> QED BY <1>1, <2>3, <2>4
<1>6. ASSUME NEW q \in Requests, WrongAttempt(q) \/ RightSecret(q) \/ SetFails(q) \/ Clear(q)
      PROVE  AtRest'
  <2>1. req[q] \in Request
    BY DEF LimiterTypeOK
  <2>2. CASE Locked(q) \/ SetFails(q)
    BY <1>2, <2>2 DEF Locked, SetFails
  <2>3. CASE PassCheck(q) \/ WrongSecret(q) \/ RightSecret(q) \/ SetLock(q)
    BY <1>3, <2>3 DEF PassCheck, WrongSecret, RightSecret, SetLock
  <2>4. CASE BumpGet(q)
    <3>1. PICK n : req' = [req EXCEPT ![q].pc = "set", ![q].read = n, ![q].live = TRUE]
      BY <2>4 DEF BumpGet
    <3>2. PICK x : x = [req[q] EXCEPT !.pc = "set", !.read = n, !.live = TRUE]
      OBVIOUS
    <3>3. x.pc = "set" /\ req' = [req EXCEPT ![q] = x]
      BY <2>1, <3>1, <3>2 DEF Request
    <3> QED BY <1>1, <3>3
  <2>5. CASE BumpSet(q)
    <3>1. CASE NextCeiling(q)
      BY <1>4, <3>1
    <3>2. CASE req' = [req EXCEPT ![q].pc = "lock"]
      <4>1. PICK x : x = [req[q] EXCEPT !.pc = "lock"]
        OBVIOUS
      <4>2. x.pc = "lock" /\ req' = [req EXCEPT ![q] = x]
        BY <2>1, <3>2, <4>1 DEF Request
      <4> QED BY <1>1, <4>2
    <3> QED BY <2>5, <3>1, <3>2 DEF BumpSet
  <2>6. CASE DeleteCounter(q)
    BY <1>4, <2>6 DEF DeleteCounter
  <2>7. CASE Clear(q)
    BY <1>2, <1>3, <2>7 DEF Clear
  <2> QED BY <1>6, <2>2, <2>3, <2>4, <2>5, <2>6, <2>7 DEF WrongAttempt
<1>7. ASSUME NEW k \in Keys, WindowEnds(k)
      PROVE  AtRest'
  <2>1. ASSUME NEW q \in Requests, req'[q].pc = "idle" PROVE req'[q].ceiling = "session"
    <3>1. req[q] \in Request
      BY DEF LimiterTypeOK
    <3>2. req'[q] = [req[q] EXCEPT !.live = FALSE] \/ req'[q] = req[q]
      BY <1>7 DEF WindowEnds
    <3>3. req'[q].pc = req[q].pc /\ req'[q].ceiling = req[q].ceiling
      BY <3>1, <3>2 DEF Request
    <3> QED BY <2>1, <3>3 DEF AtRest
  <2> QED BY <2>1 DEF AtRest
<1>8. CASE UNCHANGED req
  BY <1>8 DEF AtRest
<1>9. CASE LimiterNext
  BY <1>5, <1>6, <1>7, <1>8, <1>9 DEF LimiterNext, LockEnds
<1>10. CASE UNCHANGED limiterVars
  BY <1>8, <1>10 DEF limiterVars
<1> QED BY <1>9, <1>10

\* The limiter starts with no counter and no lock.
LEMMA LimiterInvInit == LimiterInit => LimiterInv
<1> SUFFICES ASSUME LimiterInit PROVE LimiterInv
  OBVIOUS
<1>1. Active = {} /\ AtRest
  BY IdleRecord DEF LimiterInit, Active, AtRest
<1>2. \A k \in Keys : Limit(k) \in Nat /\ Limit(k) > 0
  BY LimitIsPositive
<1>3. CalmInv
  BY <1>1, <1>2 DEF LimiterInit, CalmInv, Settled
<1> QED BY <1>1, <1>3, EarlyInit DEF LimiterInv

\* Every step of a bind and every expiry keeps both halves.
LEMMA LimiterInvStep == LimiterInv /\ [LimiterNext]_limiterVars => LimiterInv'
<1> SUFFICES ASSUME LimiterInv, [LimiterNext]_limiterVars PROVE LimiterInv'
  OBVIOUS
<1>1. EarlyInv' /\ AtRest'
  BY EarlyStep, AtRestStep DEF LimiterInv, EarlyInv
<1>2. CalmInv'
  <2>1. CASE Starts
    BY <2>1, StartKeepsCalm DEF Starts
  <2>2. ASSUME NEW q \in Requests, WrongAttempt(q) \/ RightSecret(q) \/ SetFails(q)
        PROVE  CalmInv'
    BY <2>2, EndsKeepCalm, PassCheckKeepsCalm, WrongSecretKeepsCalm, RightSecretKeepsCalm,
       BumpGetKeepsCalm, BumpSetKeepsCalm, SetLockKeepsCalm, DeleteCounterKeepsCalm
       DEF WrongAttempt
  <2>3. ASSUME NEW q \in Requests, Clear(q) PROVE CalmInv'
    BY <2>3 DEF Clear, CalmInv
  <2>4. ASSUME NEW k \in Keys, WindowEnds(k) PROVE CalmInv'
    BY <2>4 DEF WindowEnds, CalmInv
  <2>5. ASSUME NEW k \in Keys, LockEnds(k) PROVE CalmInv'
    BY <2>5, LockEndsKeepsCalm
  <2>6. CASE UNCHANGED limiterVars
    <3>1. count' = count /\ lock' = lock /\ req' = req /\ wrong' = wrong /\ calm' = calm
      BY <2>6 DEF limiterVars
    <3> QED BY <3>1 DEF LimiterInv, CalmInv, Active, CalmRequest, Passed, Owes, Arming,
       Settled
  <2> QED BY <2>1, <2>2, <2>3, <2>4, <2>5, <2>6 DEF LimiterNext
<1> QED BY <1>1, <1>2 DEF LimiterInv

\* The strengthened invariant holds throughout.
LEMMA LimiterInvAlways == LimiterSpec => []LimiterInv
  BY LimiterInvInit, LimiterInvStep, PTL DEF LimiterSpec

\* BindingRateLimiter locks nobody out early, whatever bumps, clears, expiring
\* windows and cache errors interleave, and, as long as nothing overlaps or is
\* forgiven, lets nobody pass a ceiling (checkLocked, recordFailure, bump).
THEOREM LimiterIsSafe == LimiterSpec => []LimiterSafe
<1>1. LimiterInv => LimiterSafe
  BY DEF LimiterInv, EarlyInv, CalmInv, LimiterSafe, CeilingHolds
<1> QED BY <1>1, LimiterInvAlways, PTL
=============================================================================
