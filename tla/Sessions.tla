------------------------------- MODULE Sessions -------------------------------
(***************************************************************************)
(* The omnichannel session of one user: RedisSessionStore (a hash and a    *)
(* sorted set, written together by one Lua script) or InMemorySessionStore *)
(* (a Map entry), and the two-read views of SessionService over them.      *)
(* The writers of the store are other modules: any appendEvent may come at *)
(* any time, with any event, again with an event that is there already.    *)
(***************************************************************************)
EXTENDS Integers, Sequences, FiniteSets, SequencesExt, Selection

CONSTANTS SessionEvents,   \* [id, channel, timestamp]
          Appenders,       \* concurrent callers of appendEvent
          SessionTtls,     \* seconds to live an append may ask for
          RecentWindow,    \* RECENT_EVENTS_WINDOW_MS
          PageSizes,
          NoStoredSession,
          MaxSessionTime, MaxAppends  \* bounds

SessionRecord == [id : Int, channel : {e.channel : e \in SessionEvents}, count : Nat]
PendingRecord == [event : SessionEvents, ttl : SessionTtls]

\* An event's id is its own, and orders the events of one instant.
ASSUME SessionAssumption ==
  /\ \A e \in SessionEvents : e.id \in Int /\ e.timestamp \in Int
  /\ \A e, f \in SessionEvents : e.id = f.id => e = f
  /\ SessionTtls \subseteq Nat \ {0} /\ PageSizes \subseteq Nat \ {0}
  /\ NoStoredSession \notin SessionRecord \cup PendingRecord

VARIABLES store,      \* "redis" or "memory": chosen at bootstrap
          session,    \* the metadata, or NoStoredSession
          events,     \* the stored events, in the order they are listed
          expiresAt,  \* when both keys go (redis)
          scriptKnown,\* does Redis know the script's SHA
          pending,    \* appender -> [event, ttl] waiting for EVAL, or NoStoredSession
          view,       \* the reader in SessionService
          clock,
          life        \* history: [id, appends] of the session, over all its lives

sessionVars == <<store, session, events, expiresAt, scriptKnown, pending, view, clock, life>>

IdleView == [kind |-> "idle", read |-> FALSE, meta |-> NoStoredSession, page |-> 1, size |-> 1,
             answer |-> <<>>, total |-> 0, listed |-> <<>>, touched |-> FALSE, shifted |-> FALSE]

SessionInit ==
  /\ store \in {"redis", "memory"}
  /\ session = NoStoredSession /\ events = <<>> /\ expiresAt = 0
  /\ scriptKnown = TRUE
  /\ pending = [a \in Appenders |-> NoStoredSession]
  /\ view = IdleView
  /\ clock = 0
  /\ life = [id |-> 0, appends |-> 0]

\* Order of a sorted set: by score, then by member.
Before(e, f) == e.timestamp < f.timestamp \/ (e.timestamp = f.timestamp /\ e.id < f.id)

\* ZADD: behind the events before it; an equal member is not added twice.
Added(e) ==
  IF e \in ToSet(events) THEN events
  ELSE InsertAt(events, Cardinality({i \in DOMAIN events : Before(events[i], e)}) + 1, e)

\* SESSION_APPEND_LUA: ZADD, HSETNX of the identity, eventCount + 1 in any case.
LuaAppend(e, fresh) ==
  [events |-> Added(e),
   session |-> IF session = NoStoredSession
               THEN [id |-> fresh, channel |-> e.channel, count |-> 1]
               ELSE [session EXCEPT !.count = @ + 1]]

\* InMemorySessionStore.appendEvent: push; the channel is the last event's.
MemoryAppend(e) ==
  [events |-> Append(events, e),
   session |-> [id |-> IF session = NoStoredSession THEN e.id ELSE session.id,
                channel |-> e.channel, count |-> Len(events) + 1]]

\* History: what a view between its reads, or between two pages, missed.
Disturb(now) ==
  view' = IF view.kind \in {"idle", "shown"} THEN view
          ELSE [view EXCEPT !.touched = TRUE, !.shifted = @ \/ ~IsPrefix(events, now)]

\* One run of the script, or one memory append. `fresh' is the new randomUUID().
StoreEvent(e, ttl) ==
  LET new == IF store = "redis" THEN LuaAppend(e, life.id + 1) ELSE MemoryAppend(e)
  IN /\ life.appends < MaxAppends
     /\ events' = new.events /\ session' = new.session
     /\ expiresAt' = IF store = "redis" THEN clock + ttl ELSE 0
     /\ life' = [id |-> IF session = NoStoredSession THEN life.id + 1 ELSE life.id, appends |-> life.appends + 1]
     /\ Disturb(new.events)

\* appendEvent, the script known (or no Redis at all).
AppendEvent(a) ==
  /\ pending[a] = NoStoredSession
  /\ store = "redis" => scriptKnown
  /\ \E e \in SessionEvents, ttl \in SessionTtls : StoreEvent(e, ttl)
  /\ UNCHANGED <<store, scriptKnown, pending, clock>>

\* EVALSHA answers NOSCRIPT: nothing was written yet.
NoScript(a) ==
  /\ store = "redis" /\ ~scriptKnown /\ pending[a] = NoStoredSession
  /\ life.appends < MaxAppends
  /\ \E e \in SessionEvents, ttl \in SessionTtls :
       pending' = [pending EXCEPT ![a] = [event |-> e, ttl |-> ttl]]
  /\ UNCHANGED <<store, session, events, expiresAt, scriptKnown, view, clock, life>>

\* The fallback EVAL writes once; the script is loaded again.
EvalFallback(a) ==
  /\ pending[a] # NoStoredSession
  /\ StoreEvent(pending[a].event, pending[a].ttl)
  /\ pending' = [pending EXCEPT ![a] = NoStoredSession]
  /\ scriptKnown' = TRUE
  /\ UNCHANGED <<store, clock>>

\* Redis restarts or flushes its scripts; the data survives.
ScriptFlush ==
  /\ store = "redis" /\ scriptKnown /\ scriptKnown' = FALSE
  /\ UNCHANGED <<store, session, events, expiresAt, pending, view, clock, life>>

\* Mutant: only the hash expires.
SessionTickHashOnly ==
  /\ clock < MaxSessionTime /\ clock' = clock + 1
  /\ IF store = "redis" /\ session # NoStoredSession /\ expiresAt <= clock + 1
     THEN session' = NoStoredSession /\ life' = [life EXCEPT !.appends = 0]
     ELSE UNCHANGED <<session, life>>
  /\ UNCHANGED <<store, events, expiresAt, scriptKnown, pending, view>>

\* Time passes; EXPIRE drops both keys at once. The in-memory store ignores ttl.
SessionTick ==
  /\ clock < MaxSessionTime /\ clock' = clock + 1
  /\ IF store = "redis" /\ session # NoStoredSession /\ expiresAt <= clock + 1
     THEN /\ session' = NoStoredSession /\ events' = <<>>
          /\ life' = [life EXCEPT !.appends = 0]
          /\ Disturb(<<>>)
     ELSE UNCHANGED <<session, events, life, view>>
  /\ UNCHANGED <<store, expiresAt, scriptKnown, pending>>

-----------------------------------------------------------------------------
\* getSession, the first of the two reads of either view. A fresh listing
\* starts at page 1; the next call asks for the next page.
GetMySession ==
  /\ view.kind = "idle"
  /\ view' = [IdleView EXCEPT !.kind = IF session = NoStoredSession THEN "idle" ELSE "detail", !.meta = session]
  /\ UNCHANGED <<store, session, events, expiresAt, scriptKnown, pending, clock, life>>

GetMyEvents ==
  /\ view.kind \in {"idle", "listing"} /\ ~view.read
  /\ \E size \in PageSizes :
       /\ view.kind = "listing" => size = view.size
       /\ view' = [view EXCEPT !.kind = "listing", !.read = TRUE, !.meta = session,
                               !.size = size, !.touched = FALSE]
  /\ UNCHANGED <<store, session, events, expiresAt, scriptKnown, pending, clock, life>>

GetEvents(from) == Filtered(events, {i \in DOMAIN events : events[i].timestamp >= from})

\* events.slice(offset, offset + pageSize)
Page(s, page, size) ==
  SubSeq(s, (page - 1) * size + 1, IF page * size < Len(s) THEN page * size ELSE Len(s))

DetailAnswered ==
  /\ view.kind = "detail"
  /\ LET found == GetEvents(clock - RecentWindow)
     IN view' = [view EXCEPT !.kind = "shown", !.answer = found, !.total = Len(found)]
  /\ UNCHANGED <<store, session, events, expiresAt, scriptKnown, pending, clock, life>>

PageAnswered ==
  /\ view.kind = "listing" /\ view.read
  /\ LET last == view.page * view.size >= Len(events)
     IN view' = [view EXCEPT !.kind = IF last THEN "shown" ELSE "listing",
                             !.answer = IF last THEN events ELSE <<>>, !.total = Len(events),
                             !.listed = @ \o Page(events, view.page, view.size),
                             !.read = FALSE, !.page = @ + 1]
  /\ UNCHANGED <<store, session, events, expiresAt, scriptKnown, pending, clock, life>>

ViewClosed ==
  /\ view.kind = "shown" /\ view' = IdleView
  /\ UNCHANGED <<store, session, events, expiresAt, scriptKnown, pending, clock, life>>

SessionNext ==
  \/ \E a \in Appenders : AppendEvent(a) \/ NoScript(a) \/ EvalFallback(a)
  \/ ScriptFlush
  \/ SessionTick
  \/ GetMySession \/ GetMyEvents
  \/ DetailAnswered \/ PageAnswered \/ ViewClosed

SessionSpec == SessionInit /\ [][SessionNext]_sessionVars

-----------------------------------------------------------------------------
\* eventCount counts every append of the session's life exactly once, through
\* NOSCRIPT, the EVAL fallback and re-appends; no event is stored without its
\* session, and fewer events than the count means one was appended twice.
CountIsAppends ==
  /\ (session = NoStoredSession) = (events = <<>>)
  /\ session # NoStoredSession =>
       /\ session.count = life.appends
       /\ Len(events) <= session.count
       /\ store = "memory" => Len(events) = session.count

\* The two reads of a view agree unless somebody wrote or the session expired
\* between them: the events belong to the session shown.
ViewIsOneSession ==
  view.kind = "shown" /\ ~view.touched =>
    /\ view.meta = NoStoredSession => view.total = 0
    /\ view.meta # NoStoredSession => view.total <= view.meta.count

\* Paging through the history lists every event once and in order, while events
\* keep arriving, unless one arrived before events already listed or the session
\* expired: the pages already read are a prefix of what is stored.
PagesAreTheHistory ==
  ~view.shifted =>
    /\ view.kind = "listing" => IsPrefix(view.listed, events)
    /\ view.kind = "shown" /\ view.listed # <<>> => view.listed = view.answer

\* The sorted set lists an event once and by its time, in whatever order the events
\* and their duplicates were appended.
ListedInOrder ==
  store = "redis" => \A i, j \in DOMAIN events : i < j => Before(events[i], events[j])

\* A channel session's count, views and pages tell one history, of one session.
HistoryIsWhole == CountIsAppends /\ ViewIsOneSession /\ PagesAreTheHistory /\ ListedInOrder
=============================================================================
