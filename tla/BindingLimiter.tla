--------------------------- MODULE BindingLimiter ---------------------------
(***************************************************************************)
(* BindingRateLimiter (src/modules/binding/binding-rate-limiter.service.ts)*)
(* as BindingService.bind drives it: checkLocked, verify, then             *)
(* recordFailure or clearFailures.  Every cache call is awaited, so every  *)
(* cache call is a step and concurrent binds interleave between them: a    *)
(* counter is bumped by a get and a later set.                             *)
(***************************************************************************)
EXTENDS Integers, FiniteSets

CONSTANTS Binders, Refs,
          Knows,             \* <<u, r>> such that u may send the right secret of r
          Requests,          \* concurrent bind requests
          NoBinder,          \* user and customer of a request slot not in use
          UserRefLimit, CustomerRefLimit, UserTotalLimit,
          CacheFaults        \* may cache calls fail?

ASSUME LimiterAssumption ==
  /\ Knows \subseteq Binders \X Refs
  /\ NoBinder \notin Binders \cup Refs
  /\ {UserRefLimit, CustomerRefLimit, UserTotalLimit} \subseteq Nat \ {0}
  /\ CacheFaults \in BOOLEAN

Ceilings == {"user_ref", "customer_ref", "session"}

\* The cache keys of one ceiling's counter and lock, by what they are made of.
Key(c, u, r) == CASE c = "user_ref"     -> <<c, u, r>>
                  [] c = "customer_ref" -> <<c, r>>
                  [] c = "session"      -> <<c, u>>

Keys == {Key(c, u, r) : c \in Ceilings, u \in Binders, r \in Refs}

Limit(k) == CASE k[1] = "user_ref"     -> UserRefLimit
              [] k[1] = "customer_ref" -> CustomerRefLimit
              [] k[1] = "session"      -> UserTotalLimit

VARIABLES
  count,  \* count[k]: the windowed counter's count, 0 if absent or elapsed
  lock,   \* lock[k]: is the lock entry there?
  req,    \* req[q]: position and locals of request q
  wrong,  \* history: wrong answers under k since k was last unlocked (saturating)
  calm    \* history: no overlapping requests, cache error, expired window or
          \* success so far

limiterVars == <<count, lock, req, wrong, calm>>

PC == {"idle", "check", "verify", "get", "set", "lock", "delete", "clear"}

\* ceiling: the one being checked, bumped or cleared; read: what bump's get
\* returned; live: has that window not run out since?
Request == [pc : PC, user : Binders \cup {NoBinder}, ref : Refs \cup {NoBinder},
            ceiling : Ceilings, read : Nat, live : BOOLEAN]
Idle == [pc |-> "idle", user |-> NoBinder, ref |-> NoBinder,
         ceiling |-> "session", read |-> 0, live |-> TRUE]

LimiterTypeOK ==
  /\ count \in [Keys -> Nat]
  /\ lock \in [Keys -> BOOLEAN]
  /\ req \in [Requests -> Request]
  /\ wrong \in [Keys -> Nat]
  /\ calm \in BOOLEAN

LimiterInit ==
  /\ count = [k \in Keys |-> 0]
  /\ lock = [k \in Keys |-> FALSE]
  /\ req = [q \in Requests |-> Idle]
  /\ wrong = [k \in Keys |-> 0]
  /\ calm = TRUE

key(q) == Key(req[q].ceiling, req[q].user, req[q].ref)
OwnKeys(q) == {Key(c, req[q].user, req[q].ref) : c \in Ceilings}

\* `next[c]' is the ceiling a method turns to after c.
checkNext == [session |-> "user_ref", user_ref |-> "customer_ref"]
bumpNext == [user_ref |-> "customer_ref", customer_ref |-> "session"]

Step(q, pc, c) ==
  req' = [req EXCEPT ![q].pc = pc, ![q].ceiling = c, ![q].read = 0, ![q].live = TRUE]
EndBind(q) == req' = [req EXCEPT ![q] = Idle]

-----------------------------------------------------------------------------
(* checkLocked and verify *)

\* A bind request that passed the token check.
Start(q, u, r) ==
  /\ req[q].pc = "idle"
  /\ req' = [req EXCEPT ![q].pc = "check", ![q].user = u, ![q].ref = r]
  /\ calm' = (calm /\ \A p \in Requests : req[p].pc = "idle")
  /\ UNCHANGED <<count, lock, wrong>>

\* 429: the lock entry was found.
Locked(q) ==
  /\ req[q].pc = "check"
  /\ lock[key(q)]
  /\ EndBind(q)
  /\ UNCHANGED <<count, lock, wrong, calm>>

\* No entry, or a cache error, which get() turns into null.
PassCheck(q) ==
  /\ req[q].pc = "check"
  /\ ~lock[key(q)] \/ CacheFaults
  /\ IF req[q].ceiling = "customer_ref"
     THEN Step(q, "verify", "customer_ref")
     ELSE Step(q, "check", checkNext[req[q].ceiling])
  /\ calm' = (calm /\ ~lock[key(q)])
  /\ UNCHANGED <<count, lock, wrong>>

\* Counts stop at the limit, where every later comparison is decided, and the
\* ghost one above it.
Cap(n, top) == IF n > top THEN top ELSE n

WrongSecret(q) ==
  /\ req[q].pc = "verify"
  /\ wrong' = [k \in Keys |-> IF k \in OwnKeys(q) THEN Cap(wrong[k] + 1, Limit(k) + 1)
                                                  ELSE wrong[k]]
  /\ Step(q, "get", "user_ref")
  /\ UNCHANGED <<count, lock, calm>>

RightSecret(q) ==
  /\ req[q].pc = "verify"
  /\ <<req[q].user, req[q].ref>> \in Knows
  /\ Step(q, "clear", "user_ref")
  /\ UNCHANGED <<count, lock, wrong, calm>>

-----------------------------------------------------------------------------
(* recordFailure: bump a counter, arm its lock at the limit; three times *)

BumpGet(q) ==
  /\ req[q].pc = "get"
  /\ \/ /\ req' = [req EXCEPT ![q].pc = "set", ![q].read = count[key(q)], ![q].live = TRUE]
        /\ UNCHANGED calm
     \/ /\ CacheFaults
        /\ req' = [req EXCEPT ![q].pc = "set", ![q].read = 0, ![q].live = TRUE]
        /\ calm' = FALSE
  /\ UNCHANGED <<count, lock, wrong>>

\* The next ceiling, or back to bind() after the third.
NextCeiling(q) ==
  IF req[q].ceiling = "session" THEN EndBind(q)
  ELSE Step(q, "get", bumpNext[req[q].ceiling])

\* Mutant: a request that lost the race writes back what it read.
BumpSetUncounted(q) ==
  /\ req[q].pc = "set"
  /\ count' = [count EXCEPT ![key(q)] = IF req[q].live THEN req[q].read ELSE 0]
  /\ IF req[q].read + 1 >= Limit(key(q))
     THEN req' = [req EXCEPT ![q].pc = "lock"]
     ELSE NextCeiling(q)
  /\ UNCHANGED <<lock, wrong, calm>>

\* Mutant: the lock is armed one failure early.
BumpSetEager(q) ==
  /\ req[q].pc = "set"
  /\ count' = [count EXCEPT ![key(q)] = IF req[q].live
                                        THEN Cap(req[q].read + 1, Limit(key(q))) ELSE 0]
  /\ IF req[q].read + 2 >= Limit(key(q))
     THEN req' = [req EXCEPT ![q].pc = "lock"]
     ELSE NextCeiling(q)
  /\ UNCHANGED <<lock, wrong, calm>>

\* An entry written back with a `since' that has run out counts as none.
BumpSet(q) ==
  /\ req[q].pc = "set"
  /\ count' = [count EXCEPT ![key(q)] = IF req[q].live
                                        THEN Cap(req[q].read + 1, Limit(key(q))) ELSE 0]
  /\ IF req[q].read + 1 >= Limit(key(q))
     THEN req' = [req EXCEPT ![q].pc = "lock"]
     ELSE NextCeiling(q)
  /\ UNCHANGED <<lock, wrong, calm>>

SetLock(q) ==
  /\ req[q].pc = "lock"
  /\ lock' = [lock EXCEPT ![key(q)] = TRUE]
  /\ Step(q, "delete", req[q].ceiling)
  /\ UNCHANGED <<count, wrong, calm>>

\* set() throws: bind() fails and the ceilings not reached yet are not bumped.
SetFails(q) ==
  /\ CacheFaults
  /\ req[q].pc \in {"set", "lock"}
  /\ EndBind(q)
  /\ calm' = FALSE
  /\ UNCHANGED <<count, lock, wrong>>

\* delete() swallows an error.
DeleteCounter(q) ==
  /\ req[q].pc = "delete"
  /\ \/ count' = [count EXCEPT ![key(q)] = 0] /\ UNCHANGED calm
     \/ CacheFaults /\ calm' = FALSE /\ UNCHANGED count
  /\ NextCeiling(q)
  /\ UNCHANGED <<lock, wrong>>

-----------------------------------------------------------------------------
\* clearFailures: the per-(user, customer) counter, then the per-user total.
Clear(q) ==
  /\ req[q].pc = "clear"
  /\ \/ count' = [count EXCEPT ![key(q)] = 0]
     \/ CacheFaults /\ UNCHANGED count
  /\ IF req[q].ceiling = "user_ref" THEN Step(q, "clear", "session") ELSE EndBind(q)
  /\ calm' = FALSE
  /\ UNCHANGED <<lock, wrong>>

\* The counter's window runs out; a bump that has read it writes an old `since'.
WindowEnds(k) ==
  /\ count[k] > 0
  /\ count' = [count EXCEPT ![k] = 0]
  /\ req' = [q \in Requests |->
               IF req[q].pc = "set" /\ key(q) = k /\ req[q].read > 0
               THEN [req[q] EXCEPT !.live = FALSE] ELSE req[q]]
  /\ calm' = FALSE
  /\ UNCHANGED <<lock, wrong>>

\* A lock runs out.  No request lives as long as a lock does, so none that is
\* about k spans it.  The ghost restarts from the failures still in their window.
LockEnds(k) ==
  /\ lock[k]
  /\ \A q \in Requests : req[q].pc # "idle" => k \notin OwnKeys(q)
  /\ lock' = [lock EXCEPT ![k] = FALSE]
  /\ wrong' = [wrong EXCEPT ![k] = count[k]]
  /\ UNCHANGED <<count, req, calm>>

\* What a request with a wrong secret goes through.
WrongAttempt(q) ==
  \/ Locked(q) \/ PassCheck(q) \/ WrongSecret(q)
  \/ BumpGet(q) \/ BumpSet(q) \/ SetLock(q) \/ DeleteCounter(q)

Starts == \E q \in Requests, u \in Binders, r \in Refs : Start(q, u, r)

LimiterNext ==
  \/ Starts
  \/ \E q \in Requests : WrongAttempt(q) \/ RightSecret(q) \/ SetFails(q) \/ Clear(q)
  \/ \E k \in Keys : WindowEnds(k) \/ LockEnds(k)

LimiterSpec == LimiterInit /\ [][LimiterNext]_limiterVars

\* Somebody who guesses, within one window: all secrets are wrong and nothing is
\* forgiven.  Requests run to their end, as each cache call answers.
GuessingNext == Starts \/ \E q \in Requests : WrongAttempt(q)
GuessingSpec ==
  LimiterInit /\ [][GuessingNext]_limiterVars /\ \A q \in Requests : WF_limiterVars(WrongAttempt(q))

-----------------------------------------------------------------------------
\* Nobody is locked out early: a lock is armed only after as many wrong answers
\* as its ceiling says, whatever bumps, clears, expiring windows and cache
\* errors interleave (recordFailure never counts a failure twice).
NoEarlyLock == \A k \in Keys : lock[k] => wrong[k] >= Limit(k)

\* Each ceiling admits at most its limit of wrong answers before its lock
\* (checkLocked, recordFailure), as long as requests come one after the other and
\* no success, expired window or cache error forgives one.
CeilingHolds == calm => \A k \in Keys : wrong[k] <= Limit(k)

\* Lost updates cannot keep a ceiling from being reached: whoever keeps sending
\* wrong answers under a key within its window ends up locked (bump, recordFailure).
LockIsReached ==
  \A k \in Keys :
    []<>(\E q \in Requests : req[q].pc = "set" /\ key(q) = k) => <>lock[k]

\* The limiter's locks come neither early nor, without overlap, late.
LimiterSafe == LimiterTypeOK /\ NoEarlyLock /\ CeilingHolds
=============================================================================
