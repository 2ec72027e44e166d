------------------------------ MODULE Binding ------------------------------
(***************************************************************************)
(* Customer binding: BindingService.bindInit, bind and bindRegister        *)
(* (src/modules/binding/binding.service.ts), the BindingVerifiedGuard that *)
(* reads what they write, and the customer-service client they call.       *)
(* Requests run concurrently; a step ends where the code awaits a shared   *)
(* store.  A request turned away before it wrote anything leaves no trace  *)
(* but a failure row in binding_audit, which nothing reads: those rows     *)
(* (success: false), and the masked hints and challenges, are left out;    *)
(* every success row is there, bindInit's challenge_attempt included.  The *)
(* limiter's verdict in bind() is either answer here; module               *)
(* BindingLimiter has it.                                                  *)
(***************************************************************************)
EXTENDS Naturals, FiniteSets

CONSTANTS Users,       \* identities with an OTP-verified phone, one per phone
          Sessions,    \* login sessions
          SessionUser, \* SessionUser[s]: whose session it is
          Refs,        \* customerRefs of customer-service
          Seeds,       \* directories to start from; seed[u]: the customers on u's phone
          Ext,         \* Ext[u]: a customer another channel may create for u's phone
          New,         \* New[u]: the customer create() makes for u's phone
          Requests,    \* concurrent requests to this service
          NoRef,       \* no customerRef (no cache entry, none chosen yet)
          NoSession    \* the session of a request slot not in use

ASSUME BindingAssumption ==
  /\ SessionUser \in [Sessions -> Users]
  /\ Seeds \subseteq [Users -> SUBSET Refs]
  /\ Ext \in [Users -> Refs] /\ New \in [Users -> Refs]
  /\ \A u, v \in Users : New[u] # Ext[v] /\ \A seed \in Seeds : New[u] \notin seed[v]
  /\ \A u, v \in Users : New[u] = New[v] => u = v
  /\ NoRef \notin Refs
  /\ NoSession \notin Sessions

VARIABLES
  known,    \* known[u]: customers customer-service has for u's phone
  unsaved,  \* users whose created customer is not in mock_customer_store yet
  rows,     \* rows[u][r]: number of verified customer_bindings rows
  token,    \* token[s]: cache entry bind:init:{s}
  cache,    \* cache[u]: customerRef in cache entry bind:{u}, or NoRef
  audit,    \* success rows of binding_audit, as <<action, user, ref>>
  req,      \* req[q]: position and locals of request q
  proved,   \* history: <<user, ref>> whose bill-secret was verified
  creators  \* history: users whose own create() call succeeded

stores == <<known, unsaved, rows, token, cache, audit>>
history == <<proved, creators>>
vars == <<stores, req, history>>

PC == {"idle", "challenge", "storeInit", "verify", "create", "save", "select", "update",
       "insert", "deleteInit", "audit", "warm", "guardDb", "guardFill", "served"}

AuditRows == {"challenge_attempt", "bind", "register"} \X Users \X (Refs \cup {NoRef})

Tokens == [present : BOOLEAN, refs : SUBSET Refs]
NoToken == [present |-> FALSE, refs |-> {}]

\* refs: what bindInit resolved.
Request == [pc : PC, sess : Sessions \cup {NoSession}, ref : Refs \cup {NoRef},
            refs : SUBSET Refs]
Idle == [pc |-> "idle", sess |-> NoSession, ref |-> NoRef, refs |-> {}]

TypeOK ==
  /\ known \in [Users -> SUBSET Refs]
  /\ unsaved \subseteq Users
  /\ rows \in [Users -> [Refs -> Nat]]
  /\ token \in [Sessions -> Tokens]
  /\ cache \in [Users -> Refs \cup {NoRef}]
  /\ audit \subseteq AuditRows
  /\ req \in [Requests -> Request]
  /\ proved \subseteq Users \X Refs
  /\ creators \subseteq Users

Init ==
  /\ known \in Seeds /\ unsaved = {}
  /\ rows = [u \in Users |-> [r \in Refs |-> 0]]
  /\ token = [s \in Sessions |-> NoToken]
  /\ cache = [u \in Users |-> NoRef]
  /\ audit = {}
  /\ req = [q \in Requests |-> Idle]
  /\ proved = {} /\ creators = {}

user(q) == SessionUser[req[q].sess]
At(q, l) == req[q].pc = l
Goto(q, l) == req' = [req EXCEPT ![q].pc = l]
Finish(q) == req' = [req EXCEPT ![q] = Idle]

-----------------------------------------------------------------------------
(* customer-service *)

\* resolve(): one to three matches are offered, more are capped without
\* candidates; allowedRefs() of the result.
Resolve(u) == IF Cardinality(known[u]) \in 1..3 THEN known[u] ELSE {}

\* Another channel creates a customer for the phone, which the authority allows
\* only while the phone has none.
Appear(u) ==
  /\ known[u] = {}
  /\ known' = [known EXCEPT ![u] = {Ext[u]}]
  /\ UNCHANGED <<unsaved, rows, token, cache, audit, req, history>>

-----------------------------------------------------------------------------
(* bindInit *)

BindInit(q, s) ==
  /\ At(q, "idle")
  /\ req' = [req EXCEPT ![q] = [Idle EXCEPT
               !.pc = "challenge", !.sess = s,
               !.refs = Resolve(SessionUser[s])]]
  /\ UNCHANGED <<stores, history>>

\* The customer resolve() answered with when there is exactly one.
OnlyOf(refs) == IF Cardinality(refs) = 1 THEN CHOOSE r \in refs : TRUE ELSE NoRef

\* The success row of the resolve: no binding goes with it.  writeAudit swallows a
\* failed insert.
WriteChallenge(q) ==
  /\ At(q, "challenge")
  /\ \/ audit' = audit \cup {<<"challenge_attempt", user(q), OnlyOf(req[q].refs)>>}
     \/ UNCHANGED audit
  /\ Goto(q, "storeInit")
  /\ UNCHANGED <<known, unsaved, rows, token, cache, history>>

StoreInit(q) ==
  /\ At(q, "storeInit")
  /\ token' = [token EXCEPT ![req[q].sess] =
                 [present |-> TRUE, refs |-> req[q].refs]]
  /\ Finish(q)
  /\ UNCHANGED <<known, unsaved, rows, cache, audit, history>>

\* cache.set throws: the request fails and leaves what an earlier one stored.
StoreInitFails(q) ==
  /\ At(q, "storeInit")
  /\ Finish(q)
  /\ UNCHANGED <<stores, history>>

\* The entry reaches its five-minute TTL, or the cache evicts it.
ExpireInit(s) ==
  /\ token[s] # NoToken
  /\ token' = [token EXCEPT ![s] = NoToken]
  /\ UNCHANGED <<known, unsaved, rows, cache, audit, req, history>>

-----------------------------------------------------------------------------
(* bind *)

\* Mutant: any customerRef is accepted once the session has a token.
AcceptForeignRef(q, s, r) ==
  /\ At(q, "idle")
  /\ token[s].present
  /\ req' = [req EXCEPT ![q] = [Idle EXCEPT !.pc = "verify", !.sess = s, !.ref = r]]
  /\ UNCHANGED <<stores, history>>

\* bind() up to verify: the token exists and lists the ref, else the request is
\* turned away.
Bind(q, s, r) ==
  /\ At(q, "idle")
  /\ token[s].present
  /\ r \in token[s].refs
  /\ req' = [req EXCEPT ![q] = [Idle EXCEPT !.pc = "verify", !.sess = s, !.ref = r]]
  /\ UNCHANGED <<stores, history>>

\* A customer made by create() has no bill yet and never passes verify().
HasBill(r) == r \notin {New[u] : u \in Users}

\* Mutant: the guard's cache is warmed as soon as the secret is verified.
VerifyWarmsCache(q) ==
  /\ At(q, "verify")
  /\ HasBill(req[q].ref)
  /\ proved' = proved \cup {<<user(q), req[q].ref>>}
  /\ cache' = [cache EXCEPT ![user(q)] = req[q].ref]
  /\ Goto(q, "select")
  /\ UNCHANGED <<known, unsaved, rows, token, audit, creators>>

\* checkLocked lets it pass and verify() finds the secret in the body right.
Verify(q) ==
  /\ At(q, "verify")
  /\ HasBill(req[q].ref)
  /\ proved' = proved \cup {<<user(q), req[q].ref>>}
  /\ Goto(q, "select")
  /\ UNCHANGED <<stores, creators>>

\* A lock, a wrong secret, or customer-service failing: the request ends here.
Refuse(q) ==
  /\ At(q, "verify")
  /\ Finish(q)
  /\ UNCHANGED <<stores, history>>

-----------------------------------------------------------------------------
(* upsertVerified: select, then update or insert *)

SelectRow(q) ==
  /\ At(q, "select")
  /\ Goto(q, IF rows[user(q)][req[q].ref] > 0 THEN "update" ELSE "insert")
  /\ UNCHANGED <<stores, history>>

\* update ... WHERE id = existing: the row stays verified.
UpdateRow(q) ==
  /\ At(q, "update")
  /\ Goto(q, "deleteInit")
  /\ UNCHANGED <<stores, history>>

\* The partial unique index admits one verified row per (user, ref).
InsertRow(q) ==
  /\ At(q, "insert")
  /\ rows[user(q)][req[q].ref] = 0
  /\ rows' = [rows EXCEPT ![user(q)][req[q].ref] = @ + 1]
  /\ Goto(q, "deleteInit")
  /\ UNCHANGED <<known, unsaved, token, cache, audit, history>>

\* The database rejects the statement (the unique index included) or is down:
\* the error leaves bind() / bindRegister() as it is.
UpsertFails(q) ==
  /\ req[q].pc \in {"select", "update", "insert"}
  /\ Finish(q)
  /\ UNCHANGED <<stores, history>>

-----------------------------------------------------------------------------
(* the tail both bind and bindRegister share *)

\* cache.delete swallows errors: the entry may stay.
DeleteInit(q) ==
  /\ At(q, "deleteInit")
  /\ \/ token' = [token EXCEPT ![req[q].sess] = NoToken]
     \/ UNCHANGED token
  /\ Goto(q, "audit")
  /\ UNCHANGED <<known, unsaved, rows, cache, audit, history>>

\* bind() writes action bind, bindRegister() action register.
SuccessRow(u, r) == <<IF HasBill(r) THEN "bind" ELSE "register", u, r>>

\* writeAudit swallows a failed insert.
WriteAudit(q) ==
  /\ At(q, "audit")
  /\ \/ audit' = audit \cup {SuccessRow(user(q), req[q].ref)}
     \/ UNCHANGED audit
  /\ Goto(q, "warm")
  /\ UNCHANGED <<known, unsaved, rows, token, cache, history>>

\* A failed cache.set is caught and logged.
WarmCache(q) ==
  /\ At(q, "warm")
  /\ \/ cache' = [cache EXCEPT ![user(q)] = req[q].ref]
     \/ UNCHANGED cache
  /\ Finish(q)
  /\ UNCHANGED <<known, unsaved, rows, token, audit, history>>

-----------------------------------------------------------------------------
(* bindRegister *)

\* Reject point 1: goes on only if the phone resolves to none now.
Register(q, s) ==
  /\ At(q, "idle")
  /\ known[SessionUser[s]] = {}
  /\ req' = [req EXCEPT ![q] = [Idle EXCEPT !.pc = "create", !.sess = s]]
  /\ UNCHANGED <<stores, history>>

\* Reject point 2, the race gate: create() checks the phone and puts the
\* customer into its map in one step, then awaits the insert.
Create(q) ==
  /\ At(q, "create")
  /\ known[user(q)] = {}
  /\ known' = [known EXCEPT ![user(q)] = @ \cup {New[user(q)]}]
  /\ unsaved' = unsaved \cup {user(q)}
  /\ req' = [req EXCEPT ![q].pc = "save", ![q].ref = New[user(q)]]
  /\ UNCHANGED <<rows, token, cache, audit, history>>

\* The insert succeeded and create() returns.
SaveCreated(q) ==
  /\ At(q, "save")
  /\ unsaved' = unsaved \ {user(q)}
  /\ creators' = creators \cup {user(q)}
  /\ Goto(q, "select")
  /\ UNCHANGED <<known, rows, token, cache, audit, proved>>

\* The insert failed and create() throws; the map keeps the customer.
SaveFails(q) ==
  /\ At(q, "save")
  /\ Finish(q)
  /\ UNCHANGED <<stores, history>>

\* ConflictException: 409, never auto-bind.
CreateConflict(q) ==
  /\ At(q, "create")
  /\ known[user(q)] # {}
  /\ Finish(q)
  /\ UNCHANGED <<stores, history>>

-----------------------------------------------------------------------------
(* BindingVerifiedGuard.canActivate on a customer-data route *)

GuardHit(q, s) ==
  /\ At(q, "idle")
  /\ cache[SessionUser[s]] # NoRef
  /\ req' = [req EXCEPT ![q] = [Idle EXCEPT !.pc = "served", !.sess = s,
                                            !.ref = cache[SessionUser[s]]]]
  /\ UNCHANGED <<stores, history>>

\* cache.get returns null for an absent entry and for a Redis error alike.
GuardMiss(q, s) ==
  /\ At(q, "idle")
  /\ req' = [req EXCEPT ![q] = [Idle EXCEPT !.pc = "guardDb", !.sess = s]]
  /\ UNCHANGED <<stores, history>>

\* select ... status = 'verified' LIMIT 1: any verified row of the user.
GuardDb(q, r) ==
  /\ At(q, "guardDb")
  /\ rows[user(q)][r] > 0
  /\ req' = [req EXCEPT ![q].pc = "guardFill", ![q].ref = r]
  /\ UNCHANGED <<stores, history>>

\* No row: 403 BINDING_REQUIRED.
GuardDeny(q) ==
  /\ At(q, "guardDb")
  /\ \A r \in Refs : rows[user(q)][r] = 0
  /\ Finish(q)
  /\ UNCHANGED <<stores, history>>

GuardFill(q) ==
  /\ At(q, "guardFill")
  /\ \/ cache' = [cache EXCEPT ![user(q)] = req[q].ref]
     \/ UNCHANGED cache
  /\ Goto(q, "served")
  /\ UNCHANGED <<known, unsaved, rows, token, audit, history>>

\* The handler has run with request.customer set.
Served(q) ==
  /\ At(q, "served")
  /\ Finish(q)
  /\ UNCHANGED <<stores, history>>

ExpireBinding(u) ==
  /\ cache[u] # NoRef
  /\ cache' = [cache EXCEPT ![u] = NoRef]
  /\ UNCHANGED <<known, unsaved, rows, token, audit, req, history>>

\* The process dies: the requests are gone, and with them the customers create()
\* had only in its map; the database and Redis stay.
Crash ==
  /\ req' = [q \in Requests |-> Idle]
  /\ known' = [u \in Users |-> IF u \in unsaved THEN {} ELSE known[u]]
  /\ unsaved' = {}
  /\ UNCHANGED <<rows, token, cache, audit, history>>

-----------------------------------------------------------------------------
Next ==
  \/ \E u \in Users : Appear(u) \/ ExpireBinding(u)
  \/ \E s \in Sessions : ExpireInit(s)
  \/ \E q \in Requests, s \in Sessions :
        BindInit(q, s) \/ Register(q, s) \/ GuardHit(q, s) \/ GuardMiss(q, s)
  \/ \E q \in Requests, s \in Sessions, r \in Refs : Bind(q, s, r)
  \/ \E q \in Requests :
        \/ WriteChallenge(q) \/ StoreInit(q) \/ StoreInitFails(q) \/ Verify(q) \/ Refuse(q)
        \/ SelectRow(q) \/ UpdateRow(q) \/ InsertRow(q) \/ UpsertFails(q)
        \/ DeleteInit(q) \/ WriteAudit(q) \/ WarmCache(q)
        \/ Create(q) \/ SaveCreated(q) \/ SaveFails(q) \/ CreateConflict(q)
        \/ GuardDeny(q) \/ GuardFill(q) \/ Served(q)
  \/ \E q \in Requests, r \in Refs : GuardDb(q, r)
  \/ Crash

Spec == Init /\ [][Next]_vars

-----------------------------------------------------------------------------
\* The authority to read customer data is always earned: a verified row exists
\* only for a customer of the user's own phone, and only after that user proved
\* its bill-secret or created it (bind, bindRegister; SPEC-binding, invariant).
BindingIsEarned ==
  \A u \in Users, r \in Refs : rows[u][r] > 0 =>
    /\ r \in known[u]
    /\ <<u, r>> \in proved \/ (r = New[u] /\ u \in creators)

\* Concurrent binds of one customer never leave two verified rows
\* (upsertVerified's select and insert are two statements).
AtMostOneVerified == \A u \in Users, r \in Refs : rows[u][r] <= 1

\* The forensic log never tells of what did not happen (writeAudit after
\* upsertVerified: "no orphan audit row"): the success row of a bind has its
\* binding and a verified bill-secret, that of a register its binding and the
\* customer the user created, whatever crashed or overlapped since; bindInit's
\* success row, written when no binding need exist, names no customer but one of
\* the user's own phone.
AuditNotOrphan ==
  \A u \in Users, r \in Refs :
    /\ <<"bind", u, r>> \in audit => rows[u][r] > 0 /\ <<u, r>> \in proved
    /\ <<"register", u, r>> \in audit => rows[u][r] > 0 /\ r = New[u] /\ u \in creators
    /\ <<"challenge_attempt", u, r>> \in audit => r \in known[u] \cup {New[u]}

\* The guard never serves, and never caches, a customer without a verified row
\* (resolveBinding, the cache warming of bind and bindRegister).
GuardServesVerified ==
  /\ \A u \in Users : cache[u] # NoRef => rows[u][cache[u]] > 0
  /\ \A q \in Requests : At(q, "served") => rows[user(q)][req[q].ref] > 0

\* A self-registered customer is never created beside another customer of the
\* same phone, however the re-resolve and another channel interleave (create()).
SelfRegisteredAlone ==
  \A u \in Users : New[u] \in known[u] => known[u] = {New[u]}

\* The binding table holds: rows are earned, unique, audited only when there, and a
\* self-registered customer is the only one of its phone.
BindingSafe ==
  /\ TypeOK /\ BindingIsEarned /\ AtMostOneVerified
  /\ AuditNotOrphan /\ SelfRegisteredAlone
=============================================================================
