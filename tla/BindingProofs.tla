---------------------------- MODULE BindingProofs ----------------------------
(***************************************************************************)
(* Proofs about Binding for every directory and every number of users,     *)
(* sessions and concurrent requests: a verified binding is earned and      *)
(* unique, its audit row never stands alone, a self-registered customer is *)
(* the only one of its phone, and the guard serves verified rows only.     *)
(***************************************************************************)
EXTENDS Binding, FiniteSetTheorems, TLAPS

\* Has u proved the bill-secret of r, or created r?
Earned(u, r) == <<u, r>> \in proved \/ (r = New[u] /\ u \in creators)

\* What bindInit may have offered u: a customer of the phone, or one that create()
\* made and a crash took back.
Offered(u) == known[u] \cup {New[u]}

Writing == {"select", "update", "insert", "deleteInit", "audit", "warm"}
Bound == {"update", "deleteInit", "audit", "warm", "guardFill", "served"}

\* What a request in position x may rely on: it belongs to a session; the
\* customers it works with were offered; one that awaits the insert of its created
\* customer finds it unsaved; past verify() or create() it has earned a customer
\* that a crash cannot take back; and past upsertVerified, or the guard's query,
\* there is a row.
RequestOK(x) ==
  LET u == SessionUser[x.sess] IN
  /\ x.pc # "idle" => x.sess \in Sessions
  /\ x.pc \in {"challenge", "storeInit"} => x.refs \subseteq Offered(u)
  /\ x.pc = "verify" => x.ref \in Offered(u)
  /\ x.pc = "save" => u \in unsaved /\ x.ref = New[u]
  /\ x.pc \in Writing => x.ref \in known[u] /\ u \notin unsaved /\ Earned(u, x.ref)
  /\ x.pc \in Bound => x.ref \in Refs /\ rows[u][x.ref] > 0

\* One request at a time awaits the insert for a user.
SaverIsAlone ==
  \A p, q \in Requests :
    req[p].pc = "save" /\ req[q].pc = "save" /\ user(p) = user(q) => p = q

\* Tokens name customers that were offered.
TokensAreOffers == \A s \in Sessions : token[s].refs \subseteq Offered(SessionUser[s])

\* While the insert of a created customer is awaited, the customer is the only one
\* of its phone, and nothing is bound to it.
UnsavedIsUnbound ==
  \A u \in unsaved : known[u] = {New[u]} /\ \A r \in Refs : rows[u][r] = 0

CacheIsBound == \A u \in Users : cache[u] # NoRef => rows[u][cache[u]] > 0

\* Nobody proved the bill-secret of a customer that create() made: a bind's row and a
\* register's row in binding_audit cannot be taken for one another.
ProvedHaveBills == \A u \in Users, r \in Refs : <<u, r>> \in proved => HasBill(r)

StoresOK ==
  /\ TokensAreOffers /\ UnsavedIsUnbound /\ CacheIsBound
  /\ BindingIsEarned /\ AtMostOneVerified /\ AuditNotOrphan /\ SelfRegisteredAlone
  /\ ProvedHaveBills

BindingInv ==
  /\ TypeOK
  /\ StoresOK
  /\ \A q \in Requests : RequestOK(req[q])
  /\ SaverIsAlone

\* What the steps write to a request leaves it one.
LEMMA RequestUpdates ==
  ASSUME NEW x \in Request
  PROVE  /\ \A l \in PC : [x EXCEPT !.pc = l] \in Request
         /\ \A l \in PC, r \in Refs : [x EXCEPT !.pc = l, !.ref = r] \in Request
  BY DEF Request

\* The records a handler starts with are requests.
LEMMA NewRequests ==
  /\ Idle \in Request
  /\ \A s \in Sessions, l \in PC : [Idle EXCEPT !.pc = l, !.sess = s] \in Request
  /\ \A s \in Sessions, l \in PC, r \in Refs \cup {NoRef} :
       [Idle EXCEPT !.pc = l, !.sess = s, !.ref = r] \in Request
  /\ \A s \in Sessions, l \in PC, c \in SUBSET Refs :
       [Idle EXCEPT !.pc = l, !.sess = s, !.refs = c] \in Request
  BY DEF Request, Idle, PC

\* The invariant is the guarantee, strengthened.
LEMMA BindingInvImpliesSafe == BindingInv => BindingSafe /\ GuardServesVerified
  BY DEF BindingInv, BindingSafe, StoresOK, GuardServesVerified, CacheIsBound, RequestOK,
     Bound, At, user

\* No row, no token, no cached ref and no audit row at the start.
LEMMA BindingInvInit == Init => BindingInv
<1> SUFFICES ASSUME Init PROVE BindingInv
  OBVIOUS
<1>1. TypeOK
  BY BindingAssumption, NewRequests DEF Init, TypeOK, BindingAssumption, Tokens, NoToken
<1>2. \A q \in Requests : req[q].pc = "idle"
  BY DEF Init, Idle
<1>3. \A s \in Sessions : token[s].refs = {}
  BY DEF Init, NoToken
<1>4. StoresOK
  BY <1>3, BindingAssumption DEF Init, BindingAssumption, StoresOK, TokensAreOffers,
     UnsavedIsUnbound, CacheIsBound, BindingIsEarned, AtMostOneVerified, AuditNotOrphan,
     ProvedHaveBills, SelfRegisteredAlone
<1>5. SaverIsAlone /\ \A q \in Requests : RequestOK(req[q])
  BY <1>2 DEF SaverIsAlone, RequestOK, Writing, Bound
<1> QED BY <1>1, <1>4, <1>5 DEF BindingInv

-----------------------------------------------------------------------------
(* Steps that only move a request *)

\* A request may move wherever its new position may rely on what is there.
LEMMA RequestMoves ==
  ASSUME BindingInv, NEW q \in Requests, NEW x \in Request,
         RequestOK(x), x.pc # "save",
         req' = [req EXCEPT ![q] = x], UNCHANGED <<stores, history>>
  PROVE  BindingInv'
<1> USE DEF BindingInv, stores, history
<1>1. UNCHANGED <<known, unsaved, rows, token, cache, audit, proved, creators>>
  OBVIOUS
<1>2. TypeOK'
  BY <1>1 DEF TypeOK
<1>3. StoresOK'
  BY <1>1 DEF StoresOK, TokensAreOffers, Offered, UnsavedIsUnbound, CacheIsBound,
     BindingIsEarned, AtMostOneVerified, AuditNotOrphan, ProvedHaveBills, SelfRegisteredAlone
<1>4. ASSUME NEW p \in Requests PROVE RequestOK(req[p])'
  <2>1. RequestOK(req'[p])
    BY DEF TypeOK
  <2> QED BY <2>1, <1>1 DEF RequestOK, Offered, Earned
<1>5. SaverIsAlone'
  BY DEF SaverIsAlone, TypeOK, user
<1> QED BY <1>2, <1>3, <1>4, <1>5

\* Steps of bindInit, bind, bindRegister and the guard that only read, and the
\* update that changes no key.
LEMMA MovesKeepInv ==
  ASSUME BindingInv, NEW q \in Requests, NEW s \in Sessions, NEW r \in Refs,
         \/ BindInit(q, s) \/ Bind(q, s, r) \/ Register(q, s)
         \/ GuardHit(q, s) \/ GuardMiss(q, s) \/ GuardDb(q, r)
         \/ SelectRow(q) \/ UpdateRow(q)
  PROVE  BindingInv'
<1>0. /\ TypeOK /\ req[q] \in Request /\ RequestOK(req[q]) /\ StoresOK
      /\ SessionUser[s] \in Users
  BY BindingAssumption DEF BindingInv, TypeOK, BindingAssumption
<1>1. CASE BindInit(q, s)
  <2> DEFINE x == [Idle EXCEPT !.pc = "challenge", !.sess = s, !.refs = Resolve(SessionUser[s])]
  <2>1. x \in Request
    BY <1>0, <1>1, RequestUpdates, NewRequests DEF BindInit, PC, Resolve, TypeOK
  <2>2. RequestOK(x) /\ x.pc # "save"
    BY <1>0, <1>1 DEF BindInit, At, TypeOK, Resolve, RequestOK, Offered, Idle, PC,
       Writing, Bound, Request
  <2>3. req' = [req EXCEPT ![q] = x] /\ UNCHANGED <<stores, history>>
    BY <1>0, <1>1 DEF BindInit, TypeOK, Goto
  <2> QED BY <2>1, <2>2, <2>3, RequestMoves
<1>2. CASE Bind(q, s, r)
  <2> DEFINE x == [Idle EXCEPT !.pc = "verify", !.sess = s, !.ref = r]
  <2>1. x \in Request
    BY <1>0, <1>2, RequestUpdates, NewRequests DEF Bind, PC, Resolve, TypeOK
  <2>2. RequestOK(x) /\ x.pc # "save"
    BY <1>0, <1>2 DEF Bind, At, StoresOK, TokensAreOffers, RequestOK, Idle, PC, Writing,
       Bound, Request
  <2>3. req' = [req EXCEPT ![q] = x] /\ UNCHANGED <<stores, history>>
    BY <1>0, <1>2 DEF Bind, TypeOK, Goto
  <2> QED BY <2>1, <2>2, <2>3, RequestMoves
<1>3. CASE Register(q, s)
  <2> DEFINE x == [Idle EXCEPT !.pc = "create", !.sess = s]
  <2>1. x \in Request
    BY <1>0, <1>3, RequestUpdates, NewRequests DEF Register, PC, Resolve, TypeOK
  <2>2. RequestOK(x) /\ x.pc # "save"
    BY <1>0, <1>3 DEF Register, At, RequestOK, Idle, PC, Writing, Bound, user, Request
  <2>3. req' = [req EXCEPT ![q] = x] /\ UNCHANGED <<stores, history>>
    BY <1>0, <1>3 DEF Register, TypeOK, Goto
  <2> QED BY <2>1, <2>2, <2>3, RequestMoves
<1>4. CASE GuardHit(q, s)
  <2> DEFINE x == [Idle EXCEPT !.pc = "served", !.sess = s, !.ref = cache[SessionUser[s]]]
  <2>1. x \in Request
    BY <1>0, <1>4, RequestUpdates, NewRequests DEF GuardHit, PC, Resolve, TypeOK
  <2>2. RequestOK(x) /\ x.pc # "save"
    BY <1>0, <1>4 DEF GuardHit, At, TypeOK, StoresOK, CacheIsBound, RequestOK, Idle, PC,
       Writing, Bound, Request
  <2>3. req' = [req EXCEPT ![q] = x] /\ UNCHANGED <<stores, history>>
    BY <1>0, <1>4 DEF GuardHit, TypeOK, Goto
  <2> QED BY <2>1, <2>2, <2>3, RequestMoves
<1>5. CASE GuardMiss(q, s)
  <2> DEFINE x == [Idle EXCEPT !.pc = "guardDb", !.sess = s]
  <2>1. x \in Request
    BY <1>0, <1>5, RequestUpdates, NewRequests DEF GuardMiss, PC, Resolve, TypeOK
  <2>2. RequestOK(x) /\ x.pc # "save"
    BY <1>0, <1>5 DEF GuardMiss, At, RequestOK, Idle, PC, Writing, Bound, user, Request
  <2>3. req' = [req EXCEPT ![q] = x] /\ UNCHANGED <<stores, history>>
    BY <1>0, <1>5 DEF GuardMiss, TypeOK, Goto
  <2> QED BY <2>1, <2>2, <2>3, RequestMoves
<1>6. CASE GuardDb(q, r)
  <2> DEFINE x == [req[q] EXCEPT !.pc = "guardFill", !.ref = r]
  <2>1. x \in Request
    BY <1>0, <1>6, RequestUpdates, NewRequests DEF GuardDb, PC, Resolve, TypeOK
  <2>2. RequestOK(x) /\ x.pc # "save"
    BY <1>0, <1>6 DEF GuardDb, At, RequestOK, Idle, PC, Writing, Bound, user, Request
  <2>3. req' = [req EXCEPT ![q] = x] /\ UNCHANGED <<stores, history>>
    BY <1>0, <1>6 DEF GuardDb, TypeOK, Goto
  <2> QED BY <2>1, <2>2, <2>3, RequestMoves
<1>7. CASE SelectRow(q)
  <2> DEFINE x == [req[q] EXCEPT !.pc = IF rows[user(q)][req[q].ref] > 0 THEN "update" ELSE "insert"]
  <2>1. x \in Request
    BY <1>0, <1>7, RequestUpdates, NewRequests DEF SelectRow, PC, Resolve, TypeOK
  <2>2. RequestOK(x) /\ x.pc # "save"
    <3>1. /\ x.sess = req[q].sess /\ x.ref = req[q].ref
          /\ x.pc = IF rows[user(q)][req[q].ref] > 0 THEN "update" ELSE "insert"
      BY <1>0 DEF Request
    <3>2. /\ req[q].sess \in Sessions /\ req[q].ref \in known[user(q)] /\ user(q) \notin unsaved
          /\ Earned(user(q), req[q].ref)
      BY <1>0, <1>7 DEF SelectRow, At, RequestOK, Writing, user
    <3>3. req[q].ref \in Refs
      BY <1>0, <3>2, BindingAssumption DEF TypeOK, user, BindingAssumption
    <3> QED BY <3>1, <3>2, <3>3 DEF RequestOK, Writing, Bound, user
  <2>3. req' = [req EXCEPT ![q] = x] /\ UNCHANGED <<stores, history>>
    BY <1>0, <1>7 DEF SelectRow, TypeOK, Goto
  <2> QED BY <2>1, <2>2, <2>3, RequestMoves
<1>8. CASE UpdateRow(q)
  <2> DEFINE x == [req[q] EXCEPT !.pc = "deleteInit"]
  <2>1. x \in Request
    BY <1>0, <1>8, RequestUpdates, NewRequests DEF UpdateRow, PC, Resolve, TypeOK
  <2>2. RequestOK(x) /\ x.pc # "save"
    BY <1>0, <1>8 DEF UpdateRow, At, RequestOK, Idle, PC, Writing, Bound, user, Request
  <2>3. req' = [req EXCEPT ![q] = x] /\ UNCHANGED <<stores, history>>
    BY <1>0, <1>8 DEF UpdateRow, TypeOK, Goto
  <2> QED BY <2>1, <2>2, <2>3, RequestMoves
<1> QED BY <1>1, <1>2, <1>3, <1>4, <1>5, <1>6, <1>7, <1>8

\* Steps that answer with an error, or serve, and write nothing.
LEMMA EndsKeepInv ==
  ASSUME BindingInv, NEW q \in Requests,
         \/ StoreInitFails(q) \/ Refuse(q) \/ UpsertFails(q) \/ SaveFails(q)
         \/ CreateConflict(q) \/ GuardDeny(q) \/ Served(q)
  PROVE  BindingInv'
<1>1. Finish(q) /\ UNCHANGED <<stores, history>>
  BY DEF StoreInitFails, Refuse, UpsertFails, SaveFails, CreateConflict, GuardDeny, Served
<1>2. Idle \in Request /\ RequestOK(Idle) /\ Idle.pc # "save"
  BY NewRequests DEF RequestOK, Idle, Writing, Bound
<1> QED BY <1>1, <1>2, RequestMoves DEF Finish

-----------------------------------------------------------------------------
(* Steps that write *)

\* What a request relies on outlasts the writes of others: rows and proofs are only
\* added, and customers stay known.
LEMMA WritesKeepInv ==
  ASSUME BindingInv, TypeOK', StoresOK', NEW q \in Requests, NEW x \in Request,
         RequestOK(x)', x.pc # "save", req' = [req EXCEPT ![q] = x],
         UNCHANGED <<known, unsaved, creators>>, proved \subseteq proved',
         \A u \in Users, r \in Refs : rows[u][r] > 0 => rows'[u][r] > 0
  PROVE  BindingInv'
<1>1. TypeOK /\ SaverIsAlone /\ \A p \in Requests : RequestOK(req[p])
  BY DEF BindingInv
<1>2. ASSUME NEW p \in Requests PROVE RequestOK(req[p])'
  <2>1. CASE p = q
    BY <2>1, <1>1 DEF TypeOK, RequestOK, Offered, Earned
  <2>2. CASE p # q
    <3>1. req'[p] = req[p] /\ RequestOK(req[p])
      BY <2>2, <1>1 DEF TypeOK
    <3>2. req[p].pc # "idle" => SessionUser[req[p].sess] \in Users
      BY <3>1, BindingAssumption DEF RequestOK, BindingAssumption
    <3> QED BY <3>1, <3>2 DEF RequestOK, Offered, Earned, Bound
  <2> QED BY <2>1, <2>2
<1>3. SaverIsAlone'
  BY <1>1 DEF SaverIsAlone, TypeOK, user
<1> QED BY <1>2, <1>3 DEF BindingInv

\* A bind token names only refs resolved for the session's phone.
LEMMA TokenWrites ==
  ASSUME TypeOK, StoresOK, NEW s \in Sessions, NEW t \in Tokens,
         t.refs \subseteq Offered(SessionUser[s]),
         token' = [token EXCEPT ![s] = t] \/ token' = token,
         UNCHANGED <<known, unsaved, rows, cache, audit, proved, creators>>
  PROVE  StoresOK' /\ token' \in [Sessions -> Tokens]
<1>1. token' \in [Sessions -> Tokens]
  BY DEF TypeOK
<1>2. \A z \in Sessions : token'[z] = token[z] \/ (z = s /\ token'[z] = t)
  BY DEF TypeOK
<1>3. TokensAreOffers'
  BY <1>2 DEF StoresOK, TokensAreOffers, Offered
<1> QED
  BY <1>1, <1>3 DEF StoresOK, UnsavedIsUnbound, CacheIsBound,
     BindingIsEarned, AtMostOneVerified, AuditNotOrphan, ProvedHaveBills, SelfRegisteredAlone

\* The guard's cache may take a ref that has a verified row.
LEMMA CacheWrites ==
  ASSUME TypeOK, StoresOK, NEW u \in Users, NEW r \in Refs \cup {NoRef},
         r # NoRef => rows[u][r] > 0,
         cache' = [cache EXCEPT ![u] = r] \/ cache' = cache,
         UNCHANGED <<known, unsaved, rows, token, audit, proved, creators>>
  PROVE  StoresOK' /\ cache' \in [Users -> Refs \cup {NoRef}]
<1>1. cache' \in [Users -> Refs \cup {NoRef}]
  BY DEF TypeOK
<1>2. \A z \in Users : cache'[z] = cache[z] \/ (z = u /\ cache'[z] = r)
  BY DEF TypeOK
<1>3. CacheIsBound'
  BY <1>2 DEF StoresOK, CacheIsBound
<1> QED
  BY <1>1, <1>3 DEF StoresOK, TokensAreOffers, Offered, UnsavedIsUnbound,
     BindingIsEarned, AtMostOneVerified, AuditNotOrphan, ProvedHaveBills, SelfRegisteredAlone

\* An audit row is written for what has happened: a binding that has its row and its
\* proof, or a resolve that offered the customer.
LEMMA AuditWrites ==
  ASSUME TypeOK, StoresOK, NEW u \in Users, NEW r \in Refs \cup {NoRef},
         NEW a \in {"challenge_attempt", "bind", "register"},
         a = "bind" => rows[u][r] > 0 /\ <<u, r>> \in proved,
         a = "register" => rows[u][r] > 0 /\ r = New[u] /\ u \in creators,
         a = "challenge_attempt" => r = NoRef \/ r \in Offered(u),
         audit' = audit \cup {<<a, u, r>>} \/ audit' = audit,
         UNCHANGED <<known, unsaved, rows, token, cache, proved, creators>>
  PROVE  StoresOK' /\ audit' \subseteq AuditRows
<1>1. audit' \subseteq AuditRows
  BY DEF TypeOK, AuditRows
<1>2. ASSUME NEW k \in {"challenge_attempt", "bind", "register"}, NEW v \in Users,
             NEW z \in Refs, <<k, v, z>> \in audit'
      PROVE  <<k, v, z>> \in audit \/ (k = a /\ v = u /\ z = r)
  BY <1>2
<1>3. NoRef \notin Refs
  BY BindingAssumption DEF BindingAssumption
<1>4. AuditNotOrphan
  BY DEF StoresOK
<1>5. AuditNotOrphan'
  <2> SUFFICES ASSUME NEW v \in Users, NEW z \in Refs
      PROVE /\ <<"bind", v, z>> \in audit' => rows[v][z] > 0 /\ <<v, z>> \in proved
            /\ <<"register", v, z>> \in audit'
                 => rows[v][z] > 0 /\ z = New[v] /\ v \in creators
            /\ <<"challenge_attempt", v, z>> \in audit' => z \in known[v] \cup {New[v]}
    BY DEF AuditNotOrphan
  <2>1. <<"bind", v, z>> \in audit' => rows[v][z] > 0 /\ <<v, z>> \in proved
    BY <1>2, <1>4 DEF AuditNotOrphan
  <2>2. <<"register", v, z>> \in audit' => rows[v][z] > 0 /\ z = New[v] /\ v \in creators
    BY <1>2, <1>4 DEF AuditNotOrphan
  <2>3. <<"challenge_attempt", v, z>> \in audit' => z \in known[v] \cup {New[v]}
    BY <1>2, <1>3, <1>4 DEF AuditNotOrphan, Offered
  <2> QED BY <2>1, <2>2, <2>3
<1> QED
  BY <1>1, <1>5 DEF StoresOK, TokensAreOffers, Offered, UnsavedIsUnbound, CacheIsBound,
     BindingIsEarned, AtMostOneVerified, ProvedHaveBills, SelfRegisteredAlone

\* A proved secret takes no binding's reason away.
LEMMA ProofWrites ==
  ASSUME TypeOK, StoresOK, NEW u \in Users, NEW r \in Refs,
         HasBill(r), proved' = proved \cup {<<u, r>>},
         UNCHANGED <<known, unsaved, rows, token, cache, audit, creators>>
  PROVE  StoresOK' /\ proved' \subseteq Users \X Refs
<1>1. proved' \subseteq Users \X Refs
  BY DEF TypeOK
<1>2. BindingIsEarned' /\ AuditNotOrphan' /\ ProvedHaveBills'
  BY DEF StoresOK, BindingIsEarned, AuditNotOrphan, ProvedHaveBills
<1> QED
  BY <1>1, <1>2 DEF StoresOK, TokensAreOffers, Offered, UnsavedIsUnbound, CacheIsBound,
     AtMostOneVerified, SelfRegisteredAlone

\* A row is inserted where there was none, for a ref its user earned.
LEMMA RowWrites ==
  ASSUME TypeOK, StoresOK, NEW u \in Users, NEW r \in Refs,
         rows[u][r] = 0, r \in known[u], u \notin unsaved, Earned(u, r),
         rows' = [rows EXCEPT ![u][r] = @ + 1],
         UNCHANGED <<known, unsaved, token, cache, audit, proved, creators>>
  PROVE  /\ StoresOK' /\ rows' \in [Users -> [Refs -> Nat]]
         /\ rows'[u][r] > 0
         /\ \A v \in Users, z \in Refs : rows[v][z] > 0 => rows'[v][z] > 0
<1>1. rows' \in [Users -> [Refs -> Nat]]
  BY DEF TypeOK
<1>2. \A v \in Users, z \in Refs :
        rows'[v][z] = IF v = u /\ z = r THEN 1 ELSE rows[v][z]
  BY DEF TypeOK
<1>3. \A v \in Users, z \in Refs : rows[v][z] > 0 => rows'[v][z] > 0
  BY <1>2
<1>4. BindingIsEarned'
  BY <1>2 DEF StoresOK, BindingIsEarned, Earned
<1>7. AtMostOneVerified'
  BY <1>2 DEF StoresOK, AtMostOneVerified
<1>8. UnsavedIsUnbound'
  BY <1>2 DEF StoresOK, UnsavedIsUnbound, TypeOK
<1>5. CacheIsBound'
  BY <1>3 DEF StoresOK, CacheIsBound, TypeOK
<1>6. AuditNotOrphan'
  BY <1>3 DEF StoresOK, AuditNotOrphan, TypeOK
<1> QED
  BY <1>1, <1>2, <1>3, <1>4, <1>5, <1>6, <1>7, <1>8
     DEF StoresOK, TokensAreOffers, Offered, ProvedHaveBills, SelfRegisteredAlone

\* The steps of bind and of the guard that write one store each.
LEMMA WritingKeepsInv ==
  ASSUME BindingInv, NEW q \in Requests,
         \/ StoreInit(q) \/ DeleteInit(q) \/ WriteAudit(q) \/ WarmCache(q)
         \/ WriteChallenge(q)
         \/ GuardFill(q) \/ Verify(q) \/ InsertRow(q)
  PROVE  BindingInv'
<1> DEFINE se == req[q].sess
           re == req[q].ref
           us == SessionUser[se]
<1>0. TypeOK /\ req[q] \in Request /\ RequestOK(req[q]) /\ StoresOK
  BY DEF BindingInv, TypeOK
<1>u. req[q].pc # "idle" => se \in Sessions /\ us \in Users
  BY <1>0, BindingAssumption DEF RequestOK, BindingAssumption
<1>r. req[q].pc \in Writing \cup Bound => re \in Refs
  BY <1>0, <1>u DEF RequestOK, Writing, Bound, TypeOK
<1>i. Idle \in Request /\ Idle.pc = "idle"
  BY NewRequests DEF Idle
<1>m. ASSUME NEW l \in PC
      PROVE  LET x == [req[q] EXCEPT !.pc = l]
             IN  x \in Request /\ x.pc = l /\ x.sess = se /\ x.ref = re
  BY <1>0, RequestUpdates DEF Request
<1>1. CASE StoreInit(q)
  <2>x. PICK x : x = Idle
    OBVIOUS
  <2>1. se \in Sessions /\ req[q].refs \subseteq Offered(us)
    BY <1>0, <1>1, <1>u, <1>r DEF StoreInit, At, RequestOK, Writing, Bound
  <2>2. /\ token' = [token EXCEPT ![se] = [present |-> TRUE, refs |-> req[q].refs]]
        /\ UNCHANGED <<known, unsaved, rows, cache, audit, proved, creators>>
    BY <1>1 DEF StoreInit, user, stores, history
  <2>3. x \in Request /\ x.pc # "save" /\ req' = [req EXCEPT ![q] = x]
    BY <1>1, <1>i, <1>m, <2>x DEF StoreInit, Finish, PC
  <2>e. [present |-> TRUE, refs |-> req[q].refs] \in Tokens
    BY <1>0 DEF Request, Tokens
  <2>4. StoresOK' /\ token' \in [Sessions -> Tokens]
    BY <1>0, <2>1, <2>2, <2>e, TokenWrites
  <2>5. TypeOK'
    BY <1>0, <2>2, <2>3, <2>4 DEF TypeOK
  <2>6. RequestOK(x)'
    BY <1>0, <1>1, <1>i, <1>m, <1>u, <2>x, <2>1, <2>2, <2>4 DEF StoreInit, At, RequestOK,
       Writing, Bound, PC, Offered, Earned
  <2> QED BY <2>2, <2>3, <2>4, <2>5, <2>6, WritesKeepInv
<1>2. CASE DeleteInit(q)
  <2>x. PICK x : x = [req[q] EXCEPT !.pc = "audit"]
    OBVIOUS
  <2>1. se \in Sessions /\ us \in Users /\ re \in Refs
    BY <1>0, <1>2, <1>u, <1>r DEF DeleteInit, At, Writing
  <2>2. /\ token' = [token EXCEPT ![se] = NoToken] \/ token' = token
        /\ UNCHANGED <<known, unsaved, rows, cache, audit, proved, creators>>
    BY <1>2 DEF DeleteInit, user, stores, history
  <2>3. x \in Request /\ x.pc # "save" /\ req' = [req EXCEPT ![q] = x]
    BY <1>2, <1>i, <1>m, <2>x DEF DeleteInit, Goto, PC
  <2>e. NoToken \in Tokens /\ NoToken.refs \subseteq Offered(us)
    BY <1>0 DEF NoToken, Tokens
  <2>4. StoresOK' /\ token' \in [Sessions -> Tokens]
    BY <1>0, <2>1, <2>2, <2>e, TokenWrites
  <2>5. TypeOK'
    BY <1>0, <2>2, <2>3, <2>4 DEF TypeOK
  <2>6. RequestOK(x)'
    BY <1>0, <1>2, <1>i, <1>m, <1>u, <2>x, <2>1, <2>2, <2>4 DEF DeleteInit, At,
       RequestOK, Writing, Bound, PC, Offered, Earned
  <2> QED BY <2>2, <2>3, <2>4, <2>5, <2>6, WritesKeepInv
<1>3. CASE WriteAudit(q)
  <2>x. PICK x : x = [req[q] EXCEPT !.pc = "warm"]
    OBVIOUS
  <2>1. us \in Users /\ re \in Refs /\ rows[us][re] > 0
    BY <1>0, <1>3, <1>u, <1>r DEF WriteAudit, At, RequestOK, Bound
  <2>a. PICK a \in {"challenge_attempt", "bind", "register"} :
          a = IF HasBill(re) THEN "bind" ELSE "register"
    OBVIOUS
  <2>e. Earned(us, re)
    BY <1>0, <1>3 DEF WriteAudit, At, RequestOK, Writing
  <2>2. /\ audit' = audit \cup {<<a, us, re>>} \/ audit' = audit
        /\ UNCHANGED <<known, unsaved, rows, token, cache, proved, creators>>
    BY <1>3, <2>a DEF WriteAudit, SuccessRow, user, stores, history
  <2>7. a = "bind" => <<us, re>> \in proved
    BY <2>1, <2>a, <2>e DEF Earned, HasBill
  <2>8. a = "register" => re = New[us] /\ us \in creators
    BY <1>0, <2>1, <2>a, <2>e DEF Earned, StoresOK, ProvedHaveBills
  <2>9. a # "challenge_attempt"
    BY <2>a
  <2>3. x \in Request /\ x.pc # "save" /\ req' = [req EXCEPT ![q] = x]
    BY <1>3, <1>i, <1>m, <2>x DEF WriteAudit, Goto, PC
  <2>4. StoresOK' /\ audit' \subseteq AuditRows
    BY <1>0, <2>1, <2>2, <2>7, <2>8, <2>9, AuditWrites
  <2>5. TypeOK'
    BY <1>0, <2>2, <2>3, <2>4 DEF TypeOK
  <2>6. RequestOK(x)'
    BY <1>0, <1>3, <1>i, <1>m, <1>u, <2>x, <2>1, <2>2, <2>4 DEF WriteAudit, At,
       RequestOK, Writing, Bound, PC, Offered, Earned
  <2> QED BY <2>2, <2>3, <2>4, <2>5, <2>6, WritesKeepInv
<1>4. CASE WarmCache(q)
  <2>x. PICK x : x = Idle
    OBVIOUS
  <2>1. us \in Users /\ re \in Refs /\ rows[us][re] > 0
    BY <1>0, <1>4, <1>u, <1>r DEF WarmCache, At, RequestOK, Bound
  <2>2. /\ cache' = [cache EXCEPT ![us] = re] \/ cache' = cache
        /\ UNCHANGED <<known, unsaved, rows, token, audit, proved, creators>>
    BY <1>4 DEF WarmCache, user, stores, history
  <2>3. x \in Request /\ x.pc # "save" /\ req' = [req EXCEPT ![q] = x]
    BY <1>4, <1>i, <1>m, <2>x DEF WarmCache, Finish, PC
  <2>4. StoresOK' /\ cache' \in [Users -> Refs \cup {NoRef}]
    BY <1>0, <2>1, <2>2, CacheWrites
  <2>5. TypeOK'
    BY <1>0, <2>2, <2>3, <2>4 DEF TypeOK
  <2>6. RequestOK(x)'
    BY <1>0, <1>4, <1>i, <1>m, <1>u, <2>x, <2>1, <2>2, <2>4 DEF WarmCache, At, RequestOK,
       Writing, Bound, PC, Offered, Earned
  <2> QED BY <2>2, <2>3, <2>4, <2>5, <2>6, WritesKeepInv
<1>5. CASE GuardFill(q)
  <2>x. PICK x : x = [req[q] EXCEPT !.pc = "served"]
    OBVIOUS
  <2>1. us \in Users /\ re \in Refs /\ rows[us][re] > 0
    BY <1>0, <1>5, <1>u, <1>r DEF GuardFill, At, RequestOK, Bound
  <2>2. /\ cache' = [cache EXCEPT ![us] = re] \/ cache' = cache
        /\ UNCHANGED <<known, unsaved, rows, token, audit, proved, creators>>
    BY <1>5 DEF GuardFill, user, stores, history
  <2>3. x \in Request /\ x.pc # "save" /\ req' = [req EXCEPT ![q] = x]
    BY <1>5, <1>i, <1>m, <2>x DEF GuardFill, Goto, PC
  <2>4. StoresOK' /\ cache' \in [Users -> Refs \cup {NoRef}]
    BY <1>0, <2>1, <2>2, CacheWrites
  <2>5. TypeOK'
    BY <1>0, <2>2, <2>3, <2>4 DEF TypeOK
  <2>6. RequestOK(x)'
    BY <1>0, <1>5, <1>i, <1>m, <1>u, <2>x, <2>1, <2>2, <2>4 DEF GuardFill, At, RequestOK,
       Writing, Bound, PC, Offered, Earned
  <2> QED BY <2>2, <2>3, <2>4, <2>5, <2>6, WritesKeepInv
<1>6. CASE Verify(q)
  <2>x. PICK x : x = [req[q] EXCEPT !.pc = "select"]
    OBVIOUS
  <2>1. us \in Users /\ re \in known[us] /\ us \notin unsaved /\ re \in Refs /\ HasBill(re)
    <3>1. us \in Users /\ re \in Offered(us) /\ HasBill(re)
      BY <1>0, <1>u, <1>6 DEF Verify, At, RequestOK
    <3>2. re \in known[us] /\ us \notin unsaved
      BY <1>0, <3>1 DEF Offered, HasBill, StoresOK, UnsavedIsUnbound
    <3> QED BY <1>0, <3>1, <3>2 DEF TypeOK
  <2>2. /\ proved' = proved \cup {<<us, re>>}
        /\ UNCHANGED <<known, unsaved, rows, token, cache, audit, creators>>
    BY <1>6 DEF Verify, user, stores, history
  <2>3. x \in Request /\ x.pc # "save" /\ req' = [req EXCEPT ![q] = x]
    BY <1>6, <1>i, <1>m, <2>x DEF Verify, Goto, PC
  <2>4. StoresOK' /\ proved' \subseteq Users \X Refs
    BY <1>0, <2>1, <2>2, ProofWrites
  <2>5. TypeOK'
    BY <1>0, <2>2, <2>3, <2>4 DEF TypeOK
  <2>6. RequestOK(x)'
    BY <1>0, <1>6, <1>i, <1>m, <1>u, <2>x, <2>1, <2>2, <2>4 DEF Verify, At, RequestOK,
       Writing, Bound, PC, Offered, Earned
  <2> QED BY <2>2, <2>3, <2>4, <2>5, <2>6, WritesKeepInv
<1>7. CASE InsertRow(q)
  <2>x. PICK x : x = [req[q] EXCEPT !.pc = "deleteInit"]
    OBVIOUS
  <2>1. us \in Users /\ re \in Refs /\ re \in known[us] /\ us \notin unsaved /\ Earned(us, re)
    BY <1>0, <1>7, <1>u, <1>r DEF InsertRow, At, RequestOK, Writing
  <2>2. /\ rows[us][re] = 0 /\ rows' = [rows EXCEPT ![us][re] = @ + 1]
        /\ UNCHANGED <<known, unsaved, token, cache, audit, proved, creators>>
    BY <1>7 DEF InsertRow, user, stores, history
  <2>3. x \in Request /\ x.pc # "save" /\ req' = [req EXCEPT ![q] = x]
    BY <1>7, <1>i, <1>m, <2>x DEF InsertRow, Goto, PC
  <2>4. StoresOK' /\ rows' \in [Users -> [Refs -> Nat]] /\ rows'[us][re] > 0 /\ \A v \in Users, z \in Refs : rows[v][z] > 0 => rows'[v][z] > 0
    BY <1>0, <2>1, <2>2, RowWrites
  <2>5. TypeOK'
    BY <1>0, <2>2, <2>3, <2>4 DEF TypeOK
  <2>7. x.pc = "deleteInit" /\ x.sess = req[q].sess /\ x.ref = re /\ x.sess \in Sessions
    BY <1>0, <1>7, <1>i, <1>m, <1>r, <2>x DEF InsertRow, At, RequestOK
  <2>6. RequestOK(x)'
    BY <1>0, <1>7, <1>i, <1>m, <1>u, <2>1, <2>2, <2>4, <2>7
       DEF InsertRow, At, RequestOK, Writing, Bound, Offered, Earned
  <2> QED BY <2>2, <2>3, <2>4, <2>5, <2>6, WritesKeepInv
<1>8. CASE WriteChallenge(q)
  <2>x. PICK x : x = [req[q] EXCEPT !.pc = "storeInit"]
    OBVIOUS
  <2>1. us \in Users /\ req[q].refs \subseteq Offered(us) /\ req[q].refs \subseteq Refs
    BY <1>0, <1>8, <1>u DEF WriteChallenge, At, RequestOK, Request
  <2>o. PICK r \in Refs \cup {NoRef} : r = OnlyOf(req[q].refs) /\ (r = NoRef \/ r \in Offered(us))
    <3>1. CASE Cardinality(req[q].refs) = 1
      <4>1. req[q].refs # {}
        BY <3>1, FS_EmptySet
      <4>2. (CHOOSE r \in req[q].refs : TRUE) \in req[q].refs
        BY <4>1
      <4> QED BY <2>1, <3>1, <4>2 DEF OnlyOf
    <3>2. CASE Cardinality(req[q].refs) # 1
      BY <3>2 DEF OnlyOf
    <3> QED BY <3>1, <3>2
  <2>2. /\ audit' = audit \cup {<<"challenge_attempt", us, r>>} \/ audit' = audit
        /\ UNCHANGED <<known, unsaved, rows, token, cache, proved, creators>>
    BY <1>8, <2>o DEF WriteChallenge, user, stores, history
  <2>3. x \in Request /\ x.pc # "save" /\ req' = [req EXCEPT ![q] = x]
    BY <1>8, <1>i, <1>m, <2>x DEF WriteChallenge, Goto, PC
  <2>4. StoresOK' /\ audit' \subseteq AuditRows
    BY <1>0, <2>1, <2>2, <2>o, AuditWrites
  <2>5. TypeOK'
    BY <1>0, <2>2, <2>3, <2>4 DEF TypeOK
  <2>7. x.pc = "storeInit" /\ x.sess = se /\ x.refs = req[q].refs /\ se \in Sessions
    BY <1>0, <1>8, <1>u, <2>x DEF WriteChallenge, At, Request
  <2>6. RequestOK(x)'
    BY <2>1, <2>2, <2>7 DEF RequestOK, Writing, Bound, Offered
  <2> QED BY <2>2, <2>3, <2>4, <2>5, <2>6, WritesKeepInv
<1> QED BY <1>1, <1>2, <1>3, <1>4, <1>5, <1>6, <1>7, <1>8

-----------------------------------------------------------------------------
(* bindRegister's create(), the environment, and a crash *)

\* create() takes a phone that has no customer: nothing is bound for that user, and
\* no other request of the user is past verify() or awaits the insert.
LEMMA CreateKeepsInv ==
  ASSUME BindingInv, NEW q \in Requests, Create(q)
  PROVE  BindingInv'
<1> DEFINE us == SessionUser[req[q].sess]
<1>0. /\ TypeOK /\ StoresOK /\ SaverIsAlone /\ req[q] \in Request
      /\ \A p \in Requests : RequestOK(req[p])
  BY DEF BindingInv, TypeOK
<1>1. req[q].sess \in Sessions /\ us \in Users /\ New[us] \in Refs
  BY <1>0, BindingAssumption DEF Create, At, RequestOK, BindingAssumption
<1>2. /\ known[us] = {}
      /\ known' = [known EXCEPT ![us] = {New[us]}]
      /\ unsaved' = unsaved \cup {us}
      /\ UNCHANGED <<rows, token, cache, audit, proved, creators>>
  BY <1>0, <1>1 DEF Create, user, history, TypeOK
<1>3. PICK x : x = [req[q] EXCEPT !.pc = "save", !.ref = New[us]]
  OBVIOUS
<1>4. /\ x \in Request /\ x.pc = "save" /\ x.sess = req[q].sess /\ x.ref = New[us]
      /\ req' = [req EXCEPT ![q] = x]
  <2>1. x \in Request
    BY <1>0, <1>1, <1>3, RequestUpdates DEF PC
  <2>2. x.pc = "save" /\ x.sess = req[q].sess /\ x.ref = New[us]
    BY <1>0, <1>3 DEF Request
  <2>3. req' = [req EXCEPT ![q] = x]
    BY <1>3 DEF Create, user
  <2> QED BY <2>1, <2>2, <2>3
<1>5. TypeOK'
  BY <1>0, <1>1, <1>2, <1>4 DEF TypeOK
<1>6. \A u \in Users : known'[u] = IF u = us THEN {New[us]} ELSE known[u]
  BY <1>0, <1>2 DEF TypeOK
<1>7. \A r \in Refs : rows[us][r] = 0
  <2>1. ASSUME NEW r \in Refs PROVE rows[us][r] \in Nat /\ ~ rows[us][r] > 0
    <3>1. rows[us][r] \in Nat
      BY <1>0, <1>1 DEF TypeOK
    <3>2. rows[us][r] > 0 => r \in known[us]
      BY <1>0, <1>1 DEF StoresOK, BindingIsEarned
    <3> QED BY <1>2, <3>1, <3>2
  <2> QED BY <2>1
<1>8. TokensAreOffers'
  <2>1. \A u \in Users : Offered(u) \subseteq known'[u] \cup {New[u]}
    BY <1>2, <1>6 DEF Offered
  <2>2. \A t \in Sessions : SessionUser[t] \in Users
    BY BindingAssumption DEF BindingAssumption
  <2> QED BY <1>0, <1>2, <2>1, <2>2 DEF StoresOK, TokensAreOffers, Offered
<1>9. UnsavedIsUnbound'
  BY <1>0, <1>1, <1>2, <1>6, <1>7 DEF StoresOK, UnsavedIsUnbound, TypeOK
<1>10. BindingIsEarned' /\ SelfRegisteredAlone'
  BY <1>0, <1>2, <1>6, <1>7 DEF StoresOK, BindingIsEarned, SelfRegisteredAlone
<1>11. CacheIsBound' /\ AtMostOneVerified' /\ AuditNotOrphan' /\ ProvedHaveBills'
  BY <1>0, <1>2 DEF StoresOK, CacheIsBound, AtMostOneVerified, AuditNotOrphan,
     ProvedHaveBills
<1>12. ASSUME NEW p \in Requests PROVE RequestOK(req[p])'
  <2>1. CASE p = q
    BY <1>0, <1>1, <1>2, <1>4, <2>1 DEF TypeOK, RequestOK, Writing, Bound
  <2>2. CASE p # q
    <3>1. req'[p] = req[p] /\ RequestOK(req[p])
      BY <1>0, <1>4, <2>2 DEF TypeOK
    <3>2. req[p].pc # "idle" => SessionUser[req[p].sess] \in Users
      BY <3>1, BindingAssumption DEF RequestOK, BindingAssumption
    <3>3. req[p].pc \in Writing => SessionUser[req[p].sess] # us
      BY <1>2, <3>1 DEF RequestOK
    <3>4. req[p].pc \in Writing \cup Bound \cup {"challenge", "storeInit", "verify", "save"}
            => req[p].pc # "idle"
      BY DEF Writing, Bound
    <3>5. req[p].pc \in {"challenge", "storeInit", "verify"} =>
            Offered(SessionUser[req[p].sess])
              \subseteq known'[SessionUser[req[p].sess]] \cup {New[SessionUser[req[p].sess]]}
      BY <1>2, <1>6, <3>2 DEF Offered
    <3> QED BY <1>2, <1>6, <3>1, <3>2, <3>3, <3>4, <3>5 DEF RequestOK, Offered, Earned
  <2> QED BY <2>1, <2>2
<1>13. SaverIsAlone'
  <2>1. ASSUME NEW p \in Requests, p # q, req[p].pc = "save"
        PROVE  SessionUser[req[p].sess] # us
    BY <1>0, <1>2, <2>1 DEF RequestOK, StoresOK, UnsavedIsUnbound
  <2> QED BY <1>0, <1>4, <2>1 DEF SaverIsAlone, TypeOK, user
<1> QED BY <1>5, <1>8, <1>9, <1>10, <1>11, <1>12, <1>13 DEF BindingInv, StoresOK

\* The insert of the created customer has returned: its maker has earned it.
LEMMA SaveCreatedKeepsInv ==
  ASSUME BindingInv, NEW q \in Requests, SaveCreated(q)
  PROVE  BindingInv'
<1> DEFINE us == SessionUser[req[q].sess]
<1>0. /\ TypeOK /\ StoresOK /\ SaverIsAlone /\ req[q] \in Request
      /\ \A p \in Requests : RequestOK(req[p])
  BY DEF BindingInv, TypeOK
<1>1. /\ req[q].pc = "save" /\ us \in Users /\ us \in unsaved
      /\ req[q].sess \in Sessions /\ req[q].ref = New[us] /\ known[us] = {New[us]}
  BY <1>0, BindingAssumption
     DEF SaveCreated, At, RequestOK, BindingAssumption, StoresOK, UnsavedIsUnbound
<1>2. /\ unsaved' = unsaved \ {us} /\ creators' = creators \cup {us}
      /\ UNCHANGED <<known, rows, token, cache, audit, proved>>
  BY DEF SaveCreated, user
<1>3. PICK x : x = [req[q] EXCEPT !.pc = "select"]
  OBVIOUS
<1>4. /\ x \in Request /\ x.pc = "select" /\ x.sess = req[q].sess /\ x.ref = New[us]
      /\ req' = [req EXCEPT ![q] = x]
  <2>1. x \in Request
    BY <1>0, <1>3, RequestUpdates DEF PC
  <2>2. x.pc = "select" /\ x.sess = req[q].sess /\ x.ref = New[us]
    BY <1>0, <1>1, <1>3 DEF Request
  <2>3. req' = [req EXCEPT ![q] = x]
    BY <1>3 DEF SaveCreated, Goto
  <2> QED BY <2>1, <2>2, <2>3
<1>5. TypeOK'
  BY <1>0, <1>1, <1>2, <1>4 DEF TypeOK
<1>6. StoresOK'
  BY <1>0, <1>1, <1>2 DEF StoresOK, TokensAreOffers, Offered, UnsavedIsUnbound,
     CacheIsBound,
     BindingIsEarned, AtMostOneVerified, AuditNotOrphan, ProvedHaveBills, SelfRegisteredAlone
<1>7. ASSUME NEW p \in Requests PROVE RequestOK(req[p])'
  <2>1. CASE p = q
    BY <1>0, <1>1, <1>2, <1>4, <2>1 DEF TypeOK, RequestOK, Writing, Bound, Earned
  <2>2. CASE p # q
    <3>1. req'[p] = req[p] /\ RequestOK(req[p])
      BY <1>0, <1>4, <2>2 DEF TypeOK
    <3>2. req[p].pc = "save" => SessionUser[req[p].sess] # us
      BY <1>0, <1>1, <2>2 DEF SaverIsAlone, user
    <3> QED BY <1>2, <3>1, <3>2 DEF RequestOK, Offered, Earned
  <2> QED BY <2>1, <2>2
<1>8. SaverIsAlone'
  BY <1>0, <1>4 DEF SaverIsAlone, TypeOK, user
<1> QED BY <1>5, <1>6, <1>7, <1>8 DEF BindingInv

\* Another channel creates the phone's customer.
LEMMA AppearKeepsInv ==
  ASSUME BindingInv, NEW v \in Users, Appear(v)
  PROVE  BindingInv'
<1>0. /\ TypeOK /\ StoresOK /\ SaverIsAlone /\ \A p \in Requests : RequestOK(req[p])
  BY DEF BindingInv
<1>1. /\ known[v] = {} /\ known' = [known EXCEPT ![v] = {Ext[v]}]
      /\ UNCHANGED <<unsaved, rows, token, cache, audit, req, proved, creators>>
  BY DEF Appear, history
<1>2. Ext[v] \in Refs /\ Ext[v] # New[v]
  BY BindingAssumption DEF BindingAssumption
<1>3. \A u \in Users : known'[u] = IF u = v THEN {Ext[v]} ELSE known[u]
  BY <1>0, <1>1 DEF TypeOK
<1>4. TypeOK'
  BY <1>0, <1>1, <1>2 DEF TypeOK
<1>5. v \notin unsaved /\ \A r \in Refs : rows[v][r] = 0
  <2>1. v \notin unsaved
    BY <1>0, <1>1 DEF StoresOK, UnsavedIsUnbound
  <2>2. ASSUME NEW r \in Refs PROVE rows[v][r] \in Nat /\ ~ rows[v][r] > 0
    BY <1>0, <1>1 DEF StoresOK, BindingIsEarned, TypeOK
  <2> QED BY <2>1, <2>2
<1>6. TokensAreOffers'
  <2>1. \A u \in Users : Offered(u) \subseteq known'[u] \cup {New[u]}
    BY <1>1, <1>3 DEF Offered
  <2>2. \A t \in Sessions : SessionUser[t] \in Users
    BY BindingAssumption DEF BindingAssumption
  <2> QED BY <1>0, <1>1, <2>1, <2>2 DEF StoresOK, TokensAreOffers, Offered
<1>7. UnsavedIsUnbound' /\ BindingIsEarned' /\ SelfRegisteredAlone'
  BY <1>0, <1>1, <1>2, <1>3, <1>5
     DEF StoresOK, UnsavedIsUnbound, BindingIsEarned, SelfRegisteredAlone, TypeOK
<1>8. CacheIsBound' /\ AtMostOneVerified' /\ AuditNotOrphan' /\ ProvedHaveBills'
  BY <1>0, <1>1 DEF StoresOK, CacheIsBound, AtMostOneVerified, AuditNotOrphan,
     ProvedHaveBills
<1>9. ASSUME NEW p \in Requests PROVE RequestOK(req[p])'
  <2>1. RequestOK(req[p]) /\ req'[p] = req[p]
    BY <1>0, <1>1
  <2>2. req[p].pc # "idle" => SessionUser[req[p].sess] \in Users
    BY <2>1, BindingAssumption DEF RequestOK, BindingAssumption
  <2>3. req[p].pc \in Writing => SessionUser[req[p].sess] # v
    BY <1>1, <2>1 DEF RequestOK
  <2>4. req[p].pc \in Writing => req[p].pc # "idle"
    BY DEF Writing
  <2>5. req[p].pc \in {"challenge", "storeInit", "verify"} =>
          Offered(SessionUser[req[p].sess])
            \subseteq known'[SessionUser[req[p].sess]] \cup {New[SessionUser[req[p].sess]]}
    BY <1>1, <1>3, <2>2 DEF Offered
  <2> QED BY <1>1, <1>3, <2>1, <2>2, <2>3, <2>4, <2>5 DEF RequestOK, Offered, Earned
<1>10. SaverIsAlone'
  BY <1>0, <1>1 DEF SaverIsAlone, user
<1> QED BY <1>4, <1>6, <1>7, <1>8, <1>9, <1>10 DEF BindingInv, StoresOK

\* A cache entry is gone.
LEMMA ExpiryKeepsInv ==
  ASSUME BindingInv, \/ \E s \in Sessions : ExpireInit(s)
                     \/ \E u \in Users : ExpireBinding(u)
  PROVE  BindingInv'
<1>0. TypeOK /\ StoresOK /\ SaverIsAlone /\ \A p \in Requests : RequestOK(req[p])
  BY DEF BindingInv
<1>1. UNCHANGED <<known, unsaved, rows, audit, req, proved, creators>>
  BY DEF ExpireInit, ExpireBinding, history
<1>2. StoresOK' /\ token' \in [Sessions -> Tokens] /\ cache' \in [Users -> Refs \cup {NoRef}]
  <2>1. NoToken \in Tokens /\ \A u \in Users : NoToken.refs \subseteq Offered(u)
    BY DEF NoToken, Tokens
  <2>2. ASSUME NEW s \in Sessions, ExpireInit(s)
        PROVE  StoresOK' /\ token' \in [Sessions -> Tokens] /\ cache' = cache
    <3>1. token' = [token EXCEPT ![s] = NoToken] /\ cache' = cache /\ SessionUser[s] \in Users
      BY <2>2, BindingAssumption DEF ExpireInit, BindingAssumption
    <3> QED BY <1>0, <1>1, <2>1, <3>1, TokenWrites
  <2>3. ASSUME NEW u \in Users, ExpireBinding(u)
        PROVE  StoresOK' /\ cache' \in [Users -> Refs \cup {NoRef}] /\ token' = token
    BY <1>0, <1>1, <2>3, CacheWrites DEF ExpireBinding
  <2> QED BY <1>0, <2>2, <2>3 DEF TypeOK
<1>3. TypeOK'
  BY <1>0, <1>1, <1>2 DEF TypeOK
<1>4. SaverIsAlone' /\ \A p \in Requests : RequestOK(req[p])'
  BY <1>0, <1>1 DEF SaverIsAlone, user, RequestOK, Offered, Earned
<1> QED BY <1>2, <1>3, <1>4 DEF BindingInv

\* The requests are gone; the customers that were not saved go with them, and
\* nothing was bound to those.
LEMMA CrashKeepsInv ==
  ASSUME BindingInv, Crash
  PROVE  BindingInv'
<1>0. TypeOK /\ StoresOK
  BY DEF BindingInv
<1>1. /\ req' = [q \in Requests |-> Idle] /\ unsaved' = {}
      /\ known' = [u \in Users |-> IF u \in unsaved THEN {} ELSE known[u]]
      /\ UNCHANGED <<rows, token, cache, audit, proved, creators>>
  BY DEF Crash, history
<1>2. TypeOK'
  <2>1. known' \in [Users -> SUBSET Refs]
    BY <1>0, <1>1 DEF TypeOK
  <2>2. req' \in [Requests -> Request]
    BY <1>1, NewRequests
  <2> QED BY <1>0, <1>1, <2>1, <2>2 DEF TypeOK
<1>3. TokensAreOffers'
  <2>1. \A u \in Users : Offered(u) \subseteq known'[u] \cup {New[u]}
    BY <1>0, <1>1 DEF Offered, StoresOK, UnsavedIsUnbound
  <2>2. \A t \in Sessions : SessionUser[t] \in Users
    BY BindingAssumption DEF BindingAssumption
  <2> QED BY <1>0, <1>1, <2>1, <2>2 DEF StoresOK, TokensAreOffers, Offered
<1>4. BindingIsEarned' /\ SelfRegisteredAlone' /\ UnsavedIsUnbound'
  BY <1>0, <1>1 DEF StoresOK, BindingIsEarned, SelfRegisteredAlone, UnsavedIsUnbound,
     TypeOK
<1>5. CacheIsBound' /\ AtMostOneVerified' /\ ProvedHaveBills'
  BY <1>0, <1>1 DEF StoresOK, CacheIsBound, AtMostOneVerified, ProvedHaveBills
<1>8. AuditNotOrphan'
  <2>1. \A u \in Users : known[u] \subseteq known'[u] \cup {New[u]}
    BY <1>0, <1>1 DEF StoresOK, UnsavedIsUnbound
  <2> QED BY <1>0, <1>1, <2>1 DEF StoresOK, AuditNotOrphan
<1>6. \A q \in Requests : req'[q].pc = "idle"
  BY <1>1 DEF Idle
<1>7. SaverIsAlone' /\ \A q \in Requests : RequestOK(req[q])'
  BY <1>6 DEF SaverIsAlone, RequestOK, Writing, Bound
<1> QED BY <1>2, <1>3, <1>4, <1>5, <1>7, <1>8 DEF BindingInv, StoresOK

\* Every statement of the handlers, every failure and every expiry keeps the
\* invariant.
LEMMA BindingInvStep == BindingInv /\ [Next]_vars => BindingInv'
<1> SUFFICES ASSUME BindingInv, [Next]_vars PROVE BindingInv'
  OBVIOUS
<1>1. CASE UNCHANGED vars
  <2>1. UNCHANGED <<known, unsaved, rows, token, cache, audit, req, proved, creators>>
    BY <1>1 DEF vars, stores, history
  <2>2. TypeOK'
    BY <2>1 DEF BindingInv, TypeOK
  <2>3. StoresOK'
    BY <2>1 DEF BindingInv, StoresOK, TokensAreOffers, Offered, UnsavedIsUnbound,
       CacheIsBound,
       BindingIsEarned, AtMostOneVerified, AuditNotOrphan, ProvedHaveBills, SelfRegisteredAlone
  <2>4. SaverIsAlone' /\ \A q \in Requests : RequestOK(req[q])'
    BY <2>1 DEF BindingInv, SaverIsAlone, user, RequestOK, Offered, Earned
  <2> QED BY <2>2, <2>3, <2>4 DEF BindingInv
<1>2. CASE Next
  <2>1. ASSUME NEW q \in Requests, NEW s \in Sessions,
               BindInit(q, s) \/ Register(q, s) \/ GuardHit(q, s) \/ GuardMiss(q, s)
        PROVE  BindingInv'
    <3>1. PICK r : r \in Refs
      BY BindingAssumption DEF BindingAssumption
    <3> QED BY <2>1, <3>1, MovesKeepInv
  <2>2. ASSUME NEW q \in Requests, NEW s \in Sessions, NEW r \in Refs, Bind(q, s, r)
        PROVE  BindingInv'
    BY <2>2, MovesKeepInv
  <2>3. ASSUME NEW q \in Requests, NEW r \in Refs,
               SelectRow(q) \/ UpdateRow(q) \/ GuardDb(q, r)
        PROVE  BindingInv'
    <3>1. req[q].pc # "idle"
      BY <2>3 DEF SelectRow, UpdateRow, GuardDb, At
    <3>2. req[q].sess \in Sessions
      BY <3>1 DEF BindingInv, RequestOK
    <3> QED BY <2>3, <3>2, MovesKeepInv
  <2>4. ASSUME NEW q \in Requests, SelectRow(q) \/ UpdateRow(q)
        PROVE  BindingInv'
    <3>1. req[q].ref \in Refs
      <4>1. req[q].pc \in Writing /\ req[q].pc # "idle"
        BY <2>4 DEF SelectRow, UpdateRow, At, Writing
      <4>2. req[q].ref \in known[SessionUser[req[q].sess]] /\ SessionUser[req[q].sess] \in Users
        BY <4>1, BindingAssumption DEF BindingInv, RequestOK, BindingAssumption
      <4> QED BY <4>2 DEF BindingInv, TypeOK
    <3> QED BY <2>3, <2>4, <3>1
  <2> QED
    BY <1>2, <2>1, <2>2, <2>3, <2>4, EndsKeepInv, WritingKeepsInv, CreateKeepsInv,
       SaveCreatedKeepsInv, AppearKeepsInv, ExpiryKeepsInv, CrashKeepsInv DEF Next
<1> QED BY <1>1, <1>2

-----------------------------------------------------------------------------
\* The strengthened invariant holds throughout.
LEMMA BindingInvAlways == Spec => []BindingInv
  BY BindingInvInit, BindingInvStep, PTL DEF Spec

\* bind and bindRegister: a verified row is earned by its owner, unique and of the
\* owner's phone, an audit row has its binding, and create() never adds a customer
\* beside another one, under any interleaving and crash.
THEOREM BindingIsSafe == Spec => []BindingSafe
  BY BindingInvAlways, BindingInvImpliesSafe, PTL

\* BindingVerifiedGuard: whatever the cache and concurrent binds do, a customer is
\* cached and served only with a verified row.
THEOREM GuardIsSafe == Spec => []GuardServesVerified
  BY BindingInvAlways, BindingInvImpliesSafe, PTL
=============================================================================
