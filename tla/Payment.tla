------------------------------ MODULE Payment ------------------------------
(***************************************************************************)
(* PaymentService (src/modules/payment/payment.service.ts): createPayment  *)
(* and createBatchPayment verify invoices over the cached 'invoice' port   *)
(* and then create a payment; handleWebhook takes the payment service's    *)
(* notification of the outcome, deduplicated by IdempotencyService         *)
(* (src/libs/shared/idempotency/idempotency.service.ts).  A step ends at   *)
(* an await.                                                               *)
(*                                                                         *)
(* The ports are PortRegistry's: here the invoice port has its read cache  *)
(* and its fallback entry, the payment port is never cached and queues a   *)
(* call that fails (queuePolicy always), and a notification is dispatched  *)
(* or not.  The payment service is external: it settles payments and       *)
(* notifies until it is acknowledged, now and then once too often.         *)
(***************************************************************************)
EXTENDS Integers, Sequences, FiniteSets

CONSTANTS Invoices, Requests,
          InvoicesOf,   \* InvoicesOf[q]: the invoices q asks to pay, in order
          Hooks,        \* handlers of webhook deliveries
          Backends,     \* caches to consider: Redis if REDIS_HOST is set
          MaxResends,   \* bound on deliveries the payment service need not make
          MaxFaults,    \* bound on crashes and failed invalidations
          None          \* no answer, no payment

ASSUME PaymentAssumption ==
  /\ InvoicesOf \in [Requests -> Seq(Invoices)]
  /\ \A q \in Requests : InvoicesOf[q] # <<>>
  /\ Backends \subseteq {"redis", "memory"}
  /\ MaxResends \in Nat /\ MaxFaults \in Nat
  /\ None \notin [inv : Invoices, status : {"unpaid", "paid"}]

VARIABLES
  backend,
  paid,      \* downstream: the invoices that are paid
  cache,     \* cache[i]: the invoice port's entry for get-by-id of i
  fallback,  \* the last answer of the invoice port
  req,       \* req[q]: position of q, answer in hand, invoices summed up
  order,     \* order[q]: the payment q created
  hook,      \* hook[w]: position of a webhook delivery
  record,    \* record[p]: storedAt of payment p's idempotency result
  debt,      \* is a debt entry cached that a payment has outdated?
  acked,     \* payments whose webhook was answered 200
  resends, faults,
  late,      \* history: invoices whose entry was outdated when it was stored
  known,     \* history: known[q]: what was paid, and acknowledged, when q began
  misled,    \* history: requests answered by a fallback or a late entry
  repeated,  \* history: payments processed though acknowledged before
  lost       \* history: payments whose idempotency result was lost

market == <<paid, order>>
invoicePort == <<cache, fallback, late>>
requests == <<req, known, misled>>
webhooks == <<hook, record, acked, resends, repeated, lost>>
shop == <<backend, market, invoicePort, requests>>
vars == <<shop, webhooks, debt, faults>>

Status == {"unpaid", "paid"}
Answer == [inv : Invoices, status : Status]
Request == [pc : {"new", "verify", "call", "set", "create", "done"},
            got : Answer \cup {None}, summed : Seq(Invoices)]
Orders == {"none", "queued", "created", "success", "failed"}
Hook == [pc : {"idle", "check", "bustInvoice", "bustDebt", "notify", "store"},
         payment : Requests \cup {None}, again : BOOLEAN]

TypeOK ==
  /\ backend \in Backends
  /\ paid \subseteq Invoices
  /\ cache \in [Invoices -> Status \cup {"none"}]
  /\ fallback \in Answer \cup {None}
  /\ req \in [Requests -> Request]
  /\ \A q \in Requests : Len(req[q].summed) <= Len(InvoicesOf[q])
  /\ order \in [Requests -> Orders]
  /\ hook \in [Hooks -> Hook]
  /\ record \in [Requests -> {"none", "date", "string"}]
  /\ debt \in BOOLEAN
  /\ acked \subseteq Requests
  /\ resends \in 0..MaxResends /\ faults \in 0..MaxFaults
  /\ late \subseteq Invoices /\ misled \subseteq Requests
  /\ known \in [Requests -> [paid : SUBSET Invoices, acked : SUBSET Invoices]]
  /\ repeated \subseteq Requests /\ lost \subseteq Requests

IdleHook == [pc |-> "idle", payment |-> None, again |-> FALSE]
NewRequest == [pc |-> "new", got |-> None, summed |-> <<>>]

Init ==
  /\ backend \in Backends
  /\ paid = {} /\ order = [q \in Requests |-> "none"]
  /\ cache = [i \in Invoices |-> "none"]
  /\ fallback = None /\ late = {}
  /\ req = [q \in Requests |-> NewRequest]
  /\ known = [q \in Requests |-> [paid |-> {}, acked |-> {}]]
  /\ misled = {}
  /\ hook = [w \in Hooks |-> IdleHook]
  /\ record = [q \in Requests |-> "none"]
  /\ debt = FALSE
  /\ acked = {} /\ resends = 0 /\ faults = 0 /\ repeated = {} /\ lost = {}

Covered(q) == {InvoicesOf[q][k] : k \in DOMAIN InvoicesOf[q]}
Succeeded(p) == order[p] = "success"
Truth(i) == [inv |-> i, status |-> IF i \in paid THEN "paid" ELSE "unpaid"]

-----------------------------------------------------------------------------
(* createPayment, createBatchPayment *)

At(q, l) == req[q].pc = l
Current(q) == InvoicesOf[q][Len(req[q].summed) + 1]

Start(q) ==
  /\ At(q, "new")
  /\ req' = [req EXCEPT ![q].pc = "verify"]
  /\ known' = [known EXCEPT ![q] =
       [paid |-> paid, acked |-> UNION {Covered(p) : p \in {p \in acked : Succeeded(p)}}]]
  /\ UNCHANGED <<backend, market, invoicePort, misled, webhooks, debt, faults>>

\* The invoice must be unpaid; its totalAmount is added, and the next one is
\* verified or the payment created.
Judge(q, a) ==
  LET summed == Append(req[q].summed, a.inv)
      rest == IF Len(summed) = Len(InvoicesOf[q]) THEN "create" ELSE "verify"
  IN  req' = [req EXCEPT ![q] =
        IF a.status = "unpaid" THEN [pc |-> rest, got |-> None, summed |-> summed]
        ELSE [pc |-> "done", got |-> None, summed |-> req[q].summed]]

\* The port answers from its read cache, whatever params.useCache says.
VerifyHit(q) ==
  LET i == Current(q)
  IN  /\ At(q, "verify") /\ cache[i] # "none"
      /\ Judge(q, [inv |-> i, status |-> cache[i]])
      /\ misled' = IF i \in late THEN misled \cup {q} ELSE misled
      /\ UNCHANGED <<backend, market, invoicePort, known, webhooks, debt, faults>>

\* No entry, or a Redis error, which get() turns into null.
VerifyMiss(q) ==
  /\ At(q, "verify")
  /\ cache[Current(q)] = "none" \/ backend = "redis"
  /\ req' = [req EXCEPT ![q].pc = "call"]
  /\ UNCHANGED <<backend, market, invoicePort, known, misled, webhooks, debt, faults>>

VerifyServe(q) ==
  /\ At(q, "call")
  /\ req' = [req EXCEPT ![q].pc = "set", ![q].got = Truth(Current(q))]
  /\ UNCHANGED <<backend, market, invoicePort, known, misled, webhooks, debt, faults>>

\* Mutant: the answer is stored for every invoice of the port.
VerifySetOfPort(q) ==
  LET a == req[q].got
  IN  /\ At(q, "set")
      /\ cache' = [i \in Invoices |-> a.status]
      /\ late' = IF a = Truth(a.inv) THEN late \ {a.inv} ELSE late \cup {a.inv}
      /\ fallback' = a
      /\ Judge(q, a)
      /\ UNCHANGED <<backend, market, known, misled, webhooks, debt, faults>>

\* cacheService.set, whose failure is caught, then setCached.
VerifySet(q) ==
  LET a == req[q].got
  IN  /\ At(q, "set")
      /\ \/ /\ cache' = [cache EXCEPT ![a.inv] = a.status]
            /\ late' = IF a = Truth(a.inv) THEN late \ {a.inv} ELSE late \cup {a.inv}
         \/ backend = "redis" /\ UNCHANGED <<cache, late>>
      /\ fallback' = a
      /\ Judge(q, a)
      /\ UNCHANGED <<backend, market, known, misled, webhooks, debt, faults>>

\* The call fails or meets an open circuit (queuePolicy on-cache-miss): the
\* port's last answer, or the error.
VerifyFails(q) ==
  /\ At(q, "call")
  /\ IF fallback = None THEN req' = [req EXCEPT ![q].pc = "done"] ELSE Judge(q, fallback)
  /\ misled' = IF fallback = None THEN misled ELSE misled \cup {q}
  /\ UNCHANGED <<backend, market, cache, fallback, late, known, webhooks, debt, faults>>

\* create-payment / create-batch-payment: answered, or failed and queued.
Create(q) ==
  /\ At(q, "create")
  /\ req' = [req EXCEPT ![q].pc = "done"]
  /\ \/ order' = [order EXCEPT ![q] = "created"]
     \/ backend = "redis" /\ order' = [order EXCEPT ![q] = "queued"]
     \/ UNCHANGED order
  /\ UNCHANGED <<backend, paid, invoicePort, known, misled, webhooks, debt, faults>>

ReplayCreate(q) ==
  /\ order[q] = "queued"
  /\ order' = [order EXCEPT ![q] = "created"]
  /\ UNCHANGED <<backend, paid, invoicePort, requests, webhooks, debt, faults>>

\* The payment service settles the payment; a success outdates what
\* getOutstandingDebt and getDebtHistory have cached.
Settle(q) ==
  /\ order[q] = "created"
  /\ \/ /\ order' = [order EXCEPT ![q] = "success"]
        /\ paid' = paid \cup Covered(q)
        /\ debt' \in {debt, TRUE}
     \/ order' = [order EXCEPT ![q] = "failed"] /\ UNCHANGED <<paid, debt>>
  /\ UNCHANGED <<backend, invoicePort, requests, webhooks, faults>>

-----------------------------------------------------------------------------
(* handleWebhook *)

On(w, l) == hook[w].pc = l
Of(w) == hook[w].payment
Go(w, l) == hook' = [hook EXCEPT ![w].pc = l]
Free(w) == hook' = [hook EXCEPT ![w] = IdleHook]

\* Any delivery after the one that is due is a resend.
Deliver(w, p) ==
  LET due == p \notin acked /\ \A v \in Hooks : Of(v) # p
  IN  /\ On(w, "idle") /\ order[p] \in {"success", "failed"}
      /\ due \/ resends < MaxResends
      /\ resends' = IF due THEN resends ELSE resends + 1
      /\ hook' = [hook EXCEPT ![w] = [pc |-> "check", payment |-> p, again |-> p \in acked]]
      /\ UNCHANGED <<shop, debt, faults, record, acked, repeated, lost>>

\* getExisting logs storedAt.toISOString(): a Date survives in the memory cache,
\* but Redis returns JSON, where it is a string; the TypeError is caught and the
\* entry counts as missing.  So does a Redis error.
GetExisting(p) == record[p] = "date"

Duplicate(w) ==
  /\ On(w, "check") /\ GetExisting(Of(w))
  /\ acked' = acked \cup {Of(w)}
  /\ Free(w)
  /\ UNCHANGED <<shop, debt, faults, record, resends, repeated, lost>>

Process(w) ==
  /\ On(w, "check") /\ ~GetExisting(Of(w))
  /\ Go(w, IF Succeeded(Of(w)) THEN "bustInvoice" ELSE "notify")
  /\ repeated' = IF hook[w].again THEN repeated \cup {Of(w)} ELSE repeated
  /\ UNCHANGED <<shop, debt, faults, record, acked, resends, lost>>

\* deleteByPattern('cache:v2:port:invoice:*')
BustInvoice(w) ==
  /\ On(w, "bustInvoice")
  /\ cache' = [i \in Invoices |-> "none"] /\ late' = {}
  /\ Go(w, "bustDebt")
  /\ UNCHANGED <<backend, market, fallback, requests, debt, faults,
                 record, acked, resends, repeated, lost>>

\* deleteByPattern('cache:v2:port:debt:*')
BustDebt(w) ==
  /\ On(w, "bustDebt")
  /\ debt' = FALSE
  /\ Go(w, "notify")
  /\ UNCHANGED <<shop, faults, record, acked, resends, repeated, lost>>

\* Redis fails: handleWebhook throws, and the delivery is not acknowledged.
BustFails(w) ==
  /\ hook[w].pc \in {"bustInvoice", "bustDebt"} /\ backend = "redis"
  /\ faults < MaxFaults
  /\ faults' = faults + 1
  /\ Free(w)
  /\ UNCHANGED <<shop, debt, record, acked, resends, repeated, lost>>

\* Mutant: an error of the notification port ends the delivery.
NotifyThrows(w) ==
  /\ On(w, "notify")
  /\ Free(w) \/ Go(w, "store")
  /\ UNCHANGED <<shop, debt, faults, record, acked, resends, repeated, lost>>

\* dispatch-notification: its failure is caught.
Notify(w) ==
  /\ On(w, "notify")
  /\ Go(w, "store")
  /\ UNCHANGED <<shop, debt, faults, record, acked, resends, repeated, lost>>

\* store(): a Redis error is caught.  The delivery is answered 200.
Store(w) ==
  /\ On(w, "store")
  /\ \/ /\ record' = [record EXCEPT ![Of(w)] =
                        IF backend = "redis" THEN "string" ELSE "date"]
        /\ UNCHANGED lost
     \/ backend = "redis" /\ lost' = lost \cup {Of(w)} /\ UNCHANGED record
  /\ acked' = acked \cup {Of(w)}
  /\ Free(w)
  /\ UNCHANGED <<shop, debt, faults, resends, repeated>>

-----------------------------------------------------------------------------
(* the environment *)

ExpireInvoice(i) ==
  /\ cache[i] # "none"
  /\ cache' = [cache EXCEPT ![i] = "none"] /\ late' = late \ {i}
  /\ UNCHANGED <<backend, market, fallback, requests, webhooks, debt, faults>>

ExpireRecord(p) ==
  /\ record[p] # "none"
  /\ record' = [record EXCEPT ![p] = "none"]
  /\ lost' = lost \cup {p}
  /\ UNCHANGED <<shop, debt, faults, hook, acked, resends, repeated>>

ExpireDebt ==
  /\ debt
  /\ debt' = FALSE
  /\ UNCHANGED <<shop, webhooks, faults>>

\* The process dies: requests, deliveries and the fallback entry are gone, and
\* everything cached with them unless it is in Redis.
Crash ==
  /\ faults < MaxFaults
  /\ faults' = faults + 1
  /\ req' = [q \in Requests |-> IF At(q, "new") THEN req[q]
                                ELSE [req[q] EXCEPT !.pc = "done", !.got = None]]
  /\ hook' = [w \in Hooks |-> IdleHook]
  /\ fallback' = None
  /\ IF backend = "redis"
     THEN UNCHANGED <<cache, late, record, lost, debt>>
     ELSE /\ cache' = [i \in Invoices |-> "none"] /\ late' = {}
          /\ record' = [p \in Requests |-> "none"] /\ lost' = Requests
          /\ debt' = FALSE
  /\ UNCHANGED <<backend, market, known, misled, acked, resends, repeated>>

-----------------------------------------------------------------------------
Pay(q) ==
  \/ Start(q) \/ VerifyHit(q) \/ VerifyMiss(q) \/ VerifyServe(q) \/ VerifySet(q)
  \/ VerifyFails(q) \/ Create(q) \/ ReplayCreate(q) \/ Settle(q)

HandleWebhook(w) ==
  \/ Duplicate(w) \/ Process(w) \/ BustInvoice(w) \/ BustDebt(w) \/ BustFails(w)
  \/ Notify(w) \/ Store(w)

Next ==
  \/ \E q \in Requests : Pay(q) \/ ExpireRecord(q)
  \/ \E i \in Invoices : ExpireInvoice(i)
  \/ \E w \in Hooks : HandleWebhook(w) \/ \E p \in Requests : Deliver(w, p)
  \/ ExpireDebt \/ Crash

Spec == Init /\ [][Next]_vars

\* A delivery runs to its end, and the payment service delivers until it is
\* acknowledged.
FairSpec ==
  /\ Spec
  /\ \A w \in Hooks : WF_vars(HandleWebhook(w))
  /\ \A p \in Requests : WF_vars(\E w \in Hooks : Deliver(w, p))

-----------------------------------------------------------------------------
\* Once the webhook of a successful payment is answered 200, no cached invoice
\* of it says unpaid and no cached debt counts it, except an invoice stored by a
\* read that overlapped the payment (handleWebhook: invalidation before store).
SettledIsVisible ==
  /\ \A p \in acked : Succeeded(p) =>
       \A i \in Covered(p) : cache[i] = "unpaid" => i \in late
  /\ debt => \E p \in Requests \ acked : Succeeded(p)

\* An invoice whose payment was acknowledged before createPayment began is not
\* offered for payment again, unless the port answered from its fallback entry
\* or a read that overlapped the payment had cached it.
PaidStaysPaid ==
  \A q \in Requests : order[q] # "none" =>
    q \in misled \/ Covered(q) \cap known[q].acked = {}

\* A delivery of a payment that was already acknowledged is not processed again
\* while its result is kept (handleWebhook: "duplicate", getExisting, store).
DuplicatesIgnored == repeated \subseteq lost

\* The same, with the memory cache.
DuplicatesIgnoredInMemory == backend = "memory" => DuplicatesIgnored

\* createPayment verifies "useCache: false": while the invoice port answers, no
\* payment is created for an invoice that was paid before the request began.
VerifiedUnpaid ==
  \A q \in Requests : order[q] # "none" =>
    q \in misled \/ Covered(q) \cap known[q].paid = {}

\* Every settled payment is acknowledged in the end, though its deliveries may
\* crash, meet Redis errors, or never get their notification out.
EventuallyAcknowledged ==
  <>[](\A p \in Requests : order[p] \in {"success", "failed"} => p \in acked)

\* An acknowledged payment is visible everywhere, not offered again, and its
\* repeated webhook is ignored where results are kept in memory.
PaymentSafe ==
  /\ TypeOK /\ SettledIsVisible /\ PaidStaysPaid
  /\ DuplicatesIgnoredInMemory
=============================================================================
