--------------------------- MODULE PaymentProofs ---------------------------
(***************************************************************************)
(* Proofs about Payment for every set of invoices, requests and webhook    *)
(* handlers, every number of resends and of crashes, and both caches: an   *)
(* acknowledged payment is visible, is not offered again, and, with the    *)
(* memory cache, is not processed again.                                   *)
(***************************************************************************)
EXTENDS Payment, TLAPS

\* Request q of position x, its order o, the invoices kn whose payment was
\* acknowledged when it began, and whether it was misled.
RequestOK(q, x, o, kn, m) ==
  /\ x.pc # "done" => o = "none"
  /\ x.pc = "new" => x.summed = <<>>
  /\ x.pc \in {"verify", "call", "set"} => Len(x.summed) < Len(InvoicesOf[q])
  /\ x.pc = "create" => Len(x.summed) = Len(InvoicesOf[q])
  /\ x.pc = "set" =>
       LET i == InvoicesOf[q][Len(x.summed) + 1]
       IN  x.got \in Answer /\ x.got.inv = i /\ (x.got.status = "unpaid" => i \notin kn)
  /\ x.pc \notin {"new", "done"} /\ ~m =>
       \A k \in 1..Len(x.summed) : InvoicesOf[q][k] \notin kn
  /\ o # "none" => m \/ Covered(q) \cap kn = {}

RequestsOK ==
  \A q \in Requests : RequestOK(q, req[q], order[q], known[q].acked, q \in misled)

\* What was acknowledged when a request began still is.
KnownStays ==
  \A q \in Requests : \A i \in known[q].acked :
    \E p \in acked : Succeeded(p) /\ i \in Covered(p)

SettledOrders == {"success", "failed"}

\* Webhooks are about settled payments, and a success has paid its invoices.
HooksOK ==
  /\ \A p \in Requests : Succeeded(p) => Covered(p) \subseteq paid
  /\ \A p \in acked : order[p] \in SettledOrders
  /\ \A p \in Requests : record[p] # "none" => p \in acked
  /\ \A w \in Hooks : hook[w].pc # "idle" =>
       /\ Of(w) \in Requests /\ order[Of(w)] \in SettledOrders
       /\ hook[w].again => Of(w) \in acked

\* A delivery of p is past the invalidation of the invoice port, or answered.
Shown(p) ==
  p \in acked \/ \E w \in Hooks : Of(w) = p /\ hook[w].pc \in {"bustDebt", "notify", "store"}

\* No entry from before the payment outlives the invalidation.
InvoicesVisible ==
  \A p \in Requests : Succeeded(p) /\ Shown(p) =>
    \A i \in Covered(p) : cache[i] = "unpaid" => i \in late

\* A cached debt that is too high has a payment whose webhook has not come to it.
DebtExplained ==
  debt => \E p \in Requests \ acked :
            /\ Succeeded(p)
            /\ \A w \in Hooks : Of(w) = p => hook[w].pc \notin {"notify", "store"}

\* In memory, a result that was stored is there or is known to be lost.
ResultsKept ==
  backend = "memory" =>
    /\ \A p \in acked : record[p] = "date" \/ p \in lost
    /\ repeated \subseteq lost

PaymentInv ==
  /\ TypeOK /\ RequestsOK /\ KnownStays /\ HooksOK
  /\ InvoicesVisible /\ DebtExplained /\ ResultsKept

-----------------------------------------------------------------------------
(* Types and frames *)

\* The variables' types, one by one.
LEMMA Typed ==
  ASSUME PaymentInv
  PROVE  /\ backend \in Backends /\ paid \subseteq Invoices
         /\ cache \in [Invoices -> Status \cup {"none"}] /\ fallback \in Answer \cup {None}
         /\ req \in [Requests -> Request] /\ order \in [Requests -> Orders]
         /\ hook \in [Hooks -> Hook] /\ record \in [Requests -> {"none", "date", "string"}]
         /\ debt \in BOOLEAN /\ acked \subseteq Requests
         /\ resends \in 0..MaxResends /\ faults \in 0..MaxFaults
         /\ late \subseteq Invoices /\ misled \subseteq Requests
         /\ known \in [Requests -> [paid : SUBSET Invoices, acked : SUBSET Invoices]]
         /\ repeated \subseteq Requests /\ lost \subseteq Requests
         /\ \A q \in Requests : Len(req[q].summed) <= Len(InvoicesOf[q])
  BY DEF PaymentInv, TypeOK

\* What a request asks to pay.
LEMMA CoveredFacts ==
  ASSUME NEW q \in Requests
  PROVE  /\ InvoicesOf[q] \in Seq(Invoices) /\ Len(InvoicesOf[q]) \in Nat
         /\ Len(InvoicesOf[q]) > 0 /\ Covered(q) \subseteq Invoices
         /\ \A k \in 1..Len(InvoicesOf[q]) : InvoicesOf[q][k] \in Invoices
<1>1. InvoicesOf[q] \in Seq(Invoices) /\ InvoicesOf[q] # <<>>
  BY PaymentAssumption DEF PaymentAssumption
<1> QED BY <1>1 DEF Covered

\* A request's position, typed.
LEMMA RequestFacts ==
  ASSUME PaymentInv, NEW q \in Requests
  PROVE  /\ req[q] \in Request /\ req[q].summed \in Seq(Invoices) /\ Len(req[q].summed) \in Nat
         /\ Len(req[q].summed) <= Len(InvoicesOf[q]) /\ known[q].acked \subseteq Invoices
         /\ RequestOK(q, req[q], order[q], known[q].acked, q \in misled)
<1>1. req[q] \in Request /\ known[q] \in [paid : SUBSET Invoices, acked : SUBSET Invoices]
  BY Typed
<1>2. req[q].summed \in Seq(Invoices)
  BY <1>1 DEF Request
<1> QED BY <1>1, <1>2, Typed DEF PaymentInv, RequestsOK

\* The step stores no entry that a payment had outdated, but as late.
CacheKept ==
  \A i \in Invoices :
    cache'[i] = "unpaid" /\ i \notin late' =>
      (cache[i] = "unpaid" /\ i \notin late) \/ i \notin paid

\* Invoices of payments that were shown stay visible.
LEMMA VisibleStays ==
  ASSUME PaymentInv, CacheKept, NEW p \in Requests, Succeeded(p), Shown(p),
         NEW i \in Covered(p), cache'[i] = "unpaid"
  PROVE  i \in late'
<1>1. i \in Invoices /\ i \in paid
  BY CoveredFacts DEF PaymentInv, HooksOK
<1>2. cache[i] = "unpaid" => i \in late
  BY DEF PaymentInv, InvoicesVisible
<1> QED BY <1>1, <1>2 DEF CacheKept

\* A step of createPayment before the payment is created.
LEMMA RequestMoves ==
  ASSUME PaymentInv, NEW q \in Requests, NEW x \in Request, req' = [req EXCEPT ![q] = x],
         UNCHANGED <<backend, paid, order, hook, record, acked, resends, repeated, lost, debt, faults>>,
         known' \in [Requests -> [paid : SUBSET Invoices, acked : SUBSET Invoices]],
         \A p \in Requests \ {q} : known'[p] = known[p],
         \A i \in known'[q].acked : \E p \in acked : Succeeded(p) /\ i \in Covered(p),
         misled' \in {misled, misled \cup {q}},
         cache' \in [Invoices -> Status \cup {"none"}], late' \subseteq Invoices,
         fallback' \in Answer \cup {None}, CacheKept,
         Len(x.summed) <= Len(InvoicesOf[q]),
         RequestOK(q, x, order[q], known'[q].acked, q \in misled')
  PROVE  PaymentInv'
<1>1. /\ req'[q] = x /\ req' \in [Requests -> Request]
      /\ \A p \in Requests \ {q} : req'[p] = req[p]
  BY Typed
<1>2. misled' \subseteq Requests
  BY Typed
<1>3. TypeOK'
  <2>1. \A p \in Requests : Len(req'[p].summed) <= Len(InvoicesOf[p])
    BY <1>1, Typed
  <2> QED BY <1>1, <1>2, <2>1, Typed DEF TypeOK
<1>4. ASSUME NEW p \in Requests
      PROVE  RequestOK(p, req'[p], order'[p], known'[p].acked, p \in misled')
  <2>1. CASE p = q
    BY <1>1, <2>1
  <2>2. CASE p # q
    <3>1. /\ req'[p] = req[p] /\ order'[p] = order[p] /\ known'[p] = known[p]
          /\ p \in misled' <=> p \in misled
      BY <1>1, <2>2
    <3>2. RequestOK(p, req[p], order[p], known[p].acked, p \in misled)
      BY RequestFacts
    <3> QED BY <3>1, <3>2
  <2> QED BY <2>1, <2>2
<1>5. RequestsOK'
  BY <1>4 DEF RequestsOK, RequestOK, Covered
<1>6. KnownStays'
  <2>1. \A p \in Requests : \A i \in known'[p].acked :
          \E z \in acked : Succeeded(z) /\ i \in Covered(z)
    BY DEF PaymentInv, KnownStays
  <2> QED BY <2>1 DEF KnownStays, Succeeded, Covered
<1>7. HooksOK' /\ DebtExplained' /\ ResultsKept'
  BY DEF PaymentInv, HooksOK, DebtExplained, ResultsKept, Succeeded, Of, Covered
<1>8. InvoicesVisible'
  <2>1. \A p \in Requests : (Succeeded(p)' <=> Succeeded(p)) /\ (Shown(p)' <=> Shown(p))
    BY DEF Succeeded, Shown, Of
  <2> QED BY <2>1, VisibleStays DEF InvoicesVisible, Covered
<1> QED BY <1>3, <1>5, <1>6, <1>7, <1>8 DEF PaymentInv

\* A step of the payment service, or the one that creates the payment.
LEMMA OrderMoves ==
  ASSUME PaymentInv, NEW q \in Requests, NEW x \in Request, req' = [req EXCEPT ![q] = x],
         NEW o \in Orders, order' = [order EXCEPT ![q] = o], order[q] \notin SettledOrders,
         x.summed = req[q].summed,
         UNCHANGED <<backend, cache, late, fallback, known, misled, hook, record, acked,
                     resends, repeated, lost, faults>>,
         paid \subseteq paid', paid' \subseteq Invoices, o = "success" => Covered(q) \subseteq paid',
         debt' \in BOOLEAN, debt' => debt \/ o = "success",
         RequestOK(q, x, o, known[q].acked, q \in misled)
  PROVE  PaymentInv'
<1>1. /\ req'[q] = x /\ req' \in [Requests -> Request]
      /\ \A p \in Requests \ {q} : req'[p] = req[p]
      /\ order'[q] = o /\ order' \in [Requests -> Orders]
      /\ \A p \in Requests \ {q} : order'[p] = order[p]
  BY Typed
<1>2. TypeOK'
  <2>1. \A p \in Requests : Len(req'[p].summed) <= Len(InvoicesOf[p])
    BY <1>1, Typed
  <2> QED BY <1>1, <2>1, Typed DEF TypeOK
<1>3. ASSUME NEW p \in Requests
      PROVE  RequestOK(p, req'[p], order'[p], known'[p].acked, p \in misled')
  <2>1. CASE p = q
    BY <1>1, <2>1
  <2>2. CASE p # q
    <3>1. req'[p] = req[p] /\ order'[p] = order[p] /\ known' = known /\ misled' = misled
      BY <1>1, <2>2
    <3>2. RequestOK(p, req[p], order[p], known[p].acked, p \in misled)
      BY RequestFacts
    <3> QED BY <3>1, <3>2
  <2> QED BY <2>1, <2>2
<1>4. RequestsOK'
  BY <1>3 DEF RequestsOK, RequestOK, Covered
<1>5. \A p \in Requests : order[p] \in SettledOrders => p # q /\ order'[p] = order[p]
  BY <1>1
<1>6. /\ \A p \in Requests : Succeeded(p) => Succeeded(p)' /\ p # q
      /\ \A p \in Requests : Succeeded(p)' => Succeeded(p) \/ (p = q /\ o = "success")
  BY <1>1, <1>5 DEF Succeeded, SettledOrders
<1>7. /\ \A p \in acked : p \in Requests /\ p # q /\ order'[p] \in SettledOrders
      /\ \A w \in Hooks : hook[w].pc # "idle" => Of(w) # q /\ order'[Of(w)] \in SettledOrders
  BY <1>5, Typed DEF PaymentInv, HooksOK
<1>8. KnownStays'
  <2>1. \A p \in Requests : \A i \in known[p].acked :
          \E z \in acked : Succeeded(z)' /\ i \in Covered(z)
    BY <1>6, Typed DEF PaymentInv, KnownStays
  <2> QED BY <2>1 DEF KnownStays, Covered
<1>9. HooksOK'
  <2>1. \A p \in Requests : order'[p] = "success" => Covered(p) \subseteq paid'
    BY <1>6 DEF PaymentInv, HooksOK, Succeeded
  <2>2. \A p \in Requests : record'[p] # "none" => p \in acked'
    BY DEF PaymentInv, HooksOK
  <2>3. ASSUME NEW w \in Hooks, hook'[w].pc # "idle"
        PROVE  /\ hook'[w].payment \in Requests /\ order'[hook'[w].payment] \in SettledOrders
               /\ hook'[w].again => hook'[w].payment \in acked'
    BY <1>7, <2>3 DEF PaymentInv, HooksOK, Of
  <2>4. \A p \in acked' : order'[p] \in SettledOrders
    BY <1>7
  <2> QED BY <2>1, <2>2, <2>3, <2>4 DEF HooksOK, Succeeded, Covered, Of
<1>10. ~Shown(q) /\ \A p : Shown(p)' <=> Shown(p)
  BY <1>7 DEF Shown, Of
<1>11. InvoicesVisible'
  <2>1. ASSUME NEW p \in Requests, Succeeded(p)', Shown(p)', NEW i \in Covered(p), cache'[i] = "unpaid"
        PROVE  i \in late'
    BY <1>6, <1>10, <2>1 DEF PaymentInv, InvoicesVisible
  <2> QED BY <2>1 DEF InvoicesVisible, Covered
<1>12. DebtExplained'
  <2>1. SUFFICES ASSUME debt'
                 PROVE  \E p \in Requests \ acked :
                          /\ Succeeded(p)'
                          /\ \A w \in Hooks : Of(w) = p => hook[w].pc \notin {"notify", "store"}
    BY DEF DebtExplained, Of
  <2>2. CASE o = "success"
    <3>1. Succeeded(q)' /\ q \in Requests \ acked
      BY <1>1, <1>7, <2>2 DEF Succeeded
    <3>2. \A w \in Hooks : Of(w) = q => hook[w].pc \notin {"notify", "store"}
      BY <1>7
    <3> QED BY <3>1, <3>2
  <2>3. CASE o # "success"
    BY <1>6, <2>1, <2>3 DEF PaymentInv, DebtExplained
  <2> QED BY <2>2, <2>3
<1>13. ResultsKept'
  BY DEF PaymentInv, ResultsKept
<1> QED BY <1>2, <1>4, <1>8, <1>9, <1>11, <1>12, <1>13 DEF PaymentInv

Late(h) == h.pc \in {"notify", "store"}
Past(h) == h.pc \in {"bustDebt", "notify", "store"}

\* A step of one webhook delivery.
LEMMA HookMoves ==
  ASSUME PaymentInv, NEW w \in Hooks, NEW h \in Hook, hook' = [hook EXCEPT ![w] = h],
         UNCHANGED <<backend, paid, order, fallback, req, known, misled>>,
         cache' \in [Invoices -> Status \cup {"none"}], late' \subseteq Invoices, CacheKept,
         record' \in [Requests -> {"none", "date", "string"}],
         resends' \in 0..MaxResends, faults' \in 0..MaxFaults,
         repeated' \subseteq Requests, lost' \subseteq Requests,
         acked \subseteq acked', acked' \subseteq Requests,
         \A p \in acked' \ acked : p = Of(w) /\ hook[w].pc = "store",
         \A p \in Requests : record'[p] # "none" => p \in acked',
         h.pc # "idle" => /\ h.payment \in Requests /\ order[h.payment] \in SettledOrders
                          /\ h.again => h.payment \in acked,
         Past(h) => \/ Past(hook[w]) /\ Of(w) = h.payment
                    \/ order[h.payment] # "success"
                    \/ \A i \in Invoices : cache'[i] = "none",
         debt' \in BOOLEAN, debt' => debt,
         debt' /\ Late(h) => \/ Late(hook[w]) /\ Of(w) = h.payment
                             \/ order[h.payment] # "success",
         ResultsKept'
  PROVE  PaymentInv'
<1>1. /\ hook'[w] = h /\ hook' \in [Hooks -> Hook]
      /\ \A v \in Hooks \ {w} : hook'[v] = hook[v]
  BY Typed
<1>2. TypeOK'
  BY <1>1, Typed DEF TypeOK
<1>3. RequestsOK'
  BY DEF PaymentInv, RequestsOK, RequestOK, Covered
<1>4. KnownStays'
  <2>1. \A p \in Requests : \A i \in known[p].acked :
          \E z \in acked' : Succeeded(z) /\ i \in Covered(z)
    BY DEF PaymentInv, KnownStays
  <2> QED BY <2>1 DEF KnownStays, Succeeded, Covered
<1>5. HooksOK'
  <2>1. \A p \in Requests : Succeeded(p) => Covered(p) \subseteq paid
    BY DEF PaymentInv, HooksOK
  <2>2. \A p \in acked' : order[p] \in SettledOrders
    BY DEF PaymentInv, HooksOK
  <2>3. ASSUME NEW v \in Hooks, hook'[v].pc # "idle"
        PROVE  /\ hook'[v].payment \in Requests /\ order[hook'[v].payment] \in SettledOrders
               /\ hook'[v].again => hook'[v].payment \in acked'
    <3>1. CASE v = w
      BY <1>1, <2>3, <3>1
    <3>2. CASE v # w
      BY <1>1, <2>3, <3>2 DEF PaymentInv, HooksOK, Of
    <3> QED BY <3>1, <3>2
  <2> QED BY <2>1, <2>2, <2>3 DEF HooksOK, Succeeded, Covered, Of
<1>6. InvoicesVisible'
  <2>1. ASSUME NEW p \in Requests, order[p] = "success", Shown(p)', NEW i \in Covered(p),
               cache'[i] = "unpaid"
        PROVE  i \in late'
    <3>1. i \in Invoices /\ cache'[i] # "none"
      BY <2>1, CoveredFacts
    <3>2. Shown(p)
      <4>1. CASE p \in acked
        BY <4>1 DEF Shown
      <4>2. CASE p \in acked' \ acked
        BY <4>2 DEF Shown
      <4>3. ASSUME NEW v \in Hooks, hook'[v].payment = p, Past(hook'[v])
            PROVE  Shown(p)
        <5>1. CASE v = w
          BY <1>1, <2>1, <3>1, <4>3, <5>1 DEF Shown, Past, Of
        <5>2. CASE v # w
          BY <1>1, <4>3, <5>2 DEF Shown, Past, Of
        <5> QED BY <5>1, <5>2
      <4> QED BY <2>1, <4>1, <4>2, <4>3 DEF Shown, Past, Of
    <3> QED BY <2>1, <3>2, VisibleStays DEF Succeeded
  <2> QED BY <2>1 DEF InvoicesVisible, Succeeded, Covered
<1>7. DebtExplained'
  <2>1. SUFFICES ASSUME debt'
                 PROVE  \E p \in Requests \ acked' :
                          /\ order[p] = "success"
                          /\ \A v \in Hooks : hook'[v].payment = p => ~Late(hook'[v])
    BY DEF DebtExplained, Succeeded, Of, Late
  <2>2. PICK p \in Requests \ acked :
          /\ order[p] = "success"
          /\ \A v \in Hooks : Of(v) = p => ~Late(hook[v])
    BY <2>1 DEF PaymentInv, DebtExplained, Succeeded, Late
  <2>3. p \notin acked'
    BY <2>2 DEF Late
  <2>4. ASSUME NEW v \in Hooks, hook'[v].payment = p PROVE ~Late(hook'[v])
    <3>1. CASE v = w
      BY <1>1, <2>1, <2>2, <2>4, <3>1
    <3>2. CASE v # w
      BY <1>1, <2>2, <2>4, <3>2 DEF Of
    <3> QED BY <3>1, <3>2
  <2> QED BY <2>2, <2>3, <2>4
<1> QED BY <1>2, <1>3, <1>4, <1>5, <1>6, <1>7 DEF PaymentInv

-----------------------------------------------------------------------------
(* createPayment, createBatchPayment *)

LEMMA StartKeepsInv == ASSUME PaymentInv, NEW q \in Requests, Start(q) PROVE PaymentInv'
<1>1. PICK x : x = [req[q] EXCEPT !.pc = "verify"]
  OBVIOUS
<1>2. PICK kn : kn = UNION {Covered(p) : p \in {p \in acked : Succeeded(p)}}
  OBVIOUS
<1>3. /\ req[q].pc = "new" /\ req' = [req EXCEPT ![q] = x]
      /\ known' = [known EXCEPT ![q] = [paid |-> paid, acked |-> kn]]
      /\ UNCHANGED <<backend, paid, order, hook, record, acked, resends, repeated, lost, debt, faults>>
      /\ cache' = cache /\ fallback' = fallback /\ late' = late /\ misled' = misled
  BY <1>1, <1>2 DEF Start, At, market, invoicePort, webhooks
<1>4. /\ x \in Request /\ x.pc = "verify" /\ x.summed = req[q].summed
  BY <1>1, RequestFacts DEF Request
<1>5. /\ req[q].summed = <<>> /\ order[q] = "none" /\ Len(InvoicesOf[q]) \in Nat
      /\ Len(InvoicesOf[q]) > 0
  BY <1>3, RequestFacts, CoveredFacts DEF RequestOK
<1>6. Len(x.summed) = 0
  BY <1>4, <1>5
<1>7. RequestOK(q, x, order[q], kn, q \in misled')
  BY <1>4, <1>5, <1>6 DEF RequestOK
<1>8. /\ \A i \in kn : \E p \in acked : Succeeded(p) /\ i \in Covered(p)
      /\ kn \subseteq Invoices
  BY <1>2, Typed, CoveredFacts
<1>9. /\ known' \in [Requests -> [paid : SUBSET Invoices, acked : SUBSET Invoices]]
      /\ known'[q].acked = kn /\ \A p \in Requests \ {q} : known'[p] = known[p]
  <2>1. [paid |-> paid, acked |-> kn] \in [paid : SUBSET Invoices, acked : SUBSET Invoices]
    BY <1>8, Typed
  <2> QED BY <1>3, <2>1, Typed
<1>10. CacheKept
  BY <1>3 DEF CacheKept
<1>11. /\ cache' \in [Invoices -> Status \cup {"none"}] /\ late' \subseteq Invoices
       /\ fallback' \in Answer \cup {None}
  BY <1>3, Typed
<1>12. Len(x.summed) <= Len(InvoicesOf[q])
  BY <1>5, <1>6
<1> QED BY <1>3, <1>4, <1>7, <1>8, <1>9, <1>10, <1>11, <1>12, RequestMoves

\* Judge counts the invoice it is about as verified only if it was not known to be
\* paid, or the request was misled.
LEMMA JudgeMoves ==
  ASSUME PaymentInv, NEW q \in Requests, NEW a \in Answer, Judge(q, a),
         req[q].pc \in {"verify", "call", "set"},
         q \in misled' \/ (a.status = "unpaid" => Current(q) \notin known[q].acked),
         misled \subseteq misled'
  PROVE  \E x \in Request :
           /\ req' = [req EXCEPT ![q] = x]
           /\ Len(x.summed) <= Len(InvoicesOf[q])
           /\ RequestOK(q, x, order[q], known[q].acked, q \in misled')
<1>1. PICK s : s = Append(req[q].summed, a.inv)
  OBVIOUS
<1>2. PICK n \in Nat : n = Len(req[q].summed)
  BY RequestFacts
<1>3. PICK top \in Nat : top = Len(InvoicesOf[q])
  BY CoveredFacts
<1>4. /\ req[q].summed \in Seq(Invoices) /\ n < top /\ order[q] = "none"
      /\ q \notin misled => \A k \in 1..n : InvoicesOf[q][k] \notin known[q].acked
  BY <1>2, <1>3, RequestFacts DEF RequestOK
<1>5. s \in Seq(Invoices) /\ Len(s) = n + 1
  BY <1>1, <1>2, <1>4 DEF Answer
<1>6. CASE a.status = "unpaid"
  <2>1. PICK rest : rest = IF n + 1 = top THEN "create" ELSE "verify"
    OBVIOUS
  <2>2. PICK x : x = [pc |-> rest, got |-> None, summed |-> s]
    OBVIOUS
  <2>3. x \in Request /\ x.pc = rest /\ x.summed = s
    BY <1>5, <2>1, <2>2 DEF Request
  <2>4. req' = [req EXCEPT ![q] = x]
    BY <1>1, <1>3, <1>5, <1>6, <2>1, <2>2 DEF Judge
  <2>5. q \notin misled' => \A k \in 1..(n + 1) : InvoicesOf[q][k] \notin known[q].acked
    <3>1. SUFFICES ASSUME q \notin misled', NEW k \in 1..(n + 1)
                   PROVE  InvoicesOf[q][k] \notin known[q].acked
      OBVIOUS
    <3>2. k \in 1..n \/ k = n + 1
      BY <3>1
    <3>3. InvoicesOf[q][n + 1] \notin known[q].acked
      BY <1>2, <1>6, <3>1 DEF Current
    <3> QED BY <1>4, <3>1, <3>2, <3>3
  <2>6. n + 1 <= top /\ (rest = "verify" => n + 1 < top)
    BY <1>4, <2>1
  <2>7. RequestOK(q, x, order[q], known[q].acked, q \in misled')
    BY <1>3, <1>4, <1>5, <2>1, <2>3, <2>5, <2>6 DEF RequestOK
  <2> QED BY <1>3, <1>5, <2>3, <2>4, <2>6, <2>7
<1>7. CASE a.status # "unpaid"
  <2>1. PICK x : x = [pc |-> "done", got |-> None, summed |-> req[q].summed]
    OBVIOUS
  <2>2. x \in Request /\ x.pc = "done" /\ x.summed = req[q].summed
    BY <1>4, <2>1 DEF Request
  <2>3. req' = [req EXCEPT ![q] = x]
    BY <1>7, <2>1 DEF Judge
  <2>4. RequestOK(q, x, order[q], known[q].acked, q \in misled')
    BY <1>4, <2>2 DEF RequestOK
  <2> QED BY <2>2, <2>3, <2>4, RequestFacts
<1> QED BY <1>6, <1>7

\* An invoice that was acknowledged as paid is cached as unpaid only late.
LEMMA AcknowledgedIsPaid ==
  ASSUME PaymentInv, NEW q \in Requests, NEW i \in known[q].acked
  PROVE  i \in paid /\ (cache[i] = "unpaid" => i \in late)
<1>1. PICK p \in acked : Succeeded(p) /\ i \in Covered(p)
  BY DEF PaymentInv, KnownStays
<1>2. p \in Requests /\ Shown(p)
  BY Typed DEF Shown
<1> QED BY <1>1, <1>2 DEF PaymentInv, InvoicesVisible, HooksOK

\* The invoice a request is verifying.
LEMMA CurrentFacts ==
  ASSUME PaymentInv, NEW q \in Requests, req[q].pc \in {"verify", "call", "set"}
  PROVE  Current(q) \in Invoices
<1>1. Len(req[q].summed) \in Nat /\ Len(req[q].summed) < Len(InvoicesOf[q])
  BY RequestFacts DEF RequestOK
<1>2. Len(req[q].summed) + 1 \in 1..Len(InvoicesOf[q])
  BY <1>1, CoveredFacts
<1> QED BY <1>2, CoveredFacts DEF Current

\* The invoice check answered from the registry's cache.
LEMMA VerifyHitKeepsInv == ASSUME PaymentInv, NEW q \in Requests, VerifyHit(q) PROVE PaymentInv'
<1>1. PICK i : i = Current(q)
  OBVIOUS
<1>2. PICK a : a = [inv |-> i, status |-> cache[i]]
  OBVIOUS
<1>3. /\ req[q].pc = "verify" /\ cache[i] # "none" /\ Judge(q, a)
      /\ misled' = IF i \in late THEN misled \cup {q} ELSE misled
      /\ UNCHANGED <<backend, paid, order, hook, record, acked, resends, repeated, lost, debt, faults>>
      /\ cache' = cache /\ fallback' = fallback /\ late' = late /\ known' = known
  BY <1>1, <1>2 DEF VerifyHit, At, market, invoicePort, webhooks
<1>4. i \in Invoices
  BY <1>1, <1>3, CurrentFacts
<1>5. a \in Answer /\ a.status = cache[i]
  BY <1>2, <1>3, <1>4, Typed DEF Answer
<1>6. q \in misled' \/ (a.status = "unpaid" => i \notin known[q].acked)
  BY <1>3, <1>5, AcknowledgedIsPaid
<1>7. PICK x \in Request :
        /\ req' = [req EXCEPT ![q] = x]
        /\ Len(x.summed) <= Len(InvoicesOf[q])
        /\ RequestOK(q, x, order[q], known[q].acked, q \in misled')
  BY <1>1, <1>3, <1>5, <1>6, JudgeMoves
<1>8. CacheKept
  BY <1>3 DEF CacheKept
<1>9. /\ \A j \in known'[q].acked : \E p \in acked : Succeeded(p) /\ j \in Covered(p)
      /\ known' \in [Requests -> [paid : SUBSET Invoices, acked : SUBSET Invoices]]
      /\ \A p \in Requests \ {q} : known'[p] = known[p]
  BY <1>3, Typed DEF PaymentInv, KnownStays
<1>10. /\ cache' \in [Invoices -> Status \cup {"none"}] /\ late' \subseteq Invoices
       /\ fallback' \in Answer \cup {None} /\ misled' \in {misled, misled \cup {q}}
  BY <1>3, Typed
<1> QED BY <1>3, <1>7, <1>8, <1>9, <1>10, RequestMoves

\* What the steps of a request that leave the cache alone have in common.
LEMMA PlainMoves ==
  ASSUME PaymentInv, NEW q \in Requests, NEW x \in Request, req' = [req EXCEPT ![q] = x],
         UNCHANGED <<backend, paid, order, hook, record, acked, resends, repeated, lost, debt, faults>>,
         UNCHANGED <<cache, fallback, late, known>>,
         misled' \in {misled, misled \cup {q}},
         Len(x.summed) <= Len(InvoicesOf[q]),
         RequestOK(q, x, order[q], known[q].acked, q \in misled')
  PROVE  PaymentInv'
<1>1. CacheKept
  BY DEF CacheKept
<1>2. /\ \A j \in known'[q].acked : \E p \in acked : Succeeded(p) /\ j \in Covered(p)
      /\ known' \in [Requests -> [paid : SUBSET Invoices, acked : SUBSET Invoices]]
      /\ \A p \in Requests \ {q} : known'[p] = known[p]
  BY Typed DEF PaymentInv, KnownStays
<1>3. /\ cache' \in [Invoices -> Status \cup {"none"}] /\ late' \subseteq Invoices
      /\ fallback' \in Answer \cup {None} /\ known'[q].acked = known[q].acked
  BY Typed
<1> QED BY <1>1, <1>2, <1>3, RequestMoves

\* The invoice check that goes to the billing service.
LEMMA VerifyMissKeepsInv == ASSUME PaymentInv, NEW q \in Requests, VerifyMiss(q) PROVE PaymentInv'
<1>1. PICK x : x = [req[q] EXCEPT !.pc = "call"]
  OBVIOUS
<1>2. /\ req[q].pc = "verify" /\ req' = [req EXCEPT ![q] = x] /\ misled' = misled
      /\ UNCHANGED <<backend, paid, order, hook, record, acked, resends, repeated, lost, debt, faults>>
      /\ UNCHANGED <<cache, fallback, late, known>>
  BY <1>1 DEF VerifyMiss, At, market, invoicePort, webhooks
<1>3. x \in Request /\ x.pc = "call" /\ x.summed = req[q].summed
  BY <1>1, RequestFacts DEF Request
<1>4. RequestOK(q, x, order[q], known[q].acked, q \in misled')
  BY <1>2, <1>3, RequestFacts DEF RequestOK
<1> QED BY <1>2, <1>3, <1>4, PlainMoves, RequestFacts

\* The billing service answers what it knows at that moment.
LEMMA VerifyServeKeepsInv == ASSUME PaymentInv, NEW q \in Requests, VerifyServe(q) PROVE PaymentInv'
<1>1. PICK i : i = Current(q)
  OBVIOUS
<1>2. PICK a : a = Truth(i)
  OBVIOUS
<1>3. PICK x : x = [req[q] EXCEPT !.pc = "set", !.got = a]
  OBVIOUS
<1>4. /\ req[q].pc = "call" /\ req' = [req EXCEPT ![q] = x] /\ misled' = misled
      /\ UNCHANGED <<backend, paid, order, hook, record, acked, resends, repeated, lost, debt, faults>>
      /\ UNCHANGED <<cache, fallback, late, known>>
  BY <1>1, <1>2, <1>3 DEF VerifyServe, At, market, invoicePort, webhooks
<1>5. a \in Answer /\ a.inv = i /\ (a.status = "unpaid" => i \notin paid)
  BY <1>1, <1>2, <1>4, CurrentFacts DEF Truth, Answer, Status
<1>6. x \in Request /\ x.pc = "set" /\ x.summed = req[q].summed /\ x.got = a
  BY <1>3, <1>5, RequestFacts DEF Request
<1>7. a.status = "unpaid" => i \notin known[q].acked
  BY <1>5, AcknowledgedIsPaid
<1>8. i = InvoicesOf[q][Len(req[q].summed) + 1]
  BY <1>1 DEF Current
<1>9. RequestOK(q, x, order[q], known[q].acked, q \in misled')
  BY <1>4, <1>5, <1>6, <1>7, <1>8, RequestFacts DEF RequestOK
<1> QED BY <1>4, <1>6, <1>9, PlainMoves, RequestFacts

\* The invoice check fails: the port's last answer is judged, or the request ends.
LEMMA VerifyFailsKeepsInv == ASSUME PaymentInv, NEW q \in Requests, VerifyFails(q) PROVE PaymentInv'
<1>1. /\ req[q].pc = "call"
      /\ UNCHANGED <<backend, paid, order, hook, record, acked, resends, repeated, lost, debt, faults>>
      /\ UNCHANGED <<cache, fallback, late, known>>
  BY DEF VerifyFails, At, market, webhooks
<1>2. CASE fallback = None
  <2>1. PICK x : x = [req[q] EXCEPT !.pc = "done"]
    OBVIOUS
  <2>2. req' = [req EXCEPT ![q] = x] /\ misled' = misled
    BY <1>2, <2>1 DEF VerifyFails
  <2>3. x \in Request /\ x.pc = "done" /\ x.summed = req[q].summed
    BY <2>1, RequestFacts DEF Request
  <2>4. RequestOK(q, x, order[q], known[q].acked, q \in misled')
    BY <1>1, <2>2, <2>3, RequestFacts DEF RequestOK
  <2> QED BY <1>1, <2>2, <2>3, <2>4, PlainMoves, RequestFacts
<1>3. CASE fallback # None
  <2>1. fallback \in Answer /\ Judge(q, fallback) /\ misled' = misled \cup {q}
    BY <1>3, Typed DEF VerifyFails
  <2>2. PICK x \in Request :
          /\ req' = [req EXCEPT ![q] = x]
          /\ Len(x.summed) <= Len(InvoicesOf[q])
          /\ RequestOK(q, x, order[q], known[q].acked, q \in misled')
    BY <1>1, <2>1, JudgeMoves
  <2> QED BY <1>1, <2>1, <2>2, PlainMoves
<1> QED BY <1>2, <1>3

\* What is stored is the truth, or is late.
LEMMA VerifySetKeepsInv == ASSUME PaymentInv, NEW q \in Requests, VerifySet(q) PROVE PaymentInv'
<1>1. PICK a : a = req[q].got
  OBVIOUS
<1>2. /\ req[q].pc = "set" /\ fallback' = a /\ Judge(q, a) /\ misled' = misled /\ known' = known
      /\ UNCHANGED <<backend, paid, order, hook, record, acked, resends, repeated, lost, debt, faults>>
      /\ \/ /\ cache' = [cache EXCEPT ![a.inv] = a.status]
            /\ late' = IF a = Truth(a.inv) THEN late \ {a.inv} ELSE late \cup {a.inv}
         \/ UNCHANGED <<cache, late>>
  BY <1>1 DEF VerifySet, At, market, webhooks
<1>3. /\ a \in Answer /\ a.inv = Current(q) /\ (a.status = "unpaid" => Current(q) \notin known[q].acked)
  BY <1>1, <1>2, RequestFacts DEF RequestOK, Current
<1>4. a.inv \in Invoices /\ a.status \in Status
  BY <1>3 DEF Answer
<1>5. PICK x \in Request :
        /\ req' = [req EXCEPT ![q] = x]
        /\ Len(x.summed) <= Len(InvoicesOf[q])
        /\ RequestOK(q, x, order[q], known[q].acked, q \in misled')
  BY <1>2, <1>3, JudgeMoves
<1>6. cache' \in [Invoices -> Status \cup {"none"}] /\ late' \subseteq Invoices
  BY <1>2, <1>4, Typed
<1>7. CacheKept
  <2>1. ASSUME NEW i \in Invoices, cache'[i] = "unpaid", i \notin late'
        PROVE  (cache[i] = "unpaid" /\ i \notin late) \/ i \notin paid
    <3>1. CASE cache'[i] = cache[i] /\ (i \in late' <=> i \in late)
      BY <2>1, <3>1
    <3>2. CASE ~(cache'[i] = cache[i] /\ (i \in late' <=> i \in late))
      <4>1. /\ i = a.inv /\ cache'[i] = a.status
            /\ late' = IF a = Truth(a.inv) THEN late \ {a.inv} ELSE late \cup {a.inv}
        BY <1>2, <3>2, Typed
      <4>2. a = Truth(i) /\ a.status = "unpaid"
        BY <2>1, <4>1
      <4> QED BY <4>2 DEF Truth
    <3> QED BY <3>1, <3>2
  <2> QED BY <2>1 DEF CacheKept
<1>8. /\ \A j \in known'[q].acked : \E p \in acked : Succeeded(p) /\ j \in Covered(p)
      /\ known' \in [Requests -> [paid : SUBSET Invoices, acked : SUBSET Invoices]]
      /\ \A p \in Requests \ {q} : known'[p] = known[p]
  BY <1>2, Typed DEF PaymentInv, KnownStays
<1> QED BY <1>2, <1>3, <1>5, <1>6, <1>7, <1>8, RequestMoves

\* Create: every invoice of a request that was not misled has been verified.
LEMMA CreateKeepsInv == ASSUME PaymentInv, NEW q \in Requests, Create(q) PROVE PaymentInv'
<1>1. PICK x : x = [req[q] EXCEPT !.pc = "done"]
  OBVIOUS
<1>2. /\ req[q].pc = "create" /\ req' = [req EXCEPT ![q] = x]
      /\ UNCHANGED <<backend, cache, late, fallback, known, misled, hook, record, acked,
                     resends, repeated, lost, faults>>
      /\ paid' = paid /\ debt' = debt
  BY <1>1 DEF Create, At, invoicePort, webhooks
<1>3. x \in Request /\ x.pc = "done" /\ x.summed = req[q].summed
  BY <1>1, RequestFacts DEF Request
<1>4. /\ order[q] = "none" /\ Len(req[q].summed) = Len(InvoicesOf[q])
      /\ q \in misled \/ \A k \in 1..Len(req[q].summed) : InvoicesOf[q][k] \notin known[q].acked
  BY <1>2, RequestFacts DEF RequestOK
<1>5. PICK o \in {"none", "created", "queued"} : order' = [order EXCEPT ![q] = o]
  BY <1>4, Typed DEF Create
<1>6. q \in misled \/ Covered(q) \cap known[q].acked = {}
  BY <1>4, CoveredFacts DEF Covered
<1>7. RequestOK(q, x, o, known[q].acked, q \in misled)
  BY <1>3, <1>6 DEF RequestOK
<1>8. o \in Orders /\ order[q] \notin SettledOrders /\ o # "success"
  BY <1>4, <1>5 DEF Orders, SettledOrders
<1> QED BY <1>2, <1>3, <1>5, <1>7, <1>8, OrderMoves, Typed

\* A request whose payment exists is done, and stays so.
LEMMA DoneStays ==
  ASSUME PaymentInv, NEW q \in Requests, order[q] # "none", NEW o \in Orders
  PROVE  /\ RequestOK(q, req[q], o, known[q].acked, q \in misled)
         /\ req[q] \in Request /\ req = [req EXCEPT ![q] = req[q]]
<1>1. req[q].pc = "done" /\ (q \in misled \/ Covered(q) \cap known[q].acked = {})
  BY RequestFacts DEF RequestOK
<1> QED BY <1>1, Typed DEF RequestOK

\* A create taken up again by the queue's worker.
LEMMA ReplayCreateKeepsInv == ASSUME PaymentInv, NEW q \in Requests, ReplayCreate(q) PROVE PaymentInv'
<1>1. /\ order[q] = "queued" /\ order' = [order EXCEPT ![q] = "created"] /\ req' = req
      /\ UNCHANGED <<backend, cache, late, fallback, known, misled, hook, record, acked,
                     resends, repeated, lost, faults>>
      /\ paid' = paid /\ debt' = debt
  BY DEF ReplayCreate, invoicePort, requests, webhooks
<1>2. "created" \in Orders /\ order[q] \notin SettledOrders /\ order[q] # "none"
  BY <1>1 DEF Orders, SettledOrders
<1>3. /\ RequestOK(q, req[q], "created", known[q].acked, q \in misled)
      /\ req[q] \in Request /\ req' = [req EXCEPT ![q] = req[q]]
  BY <1>1, <1>2, DoneStays
<1> QED BY <1>1, <1>2, <1>3, OrderMoves, Typed

\* The payment service settles a payment, with success or not.
LEMMA SettleKeepsInv == ASSUME PaymentInv, NEW q \in Requests, Settle(q) PROVE PaymentInv'
<1>1. /\ order[q] = "created" /\ req' = req
      /\ UNCHANGED <<backend, cache, late, fallback, known, misled, hook, record, acked,
                     resends, repeated, lost, faults>>
  BY DEF Settle, invoicePort, requests, webhooks
<1>2. PICK o \in {"success", "failed"} :
        /\ order' = [order EXCEPT ![q] = o]
        /\ paid' = IF o = "success" THEN paid \cup Covered(q) ELSE paid
        /\ debt' \in {debt, TRUE} /\ (o # "success" => debt' = debt)
  <2>1. CASE /\ order' = [order EXCEPT ![q] = "success"]
             /\ paid' = paid \cup Covered(q) /\ debt' \in {debt, TRUE}
    BY <2>1
  <2>2. CASE order' = [order EXCEPT ![q] = "failed"] /\ UNCHANGED <<paid, debt>>
    BY <2>2
  <2> QED BY <2>1, <2>2 DEF Settle
<1>3. o \in Orders /\ order[q] \notin SettledOrders /\ order[q] # "none"
  BY <1>1 DEF Orders, SettledOrders
<1>4. /\ RequestOK(q, req[q], o, known[q].acked, q \in misled)
      /\ req[q] \in Request /\ req' = [req EXCEPT ![q] = req[q]]
  BY <1>1, <1>3, DoneStays
<1>5. /\ paid \subseteq paid' /\ paid' \subseteq Invoices /\ (o = "success" => Covered(q) \subseteq paid')
  BY <1>2, Typed, CoveredFacts
<1>6. debt' \in BOOLEAN /\ (debt' => debt \/ o = "success")
  BY <1>2, Typed
<1> QED BY <1>1, <1>2, <1>3, <1>4, <1>5, <1>6, OrderMoves

-----------------------------------------------------------------------------
(* handleWebhook *)

\* A delivery under way.
LEMMA HookFacts ==
  ASSUME PaymentInv, NEW w \in Hooks, hook[w].pc # "idle"
  PROVE  /\ hook[w] \in Hook /\ Of(w) \in Requests /\ Of(w) = hook[w].payment
         /\ order[Of(w)] \in SettledOrders /\ (hook[w].again => Of(w) \in acked)
  BY Typed DEF PaymentInv, HooksOK, Of

\* A delivery that is not running is a delivery.
LEMMA IdleHookFacts == IdleHook \in Hook /\ IdleHook.pc = "idle"
  BY DEF IdleHook, Hook

\* What a step of a delivery that stores nothing has in common.
LEMMA PlainHookMoves ==
  ASSUME PaymentInv, NEW w \in Hooks, NEW h \in Hook, hook' = [hook EXCEPT ![w] = h],
         UNCHANGED shop, record' = record, acked' = acked, debt' = debt,
         resends' \in 0..MaxResends, faults' \in 0..MaxFaults, lost' = lost,
         repeated' \subseteq Requests,
         backend = "memory" => repeated' \subseteq lost,
         h.pc # "idle" => /\ h.payment \in Requests /\ order[h.payment] \in SettledOrders
                          /\ h.again => h.payment \in acked,
         Past(h) => \/ Past(hook[w]) /\ Of(w) = h.payment /\ (Late(h) => Late(hook[w]))
                    \/ order[h.payment] # "success"
  PROVE  PaymentInv'
<1>1. UNCHANGED <<backend, paid, order, fallback, req, known, misled, cache, late>>
  BY DEF shop, market, invoicePort, requests
<1>2. CacheKept
  BY <1>1 DEF CacheKept
<1>3. /\ cache' \in [Invoices -> Status \cup {"none"}] /\ late' \subseteq Invoices
      /\ record' \in [Requests -> {"none", "date", "string"}] /\ debt' \in BOOLEAN
      /\ lost' \subseteq Requests /\ acked' \subseteq Requests
  BY <1>1, Typed
<1>4. \A p \in Requests : record'[p] # "none" => p \in acked'
  BY DEF PaymentInv, HooksOK
<1>5. ResultsKept'
  BY <1>1 DEF PaymentInv, ResultsKept
<1>6. Late(h) => Past(h)
  BY DEF Late, Past
<1> QED BY <1>1, <1>2, <1>3, <1>4, <1>5, <1>6, HookMoves

\* A webhook arrives, for the first time or again.
LEMMA DeliverKeepsInv ==
  ASSUME PaymentInv, NEW w \in Hooks, NEW p \in Requests, Deliver(w, p)
  PROVE  PaymentInv'
<1>0. PICK b \in BOOLEAN : b = (p \in acked)
  <2>1. CASE p \in acked
    <3>1. TRUE = (p \in acked)
      BY <2>1
    <3> QED BY <3>1
  <2>2. CASE p \notin acked
    <3>1. FALSE = (p \in acked)
      BY <2>2
    <3> QED BY <3>1
  <2> QED BY <2>1, <2>2
<1>1. PICK h : h = [pc |-> "check", payment |-> p, again |-> b]
  OBVIOUS
<1>2. /\ order[p] \in SettledOrders /\ hook' = [hook EXCEPT ![w] = h]
      /\ UNCHANGED <<shop, debt, faults, record, acked, repeated, lost>>
      /\ resends' = resends \/ (resends < MaxResends /\ resends' = resends + 1)
  BY <1>0, <1>1 DEF Deliver, SettledOrders
<1>3. h \in Hook /\ h.pc = "check" /\ h.payment = p /\ (h.again => p \in acked)
  <2>1. h \in Hook /\ h.pc = "check" /\ h.payment = p /\ h.again = b
    BY <1>0, <1>1 DEF Hook
  <2>2. b => p \in acked
    BY <1>0, Zenon
  <2> QED BY <2>1, <2>2, Zenon
<1>4. resends' \in 0..MaxResends
  BY <1>2, Typed, PaymentAssumption DEF PaymentAssumption
<1>5. ~Past(h)
  BY <1>3 DEF Past
<1>6. /\ faults' \in 0..MaxFaults /\ repeated' \subseteq Requests
      /\ backend = "memory" => repeated' \subseteq lost
  BY <1>2, Typed DEF PaymentInv, ResultsKept
<1> QED BY <1>2, <1>3, <1>4, <1>5, <1>6, PlainHookMoves

\* A duplicate of a stored result was acknowledged before.
LEMMA DuplicateKeepsInv == ASSUME PaymentInv, NEW w \in Hooks, Duplicate(w) PROVE PaymentInv'
<1>1. /\ hook[w].pc = "check" /\ record[Of(w)] = "date" /\ hook' = [hook EXCEPT ![w] = IdleHook]
      /\ acked' = acked \cup {Of(w)}
      /\ UNCHANGED <<shop, debt, faults, record, resends, repeated, lost>>
  BY DEF Duplicate, On, GetExisting, Free
<1>2. acked' = acked
  BY <1>1, HookFacts DEF PaymentInv, HooksOK
<1>3. /\ faults' \in 0..MaxFaults /\ resends' \in 0..MaxResends /\ repeated' \subseteq Requests
      /\ backend = "memory" => repeated' \subseteq lost
  BY <1>1, Typed DEF PaymentInv, ResultsKept
<1>4. ~Past(IdleHook)
  BY IdleHookFacts DEF Past
<1> QED BY <1>1, <1>2, <1>3, <1>4, IdleHookFacts, PlainHookMoves

\* Go: the delivery moves to position l.
LEMMA GoRecord ==
  ASSUME PaymentInv, NEW w \in Hooks, NEW l \in {"bustInvoice", "bustDebt", "notify", "store"}, Go(w, l)
  PROVE  \E h \in Hook : /\ hook' = [hook EXCEPT ![w] = h] /\ h.pc = l
                         /\ h.payment = Of(w) /\ h.again = hook[w].again
<1>1. PICK h : h = [hook[w] EXCEPT !.pc = l]
  OBVIOUS
<1>2. hook[w] \in Hook
  BY Typed
<1>3. h \in Hook /\ h.pc = l /\ h.payment = hook[w].payment /\ h.again = hook[w].again
  BY <1>1, <1>2 DEF Hook
<1>4. hook' = [hook EXCEPT ![w] = h]
  BY <1>1 DEF Go
<1> QED BY <1>3, <1>4 DEF Of

\* An acknowledged payment that is processed again has lost its result.
LEMMA ProcessKeepsInv == ASSUME PaymentInv, NEW w \in Hooks, Process(w) PROVE PaymentInv'
<1>1. /\ hook[w].pc = "check" /\ record[Of(w)] # "date"
      /\ Go(w, IF Succeeded(Of(w)) THEN "bustInvoice" ELSE "notify")
      /\ repeated' = IF hook[w].again THEN repeated \cup {Of(w)} ELSE repeated
      /\ UNCHANGED <<shop, debt, faults, record, acked, resends, lost>>
  BY DEF Process, On, GetExisting
<1>2. /\ Of(w) \in Requests /\ order[Of(w)] \in SettledOrders /\ (hook[w].again => Of(w) \in acked)
  BY <1>1, HookFacts
<1>3. PICK l \in {"bustInvoice", "notify"} :
        Go(w, l) /\ (l = "notify" => order[Of(w)] # "success")
  BY <1>1 DEF Succeeded
<1>4. PICK h \in Hook : /\ hook' = [hook EXCEPT ![w] = h] /\ h.pc = l
                        /\ h.payment = Of(w) /\ h.again = hook[w].again
  BY <1>3, GoRecord
<1>5. Past(h) => order[h.payment] # "success"
  BY <1>3, <1>4 DEF Past
<1>6. repeated' \subseteq Requests
  BY <1>1, <1>2, Typed
<1>7. backend = "memory" => repeated' \subseteq lost
  BY <1>1, <1>2 DEF PaymentInv, ResultsKept
<1>8. faults' \in 0..MaxFaults /\ resends' \in 0..MaxResends
  BY <1>1, Typed
<1> QED BY <1>1, <1>2, <1>4, <1>5, <1>6, <1>7, <1>8, PlainHookMoves

\* The webhook's first invalidation.
LEMMA BustInvoiceKeepsInv == ASSUME PaymentInv, NEW w \in Hooks, BustInvoice(w) PROVE PaymentInv'
<1>1. /\ hook[w].pc = "bustInvoice" /\ Go(w, "bustDebt")
      /\ cache' = [i \in Invoices |-> "none"] /\ late' = {}
      /\ UNCHANGED <<backend, paid, order, fallback, req, known, misled>>
      /\ UNCHANGED <<debt, faults, record, acked, resends, repeated, lost>>
  BY DEF BustInvoice, On, market, requests
<1>2. PICK h \in Hook : /\ hook' = [hook EXCEPT ![w] = h] /\ h.pc = "bustDebt"
                        /\ h.payment = Of(w) /\ h.again = hook[w].again
  BY <1>1, GoRecord
<1>3. /\ Of(w) \in Requests /\ order[Of(w)] \in SettledOrders /\ (hook[w].again => Of(w) \in acked)
  BY <1>1, HookFacts
<1>4. CacheKept /\ \A i \in Invoices : cache'[i] = "none"
  BY <1>1 DEF CacheKept
<1>5. /\ cache' \in [Invoices -> Status \cup {"none"}] /\ late' \subseteq Invoices
      /\ record' \in [Requests -> {"none", "date", "string"}] /\ debt' \in BOOLEAN
      /\ lost' \subseteq Requests /\ acked' \subseteq Requests /\ repeated' \subseteq Requests
      /\ resends' \in 0..MaxResends /\ faults' \in 0..MaxFaults
  BY <1>1, Typed
<1>6. (\A p \in Requests : record'[p] # "none" => p \in acked') /\ ResultsKept'
  BY <1>1 DEF PaymentInv, HooksOK, ResultsKept
<1>7. ~Late(h)
  BY <1>2 DEF Late
<1> QED BY <1>1, <1>2, <1>3, <1>4, <1>5, <1>6, <1>7, HookMoves

\* The webhook's second invalidation.
LEMMA BustDebtKeepsInv == ASSUME PaymentInv, NEW w \in Hooks, BustDebt(w) PROVE PaymentInv'
<1>1. /\ hook[w].pc = "bustDebt" /\ Go(w, "notify") /\ debt' = FALSE
      /\ UNCHANGED <<backend, paid, order, fallback, req, known, misled, cache, late>>
      /\ UNCHANGED <<faults, record, acked, resends, repeated, lost>>
  BY DEF BustDebt, On, shop, market, invoicePort, requests
<1>2. PICK h \in Hook : /\ hook' = [hook EXCEPT ![w] = h] /\ h.pc = "notify"
                        /\ h.payment = Of(w) /\ h.again = hook[w].again
  BY <1>1, GoRecord
<1>3. /\ Of(w) \in Requests /\ order[Of(w)] \in SettledOrders /\ (hook[w].again => Of(w) \in acked)
  BY <1>1, HookFacts
<1>4. CacheKept /\ Past(hook[w])
  BY <1>1 DEF CacheKept, Past
<1>5. /\ cache' \in [Invoices -> Status \cup {"none"}] /\ late' \subseteq Invoices
      /\ record' \in [Requests -> {"none", "date", "string"}]
      /\ lost' \subseteq Requests /\ acked' \subseteq Requests /\ repeated' \subseteq Requests
      /\ resends' \in 0..MaxResends /\ faults' \in 0..MaxFaults
  BY <1>1, Typed
<1>6. (\A p \in Requests : record'[p] # "none" => p \in acked') /\ ResultsKept'
  BY <1>1 DEF PaymentInv, HooksOK, ResultsKept
<1> QED BY <1>1, <1>2, <1>3, <1>4, <1>5, <1>6, HookMoves

\* An invalidation fails: the delivery is not acknowledged.
LEMMA BustFailsKeepsInv == ASSUME PaymentInv, NEW w \in Hooks, BustFails(w) PROVE PaymentInv'
<1>1. /\ hook' = [hook EXCEPT ![w] = IdleHook] /\ faults < MaxFaults /\ faults' = faults + 1
      /\ UNCHANGED <<shop, debt, record, acked, resends, repeated, lost>>
  BY DEF BustFails, Free
<1>2. faults' \in 0..MaxFaults
  BY <1>1, Typed, PaymentAssumption DEF PaymentAssumption
<1>3. /\ resends' \in 0..MaxResends /\ repeated' \subseteq Requests
      /\ backend = "memory" => repeated' \subseteq lost
  BY <1>1, Typed DEF PaymentInv, ResultsKept
<1>4. ~Past(IdleHook)
  BY IdleHookFacts DEF Past
<1> QED BY <1>1, <1>2, <1>3, <1>4, IdleHookFacts, PlainHookMoves

\* The notification, whose failure does not stop the acknowledgement.
LEMMA NotifyKeepsInv == ASSUME PaymentInv, NEW w \in Hooks, Notify(w) PROVE PaymentInv'
<1>1. /\ hook[w].pc = "notify" /\ Go(w, "store")
      /\ UNCHANGED <<shop, debt, faults, record, acked, resends, repeated, lost>>
  BY DEF Notify, On
<1>2. PICK h \in Hook : /\ hook' = [hook EXCEPT ![w] = h] /\ h.pc = "store"
                        /\ h.payment = Of(w) /\ h.again = hook[w].again
  BY <1>1, GoRecord
<1>3. /\ Of(w) \in Requests /\ order[Of(w)] \in SettledOrders /\ (hook[w].again => Of(w) \in acked)
  BY <1>1, HookFacts
<1>4. /\ resends' \in 0..MaxResends /\ faults' \in 0..MaxFaults /\ repeated' \subseteq Requests
      /\ backend = "memory" => repeated' \subseteq lost
  BY <1>1, Typed DEF PaymentInv, ResultsKept
<1>5. Past(hook[w]) /\ Late(hook[w])
  BY <1>1 DEF Past, Late
<1> QED BY <1>1, <1>2, <1>3, <1>4, <1>5, PlainHookMoves

\* Only a delivery that has made its payment visible is answered 200.
LEMMA StoreKeepsInv == ASSUME PaymentInv, NEW w \in Hooks, Store(w) PROVE PaymentInv'
<1>1. /\ hook[w].pc = "store" /\ hook' = [hook EXCEPT ![w] = IdleHook]
      /\ acked' = acked \cup {Of(w)}
      /\ UNCHANGED <<backend, paid, order, fallback, req, known, misled, cache, late>>
      /\ UNCHANGED <<debt, faults, resends, repeated>>
      /\ \/ /\ record' = [record EXCEPT ![Of(w)] = IF backend = "redis" THEN "string" ELSE "date"]
            /\ lost' = lost
         \/ backend = "redis" /\ lost' = lost \cup {Of(w)} /\ record' = record
  BY DEF Store, On, Free, shop, market, invoicePort, requests
<1>2. Of(w) \in Requests
  BY <1>1, HookFacts
<1>3. CacheKept
  BY <1>1 DEF CacheKept
<1>4. /\ cache' \in [Invoices -> Status \cup {"none"}] /\ late' \subseteq Invoices
      /\ debt' \in BOOLEAN /\ lost' \subseteq Requests /\ acked' \subseteq Requests
      /\ repeated' \subseteq Requests /\ resends' \in 0..MaxResends /\ faults' \in 0..MaxFaults
  BY <1>1, <1>2, Typed
<1>5. record' \in [Requests -> {"none", "date", "string"}]
  BY <1>1, <1>2, Typed
<1>6. \A p \in Requests : record'[p] # "none" => p \in acked'
  BY <1>1, <1>2, Typed DEF PaymentInv, HooksOK
<1>7. ResultsKept'
  <2>1. SUFFICES ASSUME backend = "memory"
                 PROVE  (\A p \in acked' : record'[p] = "date" \/ p \in lost') /\ repeated' \subseteq lost'
    BY <1>1 DEF ResultsKept
  <2>2. record' = [record EXCEPT ![Of(w)] = "date"] /\ lost' = lost
    BY <1>1, <2>1
  <2>3. \A p \in acked : p \in Requests /\ (record[p] = "date" \/ p \in lost)
    BY <2>1, Typed DEF PaymentInv, ResultsKept
  <2>4. repeated \subseteq lost
    BY <2>1 DEF PaymentInv, ResultsKept
  <2> QED BY <1>1, <1>2, <2>2, <2>3, <2>4, Typed
<1>8. ~Past(IdleHook) /\ ~Late(IdleHook)
  BY IdleHookFacts DEF Past, Late
<1> QED BY <1>1, <1>3, <1>4, <1>5, <1>6, <1>7, <1>8, IdleHookFacts, HookMoves

-----------------------------------------------------------------------------
(* The environment, and the theorem *)

\* Entries run out.
LEMMA ExpiryKeepsInv ==
  ASSUME PaymentInv,
         \/ \E i \in Invoices : ExpireInvoice(i)
         \/ \E p \in Requests : ExpireRecord(p)
         \/ ExpireDebt
         \/ UNCHANGED vars
  PROVE  PaymentInv'
<1>1. UNCHANGED <<backend, paid, order, fallback, req, known, misled, hook, acked, resends,
                  repeated, faults>>
  BY DEF ExpireInvoice, ExpireRecord, ExpireDebt, vars, shop, market, requests, webhooks, invoicePort
<1>2. /\ cache' \in [Invoices -> Status \cup {"none"}] /\ late' \subseteq Invoices /\ CacheKept
  <2>1. CASE UNCHANGED <<cache, late>>
    BY <2>1, Typed DEF CacheKept
  <2>2. ASSUME NEW i \in Invoices, ExpireInvoice(i)
        PROVE  cache' \in [Invoices -> Status \cup {"none"}] /\ late' \subseteq Invoices /\ CacheKept
    <3>1. cache' = [cache EXCEPT ![i] = "none"] /\ late' = late \ {i}
      BY <2>2 DEF ExpireInvoice
    <3>2. cache' \in [Invoices -> Status \cup {"none"}] /\ late' \subseteq Invoices
      BY <3>1, Typed
    <3>3. CacheKept
      BY <3>1, Typed DEF CacheKept
    <3> QED BY <3>2, <3>3
  <2> QED BY <2>1, <2>2 DEF ExpireRecord, ExpireDebt, vars, shop, invoicePort
<1>3. /\ record' \in [Requests -> {"none", "date", "string"}] /\ lost' \subseteq Requests
      /\ lost \subseteq lost'
      /\ \A p \in Requests : record'[p] = record[p] \/ (record'[p] = "none" /\ p \in lost')
  <2>1. CASE UNCHANGED <<record, lost>>
    BY <2>1, Typed
  <2>2. ASSUME NEW p \in Requests, record' = [record EXCEPT ![p] = "none"], lost' = lost \cup {p}
        PROVE  /\ record' \in [Requests -> {"none", "date", "string"}] /\ lost' \subseteq Requests
               /\ lost \subseteq lost'
               /\ \A r \in Requests : record'[r] = record[r] \/ (record'[r] = "none" /\ r \in lost')
    BY <2>2, Typed
  <2> QED BY <2>1, <2>2 DEF ExpireInvoice, ExpireRecord, ExpireDebt, vars, webhooks
<1>4. debt' \in BOOLEAN /\ (debt' => debt)
  <2>1. debt' = debt \/ debt' = FALSE
    BY DEF ExpireInvoice, ExpireRecord, ExpireDebt, vars
  <2>2. CASE debt' = debt
    <3>1. debt \in BOOLEAN
      BY Typed
    <3> QED BY <2>2, <3>1
  <2>3. CASE debt' = FALSE
    BY <2>3
  <2> QED BY <2>1, <2>2, <2>3
<1>5. TypeOK'
  BY <1>1, <1>2, <1>3, <1>4, Typed DEF TypeOK
<1>6. RequestsOK' /\ KnownStays'
  BY <1>1 DEF PaymentInv, RequestsOK, RequestOK, KnownStays, Succeeded, Covered
<1>7. HooksOK'
  BY <1>1, <1>3 DEF PaymentInv, HooksOK, Succeeded, Covered, Of
<1>8. InvoicesVisible'
  <2>1. \A p \in Requests : (Succeeded(p)' <=> Succeeded(p)) /\ (Shown(p)' <=> Shown(p))
    BY <1>1 DEF Succeeded, Shown, Of
  <2> QED BY <1>2, <2>1, VisibleStays DEF InvoicesVisible, Covered
<1>9. DebtExplained'
  BY <1>1, <1>4 DEF PaymentInv, DebtExplained, Succeeded, Of
<1>10. ResultsKept'
  BY <1>1, <1>3, Typed DEF PaymentInv, ResultsKept
<1> QED BY <1>5, <1>6, <1>7, <1>8, <1>9, <1>10 DEF PaymentInv

\* A crash ends requests and deliveries; what Redis keeps, it keeps whole.
LEMMA CrashKeepsInv == ASSUME PaymentInv, Crash PROVE PaymentInv'
<1>1. /\ UNCHANGED <<backend, paid, order, known, misled, acked, resends, repeated>>
      /\ faults < MaxFaults /\ faults' = faults + 1 /\ fallback' = None
      /\ hook' = [w \in Hooks |-> IdleHook]
      /\ req' = [q \in Requests |-> IF req[q].pc = "new" THEN req[q]
                                    ELSE [req[q] EXCEPT !.pc = "done", !.got = None]]
      /\ \/ UNCHANGED <<cache, late, record, lost, debt>>
         \/ /\ cache' = [i \in Invoices |-> "none"] /\ late' = {}
            /\ record' = [p \in Requests |-> "none"] /\ lost' = Requests /\ debt' = FALSE
  BY DEF Crash, At, market
<1>2. ASSUME NEW q \in Requests
      PROVE  /\ req'[q] \in Request /\ req'[q].summed = req[q].summed
             /\ RequestOK(q, req'[q], order[q], known[q].acked, q \in misled)
  <2>1. req[q] \in Request /\ RequestOK(q, req[q], order[q], known[q].acked, q \in misled)
    BY RequestFacts
  <2>2. CASE req[q].pc = "new"
    BY <1>1, <2>1, <2>2
  <2>3. CASE req[q].pc # "new"
    <3>1. PICK x : x = [req[q] EXCEPT !.pc = "done", !.got = None]
      OBVIOUS
    <3>2. x \in Request /\ x.pc = "done" /\ x.summed = req[q].summed
      BY <2>1, <3>1 DEF Request
    <3>3. req'[q] = x
      BY <1>1, <2>3, <3>1
    <3> QED BY <2>1, <3>2, <3>3 DEF RequestOK
  <2> QED BY <2>2, <2>3
<1>3. req' \in [Requests -> Request]
  <2>1. req' = [q \in Requests |-> req'[q]]
    BY <1>1
  <2> QED BY <1>2, <2>1
<1>4. /\ cache' \in [Invoices -> Status \cup {"none"}] /\ late' \subseteq Invoices /\ CacheKept
      /\ record' \in [Requests -> {"none", "date", "string"}] /\ lost' \subseteq Requests
      /\ debt' \in BOOLEAN /\ (debt' => debt)
      /\ (record' = record /\ lost' = lost) \/ (record' = [p \in Requests |-> "none"] /\ lost' = Requests)
  <2>1. CASE UNCHANGED <<cache, late, record, lost, debt>>
    BY <2>1, Typed DEF CacheKept
  <2>2. CASE /\ cache' = [i \in Invoices |-> "none"] /\ late' = {}
             /\ record' = [p \in Requests |-> "none"] /\ lost' = Requests /\ debt' = FALSE
    BY <2>2 DEF CacheKept
  <2> QED BY <1>1, <2>1, <2>2
<1>5. TypeOK'
  <2>1. faults' \in 0..MaxFaults
    <3>1. faults' = faults + 1 /\ faults < MaxFaults /\ faults \in 0..MaxFaults /\ MaxFaults \in Nat
      BY <1>1, Typed, PaymentAssumption DEF PaymentAssumption
    <3> QED BY <3>1
  <2>2. hook' \in [Hooks -> Hook]
    BY <1>1, IdleHookFacts
  <2>3. \A q \in Requests : Len(req'[q].summed) <= Len(InvoicesOf[q])
    BY <1>2, Typed
  <2> QED BY <1>1, <1>3, <1>4, <2>1, <2>2, <2>3, Typed DEF TypeOK
<1>6. RequestsOK'
  BY <1>1, <1>2 DEF RequestsOK, RequestOK, Covered
<1>7. KnownStays'
  BY <1>1 DEF PaymentInv, KnownStays, Succeeded, Covered
<1>8. \A w \in Hooks : hook'[w].pc = "idle"
  BY <1>1, IdleHookFacts
<1>9. HooksOK'
  <2>1. \A p \in Requests : record'[p] # "none" => p \in acked
    BY <1>4 DEF PaymentInv, HooksOK
  <2> QED BY <1>1, <1>8, <2>1 DEF PaymentInv, HooksOK, Succeeded, Covered, Of
<1>10. InvoicesVisible'
  <2>1. \A p \in Requests : (Succeeded(p)' <=> Succeeded(p)) /\ (Shown(p)' => Shown(p))
    BY <1>1, <1>8 DEF Succeeded, Shown, Of
  <2> QED BY <1>4, <2>1, VisibleStays DEF InvoicesVisible, Covered
<1>11. DebtExplained'
  <2>1. debt' => \E p \in Requests \ acked : Succeeded(p)
    BY <1>4 DEF PaymentInv, DebtExplained
  <2> QED BY <1>1, <1>8, <2>1 DEF DebtExplained, Succeeded, Of
<1>12. ResultsKept'
  BY <1>1, <1>4, Typed DEF PaymentInv, ResultsKept
<1> QED BY <1>5, <1>6, <1>7, <1>9, <1>10, <1>11, <1>12 DEF PaymentInv

\* No payment, no delivery and no cached invoice at the start.
LEMMA PaymentInvInit == Init => PaymentInv
<1> SUFFICES ASSUME Init PROVE PaymentInv
  OBVIOUS
<1>1. NewRequest \in Request /\ NewRequest.pc = "new" /\ NewRequest.summed = <<>>
  BY DEF NewRequest, Request
<1>2. \A q \in Requests : req[q] = NewRequest /\ Len(req[q].summed) <= Len(InvoicesOf[q])
  BY <1>1, CoveredFacts DEF Init
<1>3. 0 \in 0..MaxResends /\ 0 \in 0..MaxFaults
  BY PaymentAssumption DEF PaymentAssumption
<1>4. [paid |-> {}, acked |-> {}] \in [paid : SUBSET Invoices, acked : SUBSET Invoices]
  OBVIOUS
<1>5. /\ req \in [Requests -> Request] /\ hook \in [Hooks -> Hook]
      /\ known \in [Requests -> [paid : SUBSET Invoices, acked : SUBSET Invoices]]
      /\ \A q \in Requests : known[q].acked = {}
  BY <1>1, <1>4, IdleHookFacts DEF Init
<1>6. TypeOK
  BY <1>2, <1>3, <1>5 DEF Init, TypeOK, Orders
<1>7. ASSUME NEW q \in Requests
      PROVE  RequestOK(q, NewRequest, "none", {}, FALSE)
  BY <1>1 DEF RequestOK
<1>8. RequestsOK
  <2>1. \A q \in Requests : order[q] = "none" /\ q \notin misled
    BY DEF Init
  <2> QED BY <1>2, <1>5, <1>7, <2>1 DEF RequestsOK, RequestOK
<1>9. KnownStays
  BY <1>5 DEF KnownStays
<1>10. /\ acked = {} /\ debt = FALSE /\ repeated = {}
       /\ \A q \in Requests : order[q] = "none" /\ record[q] = "none"
       /\ \A w \in Hooks : hook[w].pc = "idle"
  BY IdleHookFacts DEF Init
<1>11. HooksOK /\ InvoicesVisible /\ DebtExplained /\ ResultsKept
  BY <1>10 DEF HooksOK, InvoicesVisible, DebtExplained, ResultsKept, Succeeded
<1> QED BY <1>6, <1>8, <1>9, <1>11 DEF PaymentInv

\* Every step of a request, a delivery, the worker and the service keeps the
\* invariant.
LEMMA PaymentInvStep == PaymentInv /\ [Next]_vars => PaymentInv'
<1> SUFFICES ASSUME PaymentInv, [Next]_vars PROVE PaymentInv'
  OBVIOUS
<1>1. ASSUME NEW q \in Requests, Pay(q) PROVE PaymentInv'
  BY <1>1, StartKeepsInv, VerifyHitKeepsInv, VerifyMissKeepsInv, VerifyServeKeepsInv,
     VerifySetKeepsInv, VerifyFailsKeepsInv, CreateKeepsInv, ReplayCreateKeepsInv,
     SettleKeepsInv DEF Pay
<1>2. ASSUME NEW w \in Hooks, HandleWebhook(w) PROVE PaymentInv'
  BY <1>2, DuplicateKeepsInv, ProcessKeepsInv, BustInvoiceKeepsInv, BustDebtKeepsInv,
     BustFailsKeepsInv, NotifyKeepsInv, StoreKeepsInv DEF HandleWebhook
<1>3. ASSUME NEW w \in Hooks, NEW p \in Requests, Deliver(w, p) PROVE PaymentInv'
  BY <1>3, DeliverKeepsInv
<1>4. CASE \/ \E i \in Invoices : ExpireInvoice(i)
           \/ \E p \in Requests : ExpireRecord(p)
           \/ ExpireDebt
           \/ UNCHANGED vars
  BY <1>4, ExpiryKeepsInv
<1>5. CASE Crash
  BY <1>5, CrashKeepsInv
<1> QED BY <1>1, <1>2, <1>3, <1>4, <1>5 DEF Next

\* The strengthened invariant holds throughout.
LEMMA PaymentInvAlways == Spec => []PaymentInv
  BY PaymentInvInit, PaymentInvStep, PTL DEF Spec

\* Through overlapping requests, repeated and concurrent webhook deliveries, expiry,
\* failed invalidations and crashes, an acknowledged payment is visible in the
\* invoice and debt caches, its invoices are not offered again to a request that
\* was not misled, and in memory its webhook is processed again only when its
\* result was lost (createPayment, createBatchPayment, handleWebhook).
THEOREM PaymentIsSafe == Spec => []PaymentSafe
<1>1. PaymentInv => PaymentSafe
  <2> SUFFICES ASSUME PaymentInv PROVE PaymentSafe
    OBVIOUS
  <2>1. SettledIsVisible
    <3>1. \A p \in acked : p \in Requests /\ Shown(p)
      BY Typed DEF Shown
    <3> QED BY <3>1 DEF PaymentInv, InvoicesVisible, DebtExplained, SettledIsVisible
  <2>2. PaidStaysPaid
    BY RequestFacts DEF PaidStaysPaid, RequestOK
  <2> QED BY <2>1, <2>2 DEF PaymentInv, PaymentSafe, ResultsKept, DuplicatesIgnoredInMemory,
                            DuplicatesIgnored
<1> QED BY <1>1, PaymentInvAlways, PTL
====
