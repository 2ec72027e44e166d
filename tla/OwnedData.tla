------------------------------ MODULE OwnedData ------------------------------
(***************************************************************************)
(* A customer's own records as the domain services read and change them    *)
(* through PortRegistry.execute, with the owner-scoped adapters behind the *)
(* ports: invoices, meters, contracts, e-contract dossiers, incident       *)
(* reports and the profile.  A behaviour is about one of the ports, its    *)
(* read cache and its fallback entry; its circuit is PortBreaker's subject *)
(* and the replay queue PortRegistry's.  A service validates its input,    *)
(* makes one call and returns its data, except updateProfile, which makes  *)
(* two.  A step ends at an await.  Methods that answer a fixture whoever   *)
(* asks (PDFs, tariffs, readings, alerts) are left out.                    *)
(***************************************************************************)
EXTENDS Integers, Sequences, FiniteSets, Selection

CONSTANTS Callers,    \* concurrent requests
          Customers,  \* bound customers, the customerId of a request
          FirstRows,  \* the records at the start, a sequence of [id, owner, version]
          AskedIds,   \* record ids a caller may name
          ListSizes,  \* values of limit
          MaxAsks     \* bound on the requests made

\* EcontractClientMock has its dossier from the start; a limit is at least 1
\* (getList: Math.max(1, limit)).
Row == [id : Nat, owner : Customers, version : Nat]
ASSUME OwnedAssumption ==
  /\ Customers # {}
  /\ FirstRows \in Seq(Row) /\ FirstRows # << >>
  /\ AskedIds \subseteq Nat /\ ListSizes \subseteq Nat \ {0}

Ports == {"invoice", "meter", "contract", "econtract", "incident", "customer-profile"}

VARIABLES
  askedPort, \* the port this behaviour is about
  records,   \* the downstream's records, in order
  portCache, \* the port's read cache: a set of [key, data]
  lastData,  \* the port's entry in the fallback map
  sweeps,    \* number of invalidations under way
  caller,    \* caller[c]: position, call, data in hand and answer
  asks       \* number of requests made

ownedVars == <<askedPort, records, portCache, lastData, sweeps, caller, asks>>

\* A port call: method and params.
Call(m, k, id, page, limit) == [method |-> m, customer |-> k, id |-> id, page |-> page, limit |-> limit]
Anyone == CHOOSE k \in Customers : TRUE
NoPortCall == Call("none", Anyone, 0, 0, 0)

\* A call's data, known by the call it answers.
Data(call, found) == [call |-> call, records |-> found]
NoData == Data(NoPortCall, << >>)

Resting == [pc |-> "idle", call |-> NoPortCall, refetch |-> FALSE, data |-> NoData,
            kind |-> "none"]

OwnedInit ==
  /\ askedPort \in Ports
  /\ records = FirstRows
  /\ portCache = {} /\ lastData = NoData /\ sweeps = 0
  /\ caller = [c \in Callers |-> Resting]
  /\ asks = 0

-----------------------------------------------------------------------------
(* the services: the calls each makes for customer k *)

BillingCalls(k) ==
  {Call("get-list", k, 0, page, limit) : page \in 1..2, limit \in ListSizes}
  \cup {Call("get-by-id", k, id, 0, 0) : id \in AskedIds}

UsageCalls(k) ==
  {Call("get-meter-by-customer", k, 0, 0, 0)}
  \cup {Call("get-meter-history", k, id, 0, 0) : id \in AskedIds}

ContractCalls(k) ==
  {Call("get-contracts", k, 0, 0, 0)}
  \cup {Call("get-contract-detail", k, id, 0, 0) : id \in AskedIds}

EcontractCalls(k) ==
  {Call(m, k, id, 0, 0) : m \in {"get-contract", "sign-contract"}, id \in AskedIds}

ReportCalls(k) ==
  {Call("create-report", k, 0, 0, 0), Call("get-my-reports", k, 0, 0, 0)}
  \cup {Call("get-report-detail", k, id, 0, 0) : id \in AskedIds}

ProfileCalls(k) == {Call(m, k, 0, 0, 0) : m \in {"get-profile", "update-profile"}}

ServiceCalls(k) ==
  CASE askedPort = "invoice" -> BillingCalls(k)
    [] askedPort = "meter" -> UsageCalls(k)
    [] askedPort = "contract" -> ContractCalls(k)
    [] askedPort = "econtract" -> EcontractCalls(k)
    [] askedPort = "incident" -> ReportCalls(k)
    [] askedPort = "customer-profile" -> ProfileCalls(k)

OwnedAt(c, l) == caller[c].pc = l

Ask(c, call) ==
  /\ OwnedAt(c, "idle") /\ asks < MaxAsks
  /\ asks' = asks + 1
  /\ caller' = [caller EXCEPT ![c] =
       [Resting EXCEPT !.pc = "get", !.call = call, !.refetch = (call.method = "update-profile")]]
  /\ UNCHANGED <<askedPort, records, portCache, lastData, sweeps>>

\* execute answers c with data d.  updateProfile goes on to read the profile,
\* whatever kind of answer its update got.
Answer(c, d, kind) ==
  caller' = [caller EXCEPT ![c] =
    IF caller[c].refetch
    THEN [caller[c] EXCEPT !.pc = "get", !.refetch = FALSE, !.data = NoData,
                           !.call = [caller[c].call EXCEPT !.method = "get-profile"]]
    ELSE [caller[c] EXCEPT !.pc = "done", !.data = d, !.kind = kind]]

-----------------------------------------------------------------------------
(* the adapters: the records an answer carries, or none found *)

\* The records of k: getByCustomer, getContracts, getMyReports.
OwnedBy(k) == Filtered(records, {i \in DOMAIN records : records[i].owner = k})

\* The record with this id, if it is k's.
Owned(k, id) ==
  LET own == OwnedBy(k) IN Filtered(own, {i \in DOMAIN own : own[i].id = id})

AtMost(a, b) == IF a < b THEN a ELSE b

\* getList: owned.slice(start, start + pageSize).
Slice(list, page, limit) ==
  SubSeq(list, (page - 1) * limit + 1, AtMost(page * limit, Len(list)))

TotalPages(list, limit) ==
  IF list = << >> THEN 1 ELSE (Len(list) + limit - 1) \div limit

InvoiceAdapter(call) ==
  IF call.method = "get-list" THEN Slice(OwnedBy(call.customer), call.page, call.limit)
  ELSE Owned(call.customer, call.id)

MeterAdapter(call) ==
  IF call.method = "get-meter-by-customer" THEN OwnedBy(call.customer)
  ELSE Owned(call.customer, call.id)

ContractAdapter(call) ==
  IF call.method = "get-contracts" THEN OwnedBy(call.customer)
  ELSE Owned(call.customer, call.id)

\* There is one dossier, the first record.
EcontractAdapter(call) ==
  IF records[1].id = call.id /\ records[1].owner = call.customer THEN <<records[1]>> ELSE << >>

\* createReport answers with the report it added, of the next number.
NewReport(k) == [id |-> Len(records) + 1, owner |-> k, version |-> 1]

IncidentAdapter(call) ==
  CASE call.method = "create-report" -> <<NewReport(call.customer)>>
    [] call.method = "get-my-reports" -> OwnedBy(call.customer)
    [] OTHER -> Owned(call.customer, call.id)

\* get-profile answers null for an unknown id, without an error; the customer's
\* profile is its first record.
ProfileAdapter(call) == Slice(OwnedBy(call.customer), 1, 1)

Adapter(call) ==
  CASE askedPort = "invoice" -> InvoiceAdapter(call)
    [] askedPort = "meter" -> MeterAdapter(call)
    [] askedPort = "contract" -> ContractAdapter(call)
    [] askedPort = "econtract" -> EcontractAdapter(call)
    [] askedPort = "incident" -> IncidentAdapter(call)
    [] askedPort = "customer-profile" -> ProfileAdapter(call)

\* NotFoundException, thrown alike for an id nobody has and for another customer's.
NotFound(call) == call.id # 0 /\ Adapter(call) = << >>

\* What a write does to the records.
Bumped(row) == [row EXCEPT !.version = @ + 1]
AfterWrite(call) ==
  IF call.method = "create-report" THEN Append(records, NewReport(call.customer))
  ELSE [i \in DOMAIN records |-> IF \E j \in DOMAIN Adapter(call) : Adapter(call)[j] = records[i]
                              THEN Bumped(records[i]) ELSE records[i]]

-----------------------------------------------------------------------------
(* PortRegistry.execute *)

\* isMutationMethod, on the methods above.
IsMutation(call) == call.method \in {"create-report", "update-profile", "sign-contract"}

\* Mutant: the key leaves out the customer.
CacheKeyShared(call) == [call EXCEPT !.customer = Anyone]

\* buildCacheKey hashes method and params, customerId among them.
CacheKey(call) == call

CacheHit(c) ==
  /\ OwnedAt(c, "get") /\ ~IsMutation(caller[c].call)
  /\ \E e \in portCache : e.key = CacheKey(caller[c].call) /\ Answer(c, e.data, "data")
  /\ UNCHANGED <<askedPort, records, portCache, lastData, sweeps, asks>>

CacheMiss(c) ==
  /\ OwnedAt(c, "get")
  /\ IsMutation(caller[c].call) \/ ~\E e \in portCache : e.key = CacheKey(caller[c].call)
  /\ caller' = [caller EXCEPT ![c].pc = "call"]
  /\ UNCHANGED <<askedPort, records, portCache, lastData, sweeps, asks>>

\* The adapter answers.  A write is carried out downstream.
AdapterServes(c) ==
  LET call == caller[c].call
  IN  /\ OwnedAt(c, "call") /\ ~NotFound(call)
      /\ records' = IF IsMutation(call) THEN AfterWrite(call) ELSE records
      /\ caller' = [caller EXCEPT ![c].pc = "store", ![c].data = Data(call, Adapter(call))]
      /\ UNCHANGED <<askedPort, portCache, lastData, sweeps, asks>>

\* The adapter throws: NotFoundException, or the live downstream fails.  Both are
\* failures of the call to execute: the port's last answer stands in for it, if
\* there is one; else PortQueuedException or PortFallbackException.
Thrown(c) ==
  /\ OwnedAt(c, "call")
  /\ IF lastData # NoData THEN Answer(c, lastData, "degraded")
     ELSE caller' = [caller EXCEPT ![c].pc = "done", ![c].kind = "refused"]
  /\ UNCHANGED <<askedPort, records, portCache, lastData, sweeps, asks>>

\* After the adapter: a mutation starts deleteByPattern without awaiting it, a
\* read is put in the cache, and the fallback entry is replaced.
Stored(c) ==
  LET call == caller[c].call
  IN  /\ OwnedAt(c, "store")
      /\ sweeps' = IF IsMutation(call) THEN sweeps + 1 ELSE sweeps
      /\ portCache' = IF IsMutation(call) THEN portCache
                      ELSE {e \in portCache : e.key # CacheKey(call)}
                           \cup {[key |-> CacheKey(call), data |-> caller[c].data]}
      /\ lastData' = caller[c].data
      /\ Answer(c, caller[c].data, "data")
      /\ UNCHANGED <<askedPort, records, asks>>

\* A deleteByPattern ends, or fails.
Sweep ==
  /\ sweeps > 0
  /\ sweeps' = sweeps - 1
  /\ portCache' \in {{}, portCache}
  /\ UNCHANGED <<askedPort, records, lastData, caller, asks>>

Leave(c) ==
  /\ OwnedAt(c, "done")
  /\ caller' = [caller EXCEPT ![c] = Resting]
  /\ UNCHANGED <<askedPort, records, portCache, lastData, sweeps, asks>>

OwnedNext ==
  \/ \E c \in Callers :
        \/ \E k \in Customers : \E call \in ServiceCalls(k) : Ask(c, call)
        \/ CacheHit(c) \/ CacheMiss(c) \/ AdapterServes(c) \/ Thrown(c) \/ Stored(c) \/ Leave(c)
  \/ Sweep

OwnedSpec == OwnedInit /\ [][OwnedNext]_ownedVars

-----------------------------------------------------------------------------
\* An answer that is not marked degraded holds records of the customer who asked
\* and of nobody else, through the read cache the customers share (ownerCustomerId
\* filters of the adapters, buildCacheKey).
OwnRowsOnly ==
  \A c \in Callers : caller[c].kind = "data" =>
    \A i \in DOMAIN caller[c].data.records : caller[c].data.records[i].owner = caller[c].call.customer

\* The pages getList offers are the customer's invoices: put together in order
\* they are the whole list, each record once, whatever the page size.
PagesAreTheList ==
  \A k \in Customers, n \in ListSizes :
    LET list == OwnedBy(k)
        pages == [p \in 1..TotalPages(list, n) |-> Slice(list, p, n)]
    IN  /\ \A i \in DOMAIN list : \E p \in DOMAIN pages : \E j \in DOMAIN pages[p] :
              pages[p][j] = list[i] /\ i = (p - 1) * n + j
        /\ Slice(list, TotalPages(list, n) + 1, n) = << >>

\* A caller who asks for a record that does not exist, or is not its own, gets no
\* record ("not found OR not owned by the bound customer -> 404 (no oracle)",
\* invoice.client.ts:116).
MissingIsNotFound ==
  \A c \in Callers : OwnedAt(c, "done") /\ NotFound(caller[c].call) => caller[c].data.records = << >>

\* A customer's pages are his own rows, all of them and each once.
OwnListOnly == OwnRowsOnly /\ PagesAreTheList
==============================================================================
