-------------------------- MODULE CustomerDirectory --------------------------
(***************************************************************************)
(* MockCustomerServiceClient                                               *)
(* (src/modules/account/clients/customer-service-mock.client.ts): the      *)
(* customers it created, in a map and a counter of the process, and in the *)
(* table mock_customer_store they are read back from after a restart.      *)
(* Calls run concurrently; a step ends at an await.  Module Binding uses   *)
(* the directory as if it were always hydrated.  Seed customers never      *)
(* change: their phones only make create refuse.                           *)
(***************************************************************************)
EXTENDS Naturals, FiniteSets

CONSTANTS DirectoryCalls, \* concurrent calls of resolve and create
          DirPhones,      \* normalized phones the calls name
          SeedPhones,     \* those of them SEED_CUSTOMERS lists
          MaxCustomers,   \* bound on the numbers createdCustomerCounter hands out
          MaxRestarts     \* bound on restarts of the process

ASSUME DirAssumption ==
  /\ DirPhones # {} /\ "none" \notin DirPhones
  /\ MaxCustomers \in Nat /\ MaxCustomers >= 2

VARIABLES
  table,    \* mock_customer_store: a set of [number, phone], keyed by number
  created,  \* createdCustomers: created[p] the number recorded for p, 0 for none
  counter,  \* createdCustomerCounter
  hydrated,
  dcall,    \* dcall[c]: position, arguments and outcome of a call
  restarts,
  raced,    \* history: some call passed ensureHydrated while the rows were being read
  issued    \* history: customers whose create was answered, as table has them

dirVars == <<table, created, counter, hydrated, dcall, restarts, raced, issued>>

NoDirCall == [pc |-> "idle", op |-> "none", phone |-> CHOOSE p \in DirPhones : TRUE, number |-> 0]
Empty == [p \in DirPhones |-> 0]

\* A process that has just started, on a table an earlier one left.
DirInit ==
  /\ \E n \in 0..2, owner \in [1..2 -> DirPhones \ SeedPhones] :
        /\ owner[1] # owner[2]
        /\ table = {[number |-> i, phone |-> owner[i]] : i \in 1..n}
  /\ created = Empty /\ counter = 0 /\ hydrated = FALSE
  /\ dcall = [c \in DirectoryCalls |-> NoDirCall]
  /\ restarts = 0 /\ raced = FALSE /\ issued = table

DirAt(c, l) == dcall[c].pc = l
Reading == \E c \in DirectoryCalls : DirAt(c, "rows")

\* The call arrives.  The first one sets the flag and awaits the rows; one that
\* comes before they are in goes on with the map as it is.
EnsureHydrated(c, op, p) ==
  /\ DirAt(c, "idle")
  /\ dcall' = [dcall EXCEPT ![c] = [NoDirCall EXCEPT
                 !.pc = IF hydrated THEN "go" ELSE "rows", !.op = op, !.phone = p]]
  /\ hydrated' = TRUE
  /\ raced' = (raced \/ Reading)
  /\ UNCHANGED <<table, created, counter, restarts, issued>>

\* Mutant: the counter is not taken past the numbers in the table.
HydrateMapOnly(c) ==
  /\ DirAt(c, "rows")
  /\ created' = [p \in DirPhones |-> IF \E r \in table : r.phone = p
                                     THEN (CHOOSE r \in table : r.phone = p).number
                                     ELSE created[p]]
  /\ dcall' = [dcall EXCEPT ![c].pc = "go"]
  /\ UNCHANGED <<table, counter, hydrated, restarts, raced, issued>>

\* The rows arrive: map and counter take them over.  Of two rows of one phone
\* the select orders neither first.
Hydrate(c) ==
  /\ DirAt(c, "rows")
  /\ \E row \in [DirPhones -> table \cup {[number |-> 0, phone |-> "none"]}] :
        /\ \A p \in DirPhones : IF \E r \in table : r.phone = p
                                THEN row[p].phone = p ELSE row[p].number = 0
        /\ created' = [p \in DirPhones |-> IF row[p].number = 0 THEN created[p]
                                           ELSE row[p].number]
  /\ counter' \in {n \in 0..MaxCustomers : /\ \A r \in table : r.number <= n
                                           /\ counter <= n
                                           /\ n = counter \/ \E r \in table : r.number = n}
  /\ dcall' = [dcall EXCEPT ![c].pc = "go"]
  /\ UNCHANGED <<table, hydrated, restarts, raced, issued>>

\* The select fails: the call throws, and the flag stays set.
HydrateFails(c) ==
  /\ DirAt(c, "rows")
  /\ dcall' = [dcall EXCEPT ![c] = [@ EXCEPT !.pc = "done", !.op = "failed"]]
  /\ raced' = TRUE
  /\ UNCHANGED <<table, created, counter, hydrated, restarts, issued>>

DirResolve(c) ==
  /\ DirAt(c, "go") /\ dcall[c].op = "resolve"
  /\ dcall' = [dcall EXCEPT ![c].pc = "done", ![c].number = created[dcall[c].phone]]
  /\ UNCHANGED <<table, created, counter, hydrated, restarts, raced, issued>>

\* create: ConflictException, or the map is written and the insert begun.
DirCreate(c) ==
  LET p == dcall[c].phone
  IN  /\ DirAt(c, "go") /\ dcall[c].op = "create"
      /\ IF created[p] # 0 \/ p \in SeedPhones
         THEN /\ dcall' = [dcall EXCEPT ![c].pc = "done", ![c].op = "conflict"]
              /\ UNCHANGED <<created, counter>>
         ELSE /\ counter < MaxCustomers
              /\ counter' = counter + 1
              /\ created' = [created EXCEPT ![p] = counter']
              /\ dcall' = [dcall EXCEPT ![c].pc = "insert", ![c].number = counter']
      /\ UNCHANGED <<table, hydrated, restarts, raced, issued>>

\* The primary key, customer_id.
Taken(number) == \E r \in table : r.number = number

Insert(c) ==
  /\ DirAt(c, "insert")
  /\ ~Taken(dcall[c].number)
  /\ table' = table \cup {[number |-> dcall[c].number, phone |-> dcall[c].phone]}
  /\ dcall' = [dcall EXCEPT ![c].pc = "done", ![c].op = "created"]
  /\ issued' = issued \cup {[number |-> dcall[c].number, phone |-> dcall[c].phone]}
  /\ UNCHANGED <<created, counter, hydrated, restarts, raced>>

\* The key is taken, or the database fails: create throws, the map keeps the record.
InsertFails(c) ==
  /\ DirAt(c, "insert")
  /\ dcall' = [dcall EXCEPT ![c] = [@ EXCEPT !.pc = "done", !.op = "failed"]]
  /\ UNCHANGED <<table, created, counter, hydrated, restarts, raced, issued>>

\* The caller has its answer.
Answered(c) ==
  /\ DirAt(c, "done")
  /\ dcall' = [dcall EXCEPT ![c] = NoDirCall]
  /\ UNCHANGED <<table, created, counter, hydrated, restarts, raced, issued>>

\* The process dies and starts again: calls, map, counter and flag are gone.
DirRestart ==
  /\ restarts < MaxRestarts
  /\ restarts' = restarts + 1
  /\ created' = Empty /\ counter' = 0 /\ hydrated' = FALSE
  /\ dcall' = [c \in DirectoryCalls |-> NoDirCall]
  /\ UNCHANGED <<table, raced, issued>>

DirNext ==
  \/ \E c \in DirectoryCalls :
        \/ \E op \in {"resolve", "create"}, p \in DirPhones : EnsureHydrated(c, op, p)
        \/ Hydrate(c) \/ HydrateFails(c) \/ DirResolve(c) \/ DirCreate(c)
        \/ Insert(c) \/ InsertFails(c) \/ Answered(c)
  \/ DirRestart

DirSpec == DirInit /\ [][DirNext]_dirVars

-----------------------------------------------------------------------------
\* A customer whose create was answered keeps its number and its phone in the
\* store, whatever creates of racing or restarted processes do (create's insert
\* under the table's primary key; ensureHydrated restores the counter).
IssuedIsKept == issued \subseteq table

\* As long as no call slips past a hydration that is still reading (or failed),
\* the store has one customer per phone, and what resolve answers for a phone is
\* never another phone's customer (create: "ATOMIC phone-uniqueness").
OneCustomerPerPhone ==
  raced \/ /\ \A r, s \in table : r.phone = s.phone => r = s
           /\ \A p \in DirPhones, r \in table : created[p] = r.number => r.phone = p

\* The directory neither forgets a customer it issued nor issues two for a phone.
DirectorySafe == IssuedIsKept /\ OneCustomerPerPhone
=============================================================================
