----------------------------- MODULE Aggregation -----------------------------
(***************************************************************************)
(* AggregationService (src/libs/shared/port/aggregation.service.ts): one   *)
(* fan-out over several ports, whose calls settle in any order, joined by  *)
(* Promise.allSettled, and the two maps by port name made of the join.     *)
(*                                                                         *)
(* A call's data is the port's name with a value, Null, or Missing         *)
(* (undefined); an error is told apart from data by `success'.             *)
(***************************************************************************)
EXTENDS Integers, Sequences, FiniteSets

CONSTANTS FanOuts,     \* sequences of port names: calls[i].portName
          DataValues,  \* values a port may answer with
          Missing,     \* undefined
          NoData       \* null

\* The calls of an aggregation are a list.
ASSUME FanOutAssumption == \A f \in FanOuts : f \in Seq(STRING)

VARIABLES fanOut,    \* the calls of the aggregation, by port name
          settled,   \* what the calls that have settled brought, in the order they did
          results    \* AggregationResponse.results; <<>> until every call has settled

fanOutVars == <<fanOut, settled, results>>

FanOutInit ==
  /\ fanOut \in FanOuts
  /\ settled = <<>> /\ results = <<>>

Called == {fanOut[i] : i \in DOMAIN fanOut}
HasSettled(i) == \E s \in DOMAIN settled : settled[s].call = i

\* portRegistry.execute(calls[i]) is fulfilled, or rejected.
Fulfilled(i) ==
  /\ i \in DOMAIN fanOut /\ ~HasSettled(i)
  /\ \E data \in (DataValues \X {fanOut[i]}) \cup {NoData, Missing} :
       settled' = Append(settled, [call |-> i, success |-> TRUE, data |-> data])
  /\ UNCHANGED <<fanOut, results>>

Rejected(i) ==
  /\ i \in DOMAIN fanOut /\ ~HasSettled(i)
  /\ settled' = Append(settled, [call |-> i, success |-> FALSE, data |-> Missing])
  /\ UNCHANGED <<fanOut, results>>

\* Mutant: the results are collected as they come in.
ResultOfArrival(i) ==
  [portName |-> fanOut[i], success |-> settled[i].success, data |-> settled[i].data]

\* The result at `index' is labelled with the port of calls[index].
ResultOf(i) ==
  LET s == CHOOSE s \in DOMAIN settled : settled[s].call = i
  IN [portName |-> fanOut[i], success |-> settled[s].success, data |-> settled[s].data]

\* allSettled resolves once nothing is outstanding.
ExecuteAll ==
  /\ results = <<>> /\ \A i \in DOMAIN fanOut : HasSettled(i)
  /\ results' = [i \in DOMAIN fanOut |-> ResultOf(i)]
  /\ UNCHANGED <<fanOut, settled>>

FanOutNext ==
  \/ \E i \in DOMAIN fanOut : Fulfilled(i)
  \/ \E i \in DOMAIN fanOut : Rejected(i)
  \/ ExecuteAll

FanOutSpec == FanOutInit /\ [][FanOutNext]_fanOutVars

\* Map.set in the order of the results: the last of a port's wins.
LastOf(p, indices) == CHOOSE i \in indices : results[i].portName = p /\ \A j \in indices : j <= i

\* resolveToMap: null for a failure, and for data that is null or undefined.
ResolveToMap ==
  [p \in Called |->
     LET r == results[LastOf(p, {i \in DOMAIN results : results[i].portName = p})]
     IN IF r.success /\ r.data # Missing THEN r.data ELSE NoData]

\* resolveSuccessful: a success with data, null included.
ResolveSuccessful ==
  LET kept(p) == {i \in DOMAIN results : results[i].portName = p /\ results[i].success
                                         /\ results[i].data # Missing}
  IN [p \in {q \in Called : kept(q) # {}} |-> results[LastOf(p, kept(p))].data]

-----------------------------------------------------------------------------
\* Whatever order the calls settle in and whichever of them fail, a port that was
\* asked once and answered with a value has that value in both maps, no map shows
\* one port's data under another's name, and the two maps tell different stories
\* of a port only if it was asked more than once (a later failure hides an earlier
\* success in resolveToMap and not in resolveSuccessful).
FailuresStayApart ==
  results # <<>> => \A p \in Called :
    LET asked == {i \in DOMAIN fanOut : fanOut[i] = p}
        kept == IF p \in DOMAIN ResolveSuccessful THEN ResolveSuccessful[p] ELSE NoData
    IN /\ kept # NoData => kept[2] = p
       /\ ResolveToMap[p] # NoData => ResolveToMap[p] = kept
       /\ ResolveToMap[p] # kept => Cardinality(asked) > 1
       /\ \A s \in DOMAIN settled :
            asked = {settled[s].call} /\ settled[s].data \notin {NoData, Missing}
              => kept = settled[s].data
=============================================================================
