-------------------------- MODULE MCPortRegistry --------------------------
(* Model-checking instance of PortRegistry, under each queuePolicy: two
   requests make the same read next to a write; and a write whose name
   isMutationMethod misses is made twice, next to the read, or next to the
   write.  Of two requests that make the same call one is made first. *)
EXTENDS PortRegistry, TLC

CONSTANTS q1, q2, q3, q4, q5, get, pay, acknowledge

ReadsAndWrites ==
  q1 :> get @@ q2 :> get @@ q3 :> pay @@ q4 :> acknowledge @@ q5 :> acknowledge
Mixes == {{q1, q2, q3}, {q4, q5}, {q1, q4}, {q3, q4}}
AllPolicies == {"never", "on-cache-miss", "always"}

Made == {q \in Requests : ~At(q, "new")}

MCNext ==
  /\ Next
  /\ crashes' > 0 \/ \E mix \in Mixes : Made' \subseteq mix
  /\ q2 \in Made' => q1 \in Made'
  /\ q5 \in Made' => q4 \in Made'

MCSpec == Init /\ [][MCNext]_vars /\ Fairness
=============================================================================
