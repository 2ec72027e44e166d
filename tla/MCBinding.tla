----------------------------- MODULE MCBinding -----------------------------
(* Model-checking instances of Binding.  Users do not share rows, tokens or
   cache entries, so there is one user, whose phone either has the customers a
   and b of a household, and must stay away from c, or is unknown to
   customer-service. *)
EXTENDS Binding, TLC

CONSTANTS u, a, b, c, x, n

OwnerOfAll == [s \in Sessions |-> u]
HouseholdOrNewcomer == {u :> {a, b}, u :> {}}
ExtRef == u :> x
NewRef == u :> n

\* Request slots and sessions are interchangeable.
SlotSymmetry == Permutations(Requests) \cup Permutations(Sessions)
=============================================================================
