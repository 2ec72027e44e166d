------------------------------ MODULE Selection ------------------------------
(***************************************************************************)
(* Array.filter: the elements of a sequence at some of its positions, in   *)
(* their order.  A position's rank is its place among those kept; nothing  *)
(* is recursive, so that the modules that filter can be reasoned about.    *)
(***************************************************************************)
EXTENDS Integers, Sequences, FiniteSets

\* The positions of S up to i.
Rank(S, i) == Cardinality({j \in S : j <= i})

\* The n-th position of S.
Nth(S, n) == CHOOSE i \in S : Rank(S, i) = n

\* What is left of s when the positions S are kept.
Filtered(s, S) == [n \in 1..Cardinality(S) |-> s[Nth(S, n)]]
==============================================================================
