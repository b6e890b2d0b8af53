----------------------------- MODULE Positions ------------------------------
(* What a loop over a sequence keeps of it: the elements at some positions,  *)
(* in their order.                                                           *)
EXTENDS Naturals, FiniteSets

\* The position i is the Rank(I, i)-th of I, and Nth(I, n) the n-th.
Rank(I, i) == Cardinality({j \in I : j <= i})
Nth(I, n) == CHOOSE i \in I : Rank(I, i) = n

AtPositions(s, I) == [n \in 1..Cardinality(I) |-> s[Nth(I, n)]]
=============================================================================
