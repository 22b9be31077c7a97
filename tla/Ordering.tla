-------------------------------- MODULE Ordering --------------------------------
(***************************************************************************)
(* A finite set as a sequence, what the filters and sorts of the code      *)
(* return: the elements in an order, that is a set of pairs of which the   *)
(* first comes before the second.                                          *)
(***************************************************************************)
EXTENDS Naturals, FiniteSets

\* Where an element stands.
PlaceOf(S, before, e) == Cardinality({d \in S : d = e \/ <<d, e>> \in before})

InOrder(S, before) == [n \in 1..Cardinality(S) |-> CHOOSE e \in S : PlaceOf(S, before, e) = n]
================================================================================
