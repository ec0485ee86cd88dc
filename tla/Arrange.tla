------------------------------- MODULE Arrange -------------------------------
(***************************************************************************)
(* Sorting and filtering, as the collectors do it with `sort_by` and       *)
(* `retain`, by counting what stands before each element.                  *)
(***************************************************************************)
EXTENDS Integers, FiniteSets

\* The elements of a finite set in a strict total order, a set of pairs.
Arranged(S, order) ==
  [n \in 1..Cardinality(S) |->
     CHOOSE x \in S : Cardinality({y \in S : <<y, x>> \in order}) = n - 1]

\* The elements of a sequence at the given places, as they come.
Picked(seq, places) ==
  LET kept == Arranged(places, {p \in places \X places : p[1] < p[2]})
  IN [n \in 1..Cardinality(places) |-> seq[kept[n]]]

=============================================================================
