------------------------------- MODULE Orders -------------------------------
(***************************************************************************)
(* What a Go loop collects when it walks a slice, or the sorted keys of a  *)
(* map, and appends what it is after: here places and numbers, in order.   *)
(***************************************************************************)
EXTENDS Naturals, FiniteSets

InOrder(S) ==
  LET before(i) == Cardinality({j \in S : j <= i})
  IN  [k \in 1..Cardinality(S) |-> CHOOSE i \in S : before(i) = k]
=============================================================================
