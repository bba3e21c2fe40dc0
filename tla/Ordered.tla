-------------------------------- MODULE Ordered --------------------------------
(* Elements in an order, and the part of a sequence that is kept: what ORDER BY,  *)
(* sort_by and retain do, without recursion.  An order is the set of the pairs    *)
(* <<x, y>> with x before y.                                                      *)
EXTENDS Naturals, Sequences, FiniteSets

Place(x, S, before) == Cardinality({y \in S : <<y, x>> \in before}) + 1

\* The elements of S, the first one first.
InOrder(S, before) ==
  [n \in 1 .. Cardinality(S) |-> CHOOSE x \in S : Place(x, S, before) = n]

\* The elements of the sequence s that are in S.
Retained(s, S) ==
  LET kept == {i \in DOMAIN s : s[i] \in S}
      order == InOrder(kept, {x \in kept \X kept : x[1] < x[2]})
  IN  [n \in 1 .. Cardinality(kept) |-> s[order[n]]]
===============================================================================
