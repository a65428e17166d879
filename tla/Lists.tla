---------------------------------- MODULE Lists ----------------------------------
(***************************************************************************)
(* What the queues of the two applications do to a list besides appending  *)
(* to it and taking its head.                                              *)
(***************************************************************************)
EXTENDS Integers, Sequences, FiniteSets

\* What is left of q when the elements of S are taken out, in its order.
Without(q, S) ==
  LET kept == {i \in DOMAIN q : q[i] \notin S}
      Nth(n) == CHOOSE i \in kept : Cardinality({j \in kept : j <= i}) = n
  IN  [n \in 1..Cardinality(kept) |-> q[Nth(n)]]
================================================================================
