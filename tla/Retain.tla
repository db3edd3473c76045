------------------------------- MODULE Retain -------------------------------
(* Vec::retain and VecDeque::retain: a sequence with some of its entries.  *)
EXTENDS Naturals, FiniteSets

\* The n-th smallest of the positions K.
Position(K, n) == CHOOSE i \in K : Cardinality({j \in K : j <= i}) = n

\* The entries of q at the positions K, in their order.
Retain(q, K) == [n \in 1 .. Cardinality(K) |-> q[Position(K, n)]]
=============================================================================
