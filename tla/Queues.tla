------------------------------- MODULE Queues -------------------------------
(***************************************************************************)
(* A queue from which any of its members are taken while the others keep   *)
(* their order.  Without() is SelectSeq() put without recursion, so that   *)
(* provers can say what it returns: the n-th of the result is the one kept *)
(* that has n kept ones up to it.                                          *)
(***************************************************************************)
EXTENDS Integers, Sequences, FiniteSets

Members(q) == {q[i] : i \in DOMAIN q}

Kept(q, S) == {i \in DOMAIN q : q[i] \notin S}

UpTo(K, i) == {j \in K : j <= i}

Without(q, S) ==
  LET K == Kept(q, S) IN
  [n \in 1 .. Cardinality(K) |-> q[CHOOSE i \in K : Cardinality(UpTo(K, i)) = n]]
=============================================================================
