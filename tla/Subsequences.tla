---------------------------- MODULE Subsequences ----------------------------
(***************************************************************************)
(* What loops that copy some elements of a list compute: the elements at   *)
(* chosen positions, in their order.  SelectSeq with the positions given   *)
(* as a set, defined without recursion so that it can be reasoned about.   *)
(***************************************************************************)
EXTENDS Naturals, Sequences, FiniteSets

\* How many of the positions D are at or before i.
Rank(D, i) == Cardinality({j \in D : j <= i})

\* The k-th position in D.
Nth(D, k) == CHOOSE i \in D : Rank(D, i) = k

Chosen(s, D) == [k \in 1..Cardinality(D) |-> s[Nth(D, k)]]
=============================================================================
