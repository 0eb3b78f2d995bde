-------------------------------- MODULE Picks --------------------------------
(* What stays of a list when only some of its positions are kept.            *)
EXTENDS Integers, Sequences, FiniteSets

\* The place of position i among the positions kept.
Place(kept, i) == Cardinality({j \in kept : j <= i})

\* The elements of s at these positions, in their order.
Picked(s, kept) ==
  [n \in 1 .. Cardinality(kept) |-> s[CHOOSE i \in kept : Place(kept, i) = n]]

\* The elements of s that pass a test, in their order.
Select(s, Test(_)) == Picked(s, {i \in DOMAIN s : Test(s[i])})

\* The place of a pair of numbers among others, and all of them in this order.
PairPlace(S, p) ==
  Cardinality({q \in S : q[1] < p[1] \/ (q[1] = p[1] /\ q[2] <= p[2])})

PairList(S) == [n \in 1 .. Cardinality(S) |-> CHOOSE p \in S : PairPlace(S, p) = n]
=============================================================================
