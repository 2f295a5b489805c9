------------------------------- MODULE Sublists -------------------------------
(***************************************************************************)
(* Sequences of which only some items are kept, in their order.  Filter    *)
(* is SelectSeq of Sequences, defined by positions and not by recursion:    *)
(* the provers can reason about positions.                                  *)
(***************************************************************************)
EXTENDS Naturals, Sequences, FiniteSets

(* How many of the positions K come no later than i.                       *)
Rank(K, i) == Cardinality({j \in K : j <= i})

(* The k-th of the positions K.                                            *)
Nth(K, k) == CHOOSE i \in K : Rank(K, i) = k

(* The items of s at the positions K.                                      *)
Sublist(s, K) == [k \in 1..Cardinality(K) |-> s[Nth(K, k)]]

(* The items of s that pass a test.                                        *)
Filter(s, Test(_)) == Sublist(s, {i \in DOMAIN s : Test(s[i])})
===============================================================================
