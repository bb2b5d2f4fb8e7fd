---------------------------- MODULE Subsequences ----------------------------
(***************************************************************************)
(* The list comprehension of Python, by the places it keeps: what          *)
(* SelectSeq gives, written without recursion.                             *)
(***************************************************************************)
EXTENDS Integers, Sequences, FiniteSets

\* How many of the places come up to i.
Rank(places, i) == Cardinality({j \in places : j <= i})

Nth(places, k) == CHOOSE i \in places : Rank(places, i) = k

\* The elements of s at the places, in their order.
Picked(s, places) == [k \in 1 .. Cardinality(places) |-> s[Nth(places, k)]]

=============================================================================
