---------------------------- MODULE Subsequences ----------------------------
(* Sets of numbers in order, and the elements of a sequence at given places. *)
EXTENDS Integers, FiniteSets

\* A set of numbers in increasing order: the k-th has k of them up to itself.
Ascending(S) ==
    [k \in 1..Cardinality(S) |-> CHOOSE x \in S : Cardinality({y \in S : y <= x}) = k]

\* The elements of s at some of its places, in the order they have in s.
Picked(s, places) ==
    [k \in 1..Cardinality(places) |-> s[Ascending(places)[k]]]

=============================================================================
