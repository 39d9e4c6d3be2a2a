-------------------------------- MODULE Picks --------------------------------
(***************************************************************************)
(* What a comprehension with a condition makes of a list: the items at some   *)
(* positions, in their order.                                               *)
(***************************************************************************)
EXTENDS Naturals, FiniteSets

\* The members of a finite set of numbers, in increasing order.
Ascending(S) ==
    [n \in 1 .. Cardinality(S) |-> CHOOSE x \in S : Cardinality({y \in S : y <= x}) = n]

ItemsAt(list, positions) ==
    [n \in 1 .. Cardinality(positions) |-> list[Ascending(positions)[n]]]
=============================================================================
