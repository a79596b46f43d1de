--------------------------------- MODULE Places ---------------------------------
(***************************************************************************)
(* What a filter leaves of a sequence.                                     *)
(***************************************************************************)
EXTENDS Naturals, FiniteSets

\* The elements of a set of numbers in order, and those of a sequence at its places.
Ascending(S) ==
    CHOOSE f \in [1..Cardinality(S) -> S] : \A i, j \in DOMAIN f : i < j => f[i] < f[j]
Chosen(s, S) == [i \in 1..Cardinality(S) |-> s[Ascending(S)[i]]]
=============================================================================
