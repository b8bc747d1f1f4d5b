------------------------------ MODULE Ascending ------------------------------
(* Rows in the order of their numbers, as ORDER BY sequence returns them.     *)
EXTENDS Naturals, FiniteSets

\* The numbers of a finite set, the smallest first.
InOrder(S) ==
    [i \in 1..Cardinality(S) |-> CHOOSE n \in S : Cardinality({m \in S : m <= n}) = i]
==============================================================================
