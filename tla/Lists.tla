------------------------------- MODULE Lists -------------------------------
(***************************************************************************)
(* What passes over a std::list make of it: one keeps some elements, in    *)
(* their order, and erases the others; one moves elements to the back.     *)
(***************************************************************************)
EXTENDS Naturals, Sequences, FiniteSets

\* The n-th of a finite set of positions.
Nth(kept, n) == CHOOSE i \in kept : Cardinality({j \in kept : j <= i}) = n

\* The elements at these positions.
Kept(list, kept) == [n \in 1 .. Cardinality(kept) |-> list[Nth(kept, n)]]

\* The first k elements, one after the other, have moved to the back.
Rotated(list, k) ==
    [i \in DOMAIN list |-> list[IF i + k <= Len(list) THEN i + k ELSE i + k - Len(list)]]
=============================================================================
