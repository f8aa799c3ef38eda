----------------------------- MODULE Numbering -----------------------------
(***************************************************************************)
(* Ranks and free numbers, as the sorts of the queue schemes use them.     *)
(***************************************************************************)
EXTENDS Integers, FiniteSets

\* The place of x in S, from 1.
Rank(S, x) == Cardinality({y \in S : y <= x})

Ascending(S) == [i \in 1..Cardinality(S) |-> CHOOSE x \in S : Rank(S, x) = i]

\* Variant: the numbers from the readers' own on are given.
FreeNumberFrom(used, from, n) ==
    CHOOSE i \in from..(from + n + Cardinality(used)) :
        i \notin used /\ Cardinality((from..i) \ used) = n

\* Variant: numbers in use are given again.
FreeNumberUsed(used, from, n) == from + n

\* The n-th number after from that is not used.
FreeNumber(used, from, n) ==
    CHOOSE i \in (from + 1)..(from + n + Cardinality(used)) :
        i \notin used /\ Cardinality(((from + 1)..i) \ used) = n
=============================================================================
