------------------------------- MODULE Orders -------------------------------
(* Rows in the order a query asks for.                                       *)
EXTENDS Integers, FiniteSets, Sequences

\* ORDER BY: before[x] is what comes before x, so that its number is x's place.
InOrder(before) ==
    [n \in 1..Cardinality(DOMAIN before) |-> CHOOSE x \in DOMAIN before : Cardinality(before[x]) = n - 1]

\* Where in a sequence elements of T are, and these elements, in its order
PlacesOf(s, T) ==
    LET places == {i \in DOMAIN s : s[i] \in T} IN InOrder([i \in places |-> {j \in places : j < i}])

Kept(s, T) == LET order == PlacesOf(s, T) IN [n \in DOMAIN order |-> s[order[n]]]
=============================================================================
