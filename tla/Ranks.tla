------------------------------- MODULE Ranks -------------------------------
(***************************************************************************)
(* Finite sets in order, where the program sorts and filters its lists.    *)
(* An order is the set of its pairs; an element's place follows from the   *)
(* number of those before it.                                              *)
(***************************************************************************)
EXTENDS Integers, FiniteSets

Rank(S, R, x) == Cardinality({y \in S : <<y, x>> \in R})

\* The elements of S, the first of R first.
Sorted(S, R) == [k \in 1..Cardinality(S) |-> CHOOSE x \in S : Rank(S, R, x) = k - 1]

\* A stable sort of places: by R, and as they come where R leaves it open.
Stable(P, R) == {p \in P \X P : p \in R \/ (<<p[2], p[1]>> \notin R /\ p[1] < p[2])}

Ascending(P) == Sorted(P, {p \in P \X P : p[1] < p[2]})

\* The elements of s at the places P, in order.
ElementsAt(s, P) == LET at == Ascending(P) IN [j \in 1..Cardinality(P) |-> s[at[j]]]

\* The first n of a set of places.
FirstPlaces(P, n) == {i \in P : Cardinality({j \in P : j < i}) < n}
=============================================================================
