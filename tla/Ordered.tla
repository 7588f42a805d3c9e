------------------------------- MODULE Ordered -------------------------------
(* The members of a set in an order, and the members of a sequence that are   *)
(* kept: what a query with ORDER BY returns, and what a loop that skips some   *)
(* of its elements leaves.  And sums.                                          *)
EXTENDS Naturals, FiniteSets, Sequences, FiniteSetsExt

\* What comes before x in S; R is a set of pairs.
Preceding(x, S, R) == {y \in S : <<y, x>> \in R}
InOrder(S, R) == [n \in 1 .. Cardinality(S) |-> CHOOSE x \in S : Cardinality(Preceding(x, S, R)) = n - 1]

\* The places of s that hold a member of S, and s with these alone.
PlacesOf(s, S) == {i \in 1 .. Len(s) : s[i] \in S}
Ascending(P) == {p \in P \X P : p[1] < p[2]}
Keeping(s, S) ==
    LET places == InOrder(PlacesOf(s, S), Ascending(PlacesOf(s, S)))
    IN  [n \in 1 .. Cardinality(PlacesOf(s, S)) |-> s[places[n]]]

Total(f, S) == MapThenSumSet(LAMBDA o : f[o], S)
==============================================================================
