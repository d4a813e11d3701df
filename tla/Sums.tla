--------------------------------- MODULE Sums ---------------------------------
(***************************************************************************)
(* Sums: of the first values of a function on positive numbers, and of all *)
(* values of a function on a finite set.  They are written with a recursive *)
(* function over Nat, so that facts about them can be proved by induction.  *)
(***************************************************************************)
EXTENDS Integers, FiniteSets

\* g[1] + ... + g[n]
SumTo(g, n) ==
  LET sum[i \in Nat] == IF i = 0 THEN 0 ELSE sum[i - 1] + g[i] IN sum[n]

\* The elements of S in some order, which is the same for all functions on S.
IsListing(e, S) ==
  /\ e \in [1..Cardinality(S) -> S]
  /\ \A x \in S : \E i \in 1..Cardinality(S) : e[i] = x
  /\ \A i, j \in 1..Cardinality(S) : e[i] = e[j] => i = j
Listing(S) == CHOOSE e \in [1..Cardinality(S) -> S] : IsListing(e, S)

\* The sum of f[x] for x in S.
SumOver(f, S) ==
  LET e == Listing(S) IN SumTo([i \in 1..Cardinality(S) |-> f[e[i]]], Cardinality(S))
=============================================================================
