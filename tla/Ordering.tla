------------------------------ MODULE Ordering ------------------------------
(***************************************************************************)
(* The order of the server's sorted slices (sort.Slice by name, URI or     *)
(* template).  Names are numbers here, in the order the names have.        *)
(***************************************************************************)
EXTENDS Integers, FiniteSets

\* The numbers of a finite set in ascending order.
Ascending(S) ==
  CHOOSE s \in [1..Cardinality(S) -> S] :
    \A i, j \in 1..Cardinality(S) : i < j => s[i] < s[j]

\* The first of them.
Least(S) == CHOOSE n \in S : \A m \in S : n <= m
=============================================================================
