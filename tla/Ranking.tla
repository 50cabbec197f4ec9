------------------------------ MODULE Ranking ------------------------------
(***************************************************************************)
(* The best of a set by a number: what full-text and vector search cut a     *)
(* list of candidates down with (src/src/catalog.rs: select_topk, and the    *)
(* sort and truncate of vector_search).                                      *)
(***************************************************************************)
EXTENDS Integers, Sequences, FiniteSets

\* A member of S with the least d.
Least(S, d) == CHOOSE s \in S : \A t \in S : d[s] <= d[t]

\* The first n of S by d, least first; ties in any order.
Closest(S, d, n) ==
    LET m == IF Cardinality(S) < n THEN Cardinality(S) ELSE n
        left[k \in 0 .. m] == IF k = 0 THEN S ELSE left[k - 1] \ {Least(left[k - 1], d)}
    IN  [k \in 1 .. m |-> Least(left[k - 1], d)]

SortedNumbers(S) == Closest(S, [x \in S |-> x], Cardinality(S))
=============================================================================
