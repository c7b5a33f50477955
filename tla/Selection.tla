------------------------------ MODULE Selection ------------------------------
(* Selecting elements of a list, as the loops over rule lists do.           *)
EXTENDS Integers, Sequences, FiniteSets

\* The elements at some of a list's places, in order (SelectSeq, by place).
Kept(list, places) ==
    LET rank(i) == Cardinality({j \in places : j <= i})
    IN  [k \in 1..Cardinality(places) |-> list[CHOOSE i \in places : rank(i) = k]]
=============================================================================
