------------------------------ MODULE Ascending ------------------------------
(***************************************************************************)
(* What loops over slices make, said without recursion.                    *)
(*                                                                         *)
(* A loop that appends to a slice those of its inputs that pass a test     *)
(* keeps the chosen positions in ascending order: Ascending(S) lists a     *)
(* finite set of naturals from the least to the greatest, and Kept(s, S)   *)
(* the entries of s at these places.  Listed(S, R) lists S in any other    *)
(* order: that of nested loops, or of a stable sort.                       *)
(***************************************************************************)
EXTENDS Integers, FiniteSets

\* How many members of S are no greater than i.
Place(S, i) == Cardinality({j \in S : j <= i})

\* The listing: the k-th entry is the member with k members up to it.
Ascending(S) == [k \in 1..Cardinality(S) |-> CHOOSE i \in S : Place(S, i) = k]

\* The entries of s at the places in S, in the order of s.
Kept(s, S) == LET at == Ascending(S) IN [k \in DOMAIN at |-> s[at[k]]]

\* The place of x in the order R, a set of pairs <<earlier or same, later>>.
Ordinal(S, R, x) == Cardinality({y \in S : <<y, x>> \in R})

\* The members of S in the order R.
Listed(S, R) == [k \in 1..Cardinality(S) |-> CHOOSE x \in S : Ordinal(S, R, x) = k]
==============================================================================
