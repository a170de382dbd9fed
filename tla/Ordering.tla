------------------------------- MODULE Ordering -------------------------------
(***************************************************************************)
(* The fixed orders the derivations run in.  Everything computed from      *)
(* evidence sorts it first, so that the order of arrival cannot show in a  *)
(* result; what sorts, here, is a set.                                     *)
(***************************************************************************)
EXTENDS Integers, FiniteSets

(* Lexicographic order of two tuples of one length.                        *)
Precedes(a, b) ==
    \E i \in DOMAIN a : a[i] < b[i] /\ \A j \in 1..(i - 1) : a[j] = b[j]

(* The elements of S in the order Less, which is total on S: each has as   *)
(* many before it as its position says.                                    *)
Sorted(S, Less(_, _)) ==
    [i \in 1..Cardinality(S) |->
        CHOOSE x \in S : Cardinality({y \in S : Less(y, x)}) = i - 1]

(* The first n elements.                                                   *)
FirstOf(seq, n) == [i \in {k \in DOMAIN seq : k <= n} |-> seq[i]]

===============================================================================
