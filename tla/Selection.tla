----------------------------- MODULE Selection -----------------------------
(***************************************************************************)
(* The loops of the program that go over a vector and append some of its   *)
(* elements to another one keep the order of the elements.  What they      *)
(* build is the vector at a set of positions, taken in increasing order.   *)
(***************************************************************************)
EXTENDS Integers, Sequences, FiniteSets

\* The positions in I, from the smallest to the largest.
InOrder(I) ==
  CHOOSE h \in [1 .. Cardinality(I) -> I] :
    /\ \A a, b \in 1 .. Cardinality(I) : a < b => h[a] < h[b]
    /\ \A x \in I : \E a \in 1 .. Cardinality(I) : h[a] = x

\* The elements of s at the positions in I.
Picked(s, I) == [a \in 1 .. Cardinality(I) |-> s[InOrder(I)[a]]]

\* The last of the positions in I.
LastOf(I) == CHOOSE x \in I : \A y \in I : y <= x
=============================================================================
