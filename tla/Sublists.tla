------------------------------- MODULE Sublists -------------------------------
(***************************************************************************)
(* The part of a list that is at some of its places.  It says which places *)
(* those are, which a test of the elements alone (SelectSeq) does not.     *)
(***************************************************************************)
EXTENDS Naturals, Sequences, FiniteSets

\* The elements of s at the places P, in their order.
Picked(s, P) ==
  [p \in 1 .. Cardinality(P) |->
     s[CHOOSE i \in P : Cardinality({j \in P : j <= i}) = p]]
=============================================================================
