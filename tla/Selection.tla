------------------------------ MODULE Selection ------------------------------
(***************************************************************************)
(* What is chosen of a sequence, and in which order: retain, filter and    *)
(* sort of the standard library, written by places.                        *)
(***************************************************************************)
EXTENDS Naturals, FiniteSets

(* The n-th of some places: as many are ahead of it as come before n.      *)
Nth(places, n, Ahead(_, _)) ==
  CHOOSE i \in places : Cardinality({j \in places : Ahead(j, i)}) = n - 1

(* The elements at some places, in the order of the sequence.              *)
Picked(s, places) == [n \in 1 .. Cardinality(places) |-> s[Nth(places, n, <)]]

(* A stable sort.                                                          *)
Arranged(s, Before(_, _)) ==
  LET Ahead(j, i) == Before(s[j], s[i]) \/ (~Before(s[i], s[j]) /\ j < i)
  IN [n \in DOMAIN s |-> s[Nth(DOMAIN s, n, Ahead)]]
=============================================================================
