------------------------------ MODULE MCCache ------------------------------
(* Small instances of Cache for TLC.                                       *)
EXTENDS Cache

OneFlight == [k \in Keys |-> 1]
Ttls == [k \in Keys |-> IF k = 1 THEN 1 ELSE 2]
Symmetry == Permutations(Callers)
=============================================================================
