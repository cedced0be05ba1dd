-------------------------- MODULE MCFeedSnapshots --------------------------
(* Small instances of FeedSnapshots for TLC.                               *)
EXTENDS FeedSnapshots, TLC

CONSTANTS f1, f2

TwoStripes == [f \in Feeds |-> IF f = f1 THEN 0 ELSE 1]

Symmetry == Permutations(Clients) \cup Permutations(Alphanumeric)
=============================================================================
