---------------------------- MODULE MCShortlinks ----------------------------
(* Small instances of Shortlinks for TLC.                                  *)
EXTENDS Shortlinks, TLC

Symmetry == Permutations(Clients) \cup Permutations(Definitions)
              \cup Permutations(Alphanumeric)
=============================================================================
