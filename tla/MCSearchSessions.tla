-------------------------- MODULE MCSearchSessions --------------------------
(* Small instances of SearchSessions for TLC.                              *)
EXTENDS SearchSessions, TLC

Symmetry == Permutations(Clients) \cup Permutations(Sessions)
=============================================================================
