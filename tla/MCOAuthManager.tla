--------------------------- MODULE MCOAuthManager ---------------------------
(* Small instances of OAuthManager for TLC.                                *)
EXTENDS OAuthManager, TLC

Symmetry == Permutations(Clients)
=============================================================================
