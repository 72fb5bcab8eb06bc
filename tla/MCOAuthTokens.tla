--------------------------- MODULE MCOAuthTokens ----------------------------
(* Two clients, one of them registered, and two racing token requests. *)
EXTENDS OAuthTokens, TLC

MCSymmetry == Permutations(Users) \cup Permutations(Tokens) \cup Permutations(Workers)
=============================================================================
