--------------------------- MODULE MCSessionTokens ---------------------------
(* SessionTokens on small sets. *)
EXTENDS SessionTokens, TLC

Symmetry == Permutations(Slots)
=============================================================================
