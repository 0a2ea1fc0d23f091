-------------------------- MODULE MCReputationLedger --------------------------
(* Small instances of ReputationLedger.                                      *)
EXTENDS ReputationLedger, TLC

CONSTANTS supported, refuted, w1, w2

MCBase == supported :> 5 @@ refuted :> -9
MCStakes == {4, -12}
Interchangeable == Permutations(Writers)
=============================================================================
