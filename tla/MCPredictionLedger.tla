------------------------- MODULE MCPredictionLedger -------------------------
(* PredictionLedger on small sets: every post has the same author. *)
EXTENDS PredictionLedger, TLC

CONSTANTS x

MCAuthor == [q \in Posts |-> x]

ReplicaSymmetry == Permutations(Replicas)
RequestSymmetry == Permutations(Requests)
PickSymmetry == Permutations(Picks)
PostSymmetry == Permutations(Posts)
Symmetry == ReplicaSymmetry \cup RequestSymmetry \cup PickSymmetry \cup PostSymmetry
=============================================================================
