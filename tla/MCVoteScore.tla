----------------------------- MODULE MCVoteScore -----------------------------
(* A post and a comment on it, both by x; x and y vote, a remote actor likes. *)
EXTENDS VoteScore, TLC

CONSTANTS post, comment, x, y

MCHome == [t \in Targets |-> post]
MCAuthor == [t \in Targets |-> x]
Interchangeable == Permutations(Writers)
=============================================================================
