-------------------------- MODULE MCPostLifecycle --------------------------
(* Two posts of one community, two comments, two requests under way. *)
EXTENDS PostLifecycle, TLC

Interchangeable ==
    Permutations(Posts) \cup Permutations(Comments)
      \cup Permutations(Clients) \cup Permutations(Verifiers)
=============================================================================
