---------------------------- MODULE MCDigestLedger ----------------------------
(* Small instances of DigestLedger: the daily tick on two replicas.           *)
EXTENDS DigestLedger, TLC

CONSTANTS a, b

MCDue == <<"daily">>
Replicas == Permutations(Runners) \cup Permutations(Texts)
=============================================================================
