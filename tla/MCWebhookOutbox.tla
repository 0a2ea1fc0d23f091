--------------------------- MODULE MCWebhookOutbox ---------------------------
(* WebhookOutbox on small sets: the hook h1 takes every event, h2 (when it  *)
(* is in Hooks) only e1.                                                    *)
EXTENDS WebhookOutbox, TLC

CONSTANTS h1, h2, e1, e2, w1, w2

MCSubscribers == [e \in Events |-> IF e = e1 THEN Hooks ELSE {h1}]

WorkerSymmetry == Permutations(Workers)
=============================================================================
