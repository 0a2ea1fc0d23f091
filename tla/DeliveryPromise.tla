--------------------------- MODULE DeliveryPromise ---------------------------
(***************************************************************************)
(* What the webhook outbox promises to the owner of a hook, with nothing   *)
(* said of leases, attempts, workers or transactions: a logical event      *)
(* queues one job per subscribed hook, all of them at once; a job leaves   *)
(* the queue exactly once, as delivered only if the receiver has answered  *)
(* for it, and never comes back.  Delivery is at least once: Accept may    *)
(* happen again for a job already accepted or already settled.             *)
(* WebhookOutbox implements this module (PromiseKept there).               *)
(***************************************************************************)
CONSTANTS Events, Hooks

VARIABLES state, accepted

vars == <<state, accepted>>

Jobs == Events \X Hooks

States == {"none", "queued", "delivered", "abandoned", "gone"}

TypeOK ==
    /\ state \in [Jobs -> States]
    /\ accepted \subseteq Jobs

Init ==
    /\ state = [j \in Jobs |-> "none"]
    /\ accepted = {}

Move(S, to) ==
    /\ state' = [j \in Jobs |-> IF j \in S THEN to ELSE state[j]]
    /\ UNCHANGED accepted

\* All the jobs of an event become visible together or not at all.
Enqueue(e) ==
    \E H \in SUBSET Hooks :
        /\ \A h \in Hooks : state[<<e, h>>] = "none"
        /\ Move({e} \X H, "queued")

\* The receiver has taken the request, whatever the sender learns of it.
Accept(j) ==
    /\ state[j] # "none"
    /\ accepted' = accepted \cup {j}
    /\ UNCHANGED state

Deliver(j) ==
    /\ state[j] = "queued"
    /\ j \in accepted
    /\ Move({j}, "delivered")

\* Given up: out of attempts, refused for good, or its hook was deactivated.
Abandon(h) ==
    \E S \in SUBSET (Events \X {h}) :
        /\ \A j \in S : state[j] = "queued"
        /\ Move(S, "abandoned")

Remove(h) == Move({j \in Events \X {h} : state[j] # "none"}, "gone")

Next ==
    \/ \E e \in Events : Enqueue(e)
    \/ \E j \in Jobs : Accept(j) \/ Deliver(j)
    \/ \E h \in Hooks : Abandon(h) \/ Remove(h)

Spec == Init /\ [][Next]_vars
=============================================================================
