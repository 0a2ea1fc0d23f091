---------------------------- MODULE TaskPromise ----------------------------
(***************************************************************************)
(* What the A2A gateway promises its callers (docs/FEATURE_STATUS.md:      *)
(* "retries are idempotent"), without handlers, statements or time-outs: a *)
(* task is accepted for one request, that request is performed at most     *)
(* once, "completed" says that it was, and a verdict is never taken back.  *)
(* A failed task may still have been performed, before or after the        *)
(* verdict: a time-out does not stop the API.                              *)
(***************************************************************************)
CONSTANTS Tasks, Requests, Nothing

VARIABLES
    asked,      \* the request a task was accepted for
    performed,  \* the request performed for it
    verdict

vars == <<asked, performed, verdict>>

Init ==
    /\ asked = [t \in Tasks |-> Nothing]
    /\ performed = [t \in Tasks |-> Nothing]
    /\ verdict = [t \in Tasks |-> "none"]

Accept(t, r) ==
    /\ asked[t] = Nothing
    /\ asked' = [asked EXCEPT ![t] = r]
    /\ UNCHANGED <<performed, verdict>>

Perform(t) ==
    /\ asked[t] # Nothing /\ performed[t] = Nothing
    /\ performed' = [performed EXCEPT ![t] = asked[t]]
    /\ UNCHANGED <<asked, verdict>>

Settle(t, v) ==
    /\ asked[t] # Nothing /\ verdict[t] = "none"
    /\ v = "completed" => performed[t] # Nothing
    /\ verdict' = [verdict EXCEPT ![t] = v]
    /\ UNCHANGED <<asked, performed>>

Next ==
    \E t \in Tasks :
        \/ \E r \in Requests : Accept(t, r)
        \/ Perform(t)
        \/ Settle(t, "completed") \/ Settle(t, "failed")

Spec == Init /\ [][Next]_vars
=============================================================================
