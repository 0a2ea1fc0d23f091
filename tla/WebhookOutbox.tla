---------------------------- MODULE WebhookOutbox ----------------------------
(***************************************************************************)
(* The transactional webhook outbox: internal/repository/webhook.go, its   *)
(* delivery workers internal/webhook/dispatcher.go, and the three tables   *)
(* of migrations/000011 and 000102 they share across API replicas.         *)
(*                                                                         *)
(* A step is one database transaction or one HTTP exchange.  PostgreSQL    *)
(* runs at READ COMMITTED, so the two INSERT statements of an enqueue are  *)
(* two steps, each with a snapshot of its own, and their jobs stay         *)
(* invisible until the source transaction commits.  ClaimDelivery and      *)
(* FinishDelivery lock the rows they touch and are one step each.          *)
(*                                                                         *)
(* Time is abstract: a retry's next_attempt_at may have come at any step   *)
(* and a lease may expire at any step, with one timing assumption: a lease *)
(* (ClaimTTL, 30 s) outlives the HTTP exchange made under it (client       *)
(* timeout, 10 s).  A claim is named by a token, a counter for the code's  *)
(* fresh UUID.                                                             *)
(***************************************************************************)
EXTENDS Integers, FiniteSets

CONSTANTS
    Hooks,        \* rows of webhooks
    Events,       \* logical events, each enqueued by one source transaction
    Subscribers,  \* [Events -> SUBSET Hooks], the hooks whose events list it
    Workers,      \* the worker goroutines of every replica
    NoJob,        \* the job of an idle worker
    MaxAttempts,  \* WorkerOptions.MaxAttempts (6)
    DisableAt,    \* consecutive failures that deactivate a hook (10)
    MaxFaults,    \* bound: crashes, shutdowns, lost transactions, stalls
    MaxTests      \* bound: deliveries by the owner's test endpoint

Jobs == Events \X Hooks

ASSUME SubscribersAssumption == Subscribers \in [Events -> SUBSET Hooks]
ASSUME NoJobAssumption == NoJob \notin Jobs
ASSUME AttemptsAssumption == MaxAttempts \in Nat \ {0}
ASSUME DisableAssumption == DisableAt \in Nat \ {0}
ASSUME BoundsAssumption == MaxFaults \in Nat /\ MaxTests \in Nat

VARIABLES
    hook,      \* webhooks: row state, is_active, failure_count, claim token
    job,       \* webhook_delivery_jobs: status, attempt_count, claim_token
    log,       \* webhook_deliveries rows written by FinishDelivery
    source,    \* the source transactions and the rows they have not committed
    worker,    \* what each ProcessOne call holds in its local variables
    live,      \* tokens whose lease time has not passed
    claims,    \* tokens issued so far
    accepted,  \* jobs whose request some receiver has taken
    faults, tests

vars == <<hook, job, log, source, worker, live, claims, accepted, faults, tests>>

NoToken == 0

Queued == {"pending", "retry", "processing"}
Settled == {"succeeded", "dead", "canceled"}
Statuses == Queued \cup Settled \cup {"none", "deleted"}
Outcomes == {"ok", "retryable", "permanent"}

NoRow == [row |-> "absent", active |-> FALSE, failures |-> 0, lease |-> NoToken]
Idle == [pc |-> "idle", job |-> NoJob, token |-> NoToken, attempt |-> 0,
         outcome |-> "none"]

Active(h) == hook[h].row = "present" /\ hook[h].active

HookRows == [row : {"absent", "present", "deleted"}, active : BOOLEAN,
             failures : Nat, lease : Nat]
JobRows == [status : Statuses, attempts : Nat, token : Nat]
Attempts == [job : Jobs, attempt : Nat, outcome : Outcomes, terminal : BOOLEAN]
Sources == [pc : {"idle", "event", "jobs", "done"}, hooks : SUBSET Hooks]
Claimants == [pc : {"idle", "sending", "finishing"}, job : Jobs \cup {NoJob},
              token : Nat, attempt : Nat, outcome : Outcomes \cup {"none"}]

TypeOK ==
    /\ hook \in [Hooks -> HookRows]
    /\ job \in [Jobs -> JobRows]
    /\ log \subseteq Attempts
    /\ source \in [Events -> Sources]
    /\ worker \in [Workers -> Claimants]
    /\ \A w \in Workers : worker[w].pc # "idle" => worker[w].job \in Jobs
    /\ \A w \in Workers : worker[w].pc = "finishing" => worker[w].outcome \in Outcomes
    /\ live \subseteq Nat
    /\ claims \in Nat
    /\ accepted \subseteq Jobs
    /\ faults \in Nat
    /\ tests \in Nat

Init ==
    /\ hook = [h \in Hooks |-> NoRow]
    /\ job = [j \in Jobs |-> [status |-> "none", attempts |-> 0, token |-> NoToken]]
    /\ log = {}
    /\ source = [e \in Events |-> [pc |-> "idle", hooks |-> {}]]
    /\ worker = [w \in Workers |-> Idle]
    /\ live = {}
    /\ claims = 0
    /\ accepted = {}
    /\ faults = 0
    /\ tests = 0

-----------------------------------------------------------------------------
(* Registrations: Create, Delete and the owner's test delivery.            *)

CreateHook(h) ==
    /\ hook[h] = NoRow
    /\ hook' = [hook EXCEPT ![h].row = "present", ![h].active = TRUE]
    /\ UNCHANGED <<job, log, source, worker, live, claims, accepted, faults, tests>>

\* The foreign keys cascade to jobs and history.  An uncommitted job holds a
\* key-share lock on its hook, so the delete waits for that transaction.
DeleteHook(h) ==
    /\ hook[h].row = "present"
    /\ \A e \in Events : h \notin source[e].hooks
    /\ hook' = [hook EXCEPT ![h] = [NoRow EXCEPT !.row = "deleted"]]
    /\ job' = [j \in Jobs |->
                 IF j[2] = h /\ job[j].status # "none"
                 THEN [status |-> "deleted", attempts |-> 0, token |-> NoToken]
                 ELSE job[j]]
    /\ log' = {r \in log : r.job[2] # h}
    /\ live' = live \ {hook[h].lease}
    /\ UNCHANGED <<source, worker, claims, accepted, faults, tests>>

\* Mutant: the threshold compared with <= instead of <.
Fail_OffByOne(row) ==
    [row EXCEPT !.failures = @ + 1, !.active = @ /\ row.failures + 1 <= DisableAt]

\* One more failure in a row; the tenth deactivates.
Fail(row) ==
    [row EXCEPT !.failures = @ + 1, !.active = @ /\ row.failures + 1 < DisableAt]

\* deliver sends outside any lease and records the result on the hook alone:
\* RecordFailure does not cancel jobs, ResetFailure also reactivates.
TestDelivery(h) ==
    /\ tests < MaxTests
    /\ hook[h].row = "present"
    /\ \/ hook' = [hook EXCEPT ![h] = Fail(@)]
       \/ hook' = [hook EXCEPT ![h].failures = 0, ![h].active = TRUE]
    /\ tests' = tests + 1
    /\ UNCHANGED <<job, log, source, worker, live, claims, accepted, faults>>

-----------------------------------------------------------------------------
(* enqueueWebhookEvent inside the transaction of the source mutation.      *)

\* No active subscriber: no event row, and the caller goes on.
InsertEvent(e) ==
    /\ source[e].pc = "idle"
    /\ source' = [source EXCEPT ![e].pc =
                    IF \E h \in Subscribers[e] : Active(h) THEN "event" ELSE "done"]
    /\ UNCHANGED <<hook, job, log, worker, live, claims, accepted, faults, tests>>

\* The second statement reads the subscribers again.
InsertJobs(e) ==
    /\ source[e].pc = "event"
    /\ source' = [source EXCEPT ![e] =
                    [pc |-> "jobs", hooks |-> {h \in Subscribers[e] : Active(h)}]]
    /\ UNCHANGED <<hook, job, log, worker, live, claims, accepted, faults, tests>>

CommitSource(e) ==
    /\ source[e].pc = "jobs"
    /\ job' = [j \in Jobs |->
                 IF j[1] = e /\ j[2] \in source[e].hooks
                 THEN [status |-> "pending", attempts |-> 0, token |-> NoToken]
                 ELSE job[j]]
    /\ source' = [source EXCEPT ![e] = [pc |-> "done", hooks |-> {}]]
    /\ UNCHANGED <<hook, log, worker, live, claims, accepted, faults, tests>>

AbortSource(e) ==
    /\ source[e].pc \in {"event", "jobs"}
    /\ source' = [source EXCEPT ![e] = [pc |-> "done", hooks |-> {}]]
    /\ UNCHANGED <<hook, job, log, worker, live, claims, accepted, faults, tests>>

-----------------------------------------------------------------------------
(* ProcessOne: claim, send, finish.                                        *)

\* Mutant: the claim does not look at the destination's lease.
LeaseFree_Unchecked(h) == h \in Hooks

LeaseFree(h) == hook[h].lease \notin live

\* Mutant: any job without a running claim is due, settled ones included.
Due_Settled(j) ==
    job[j].status \notin {"none", "deleted"} /\ job[j].token \notin live

\* Mutant: a claim that ran out is never taken over.
Due_NoReclaim(j) == job[j].status \in {"pending", "retry"}

Due(j) ==
    \/ job[j].status \in {"pending", "retry"}
    \/ job[j].status = "processing" /\ job[j].token \notin live

\* One job and its destination, leased together under one new token.
Claim(w, j) ==
    LET h == j[2]
        token == claims + 1
        attempt == job[j].attempts + 1
    IN  /\ worker[w].pc = "idle"
        /\ Active(h)
        /\ LeaseFree(h)
        /\ Due(j)
        /\ hook' = [hook EXCEPT ![h].lease = token]
        /\ job' = [job EXCEPT ![j] =
                     [status |-> "processing", attempts |-> attempt, token |-> token]]
        /\ worker' = [worker EXCEPT ![w] =
                        [pc |-> "sending", job |-> j, token |-> token,
                         attempt |-> attempt, outcome |-> "none"]]
        /\ live' = live \cup {token}
        /\ claims' = token
        /\ UNCHANGED <<log, source, accepted, faults, tests>>

\* The HTTP exchange.  A 2xx means the receiver took the request, a terminal
\* status that it refused it; after a timeout or a 5xx nobody knows.
Send(w) ==
    /\ worker[w].pc = "sending"
    /\ \E outcome \in Outcomes :
         /\ worker' = [worker EXCEPT ![w].pc = "finishing", ![w].outcome = outcome]
         /\ \/ outcome # "permanent" /\ accepted' = accepted \cup {worker[w].job}
            \/ outcome # "ok" /\ accepted' = accepted
    /\ UNCHANGED <<hook, job, log, source, live, claims, faults, tests>>

\* FinishDelivery first locks its job by status and token.
Owns(w) ==
    LET j == worker[w].job
    IN  job[j].status = "processing" /\ job[j].token = worker[w].token

HoldsLease(w) == hook[worker[w].job[2]].lease = worker[w].token

AttemptRow(w, terminal) ==
    [job |-> worker[w].job, attempt |-> worker[w].attempt,
     outcome |-> worker[w].outcome, terminal |-> terminal]

\* Mutant: a status the table's CHECK constraint does not know.
Close_Failed(j, status) ==
    [status |-> "failed", attempts |-> job[j].attempts, token |-> NoToken]

Close(j, status) == [status |-> status, attempts |-> job[j].attempts, token |-> NoToken]

\* A success stands even when the lease was lost; the hook is then untouched.
FinishSuccess(w) ==
    LET j == worker[w].job
        h == j[2]
    IN  /\ worker[w].pc = "finishing"
        /\ worker[w].outcome = "ok"
        /\ Owns(w)
        /\ hook' = IF HoldsLease(w)
                   THEN [hook EXCEPT ![h].failures = 0, ![h].active = TRUE,
                                     ![h].lease = NoToken]
                   ELSE hook
        /\ job' = [job EXCEPT ![j] = Close(j, "succeeded")]
        /\ log' = log \cup {AttemptRow(w, FALSE)}
        /\ worker' = [worker EXCEPT ![w] = Idle]
        /\ live' = live \ {worker[w].token}
        /\ UNCHANGED <<source, claims, accepted, faults, tests>>

\* Mutant: one attempt too many.
GivesUp_Late(w, row) ==
    \/ worker[w].outcome = "permanent"
    \/ worker[w].attempt > MaxAttempts
    \/ ~row.active

GivesUp(w, row) ==
    \/ worker[w].outcome = "permanent"
    \/ worker[w].attempt >= MaxAttempts
    \/ ~row.active

\* A failure needs the lease.  A hook found inactive takes its queue with it.
FinishFailure(w) ==
    LET j == worker[w].job
        h == j[2]
        row == [Fail(hook[h]) EXCEPT !.lease = NoToken]
        terminal == GivesUp(w, row)
        status == IF terminal THEN "dead" ELSE "retry"
    IN  /\ worker[w].pc = "finishing"
        /\ worker[w].outcome # "ok"
        /\ Owns(w)
        /\ HoldsLease(w)
        /\ hook' = [hook EXCEPT ![h] = row]
        /\ job' = [k \in Jobs |->
                     IF k = j THEN Close(j, status)
                     ELSE IF ~row.active /\ k[2] = h /\ job[k].status \in Queued
                     THEN Close(k, "canceled")
                     ELSE job[k]]
        /\ log' = log \cup {AttemptRow(w, terminal)}
        /\ worker' = [worker EXCEPT ![w] = Idle]
        /\ live' = live \ {worker[w].token}
        /\ UNCHANGED <<source, claims, accepted, faults, tests>>

\* No such claim any more, or no lease for a failure: the transaction rolls back.
FinishRejected(w) ==
    /\ worker[w].pc = "finishing"
    /\ ~Owns(w) \/ (worker[w].outcome # "ok" /\ ~HoldsLease(w))
    /\ worker' = [worker EXCEPT ![w] = Idle]
    /\ UNCHANGED <<hook, job, log, source, live, claims, accepted, faults, tests>>

\* A crash, a shutdown that cancels the context, or a database error: the
\* claim is left to its lease.
WorkerFails(w) ==
    /\ faults < MaxFaults
    /\ worker[w].pc # "idle"
    /\ worker' = [worker EXCEPT ![w] = Idle]
    /\ faults' = faults + 1
    /\ UNCHANGED <<hook, job, log, source, live, claims, accepted, tests>>

\* Time passes the lease of a claim nobody works on any more.
LeaseExpires(h) ==
    /\ hook[h].lease \in live
    /\ \A w \in Workers : worker[w].token # hook[h].lease
    /\ live' = live \ {hook[h].lease}
    /\ UNCHANGED <<hook, job, log, source, worker, claims, accepted, faults, tests>>

\* A worker stalls between the answer and its FinishDelivery past its lease.
LeaseOverrun(w) ==
    /\ faults < MaxFaults
    /\ worker[w].pc = "finishing"
    /\ worker[w].token \in live
    /\ live' = live \ {worker[w].token}
    /\ faults' = faults + 1
    /\ UNCHANGED <<hook, job, log, source, worker, claims, accepted, tests>>

-----------------------------------------------------------------------------
Next ==
    \/ \E h \in Hooks : CreateHook(h) \/ DeleteHook(h) \/ TestDelivery(h) \/ LeaseExpires(h)
    \/ \E e \in Events : InsertEvent(e) \/ InsertJobs(e) \/ CommitSource(e) \/ AbortSource(e)
    \/ \E w \in Workers, j \in Jobs : Claim(w, j)
    \/ \E w \in Workers : Send(w) \/ FinishSuccess(w) \/ FinishFailure(w)
                          \/ FinishRejected(w) \/ WorkerFails(w) \/ LeaseOverrun(w)

Spec == Init /\ [][Next]_vars

\* The poll loop of Run keeps every replica claiming, oldest due job first, so
\* a job due again and again is claimed; the HTTP client times out, the finish
\* transaction follows, source transactions end, and leases run out.
Fairness ==
    /\ \A j \in Jobs : SF_vars(\E w \in Workers : Claim(w, j))
    /\ \A w \in Workers :
         WF_vars(Send(w) \/ FinishSuccess(w) \/ FinishFailure(w) \/ FinishRejected(w))
    /\ \A h \in Hooks : WF_vars(LeaseExpires(h))
    /\ \A e \in Events : WF_vars(InsertJobs(e) \/ CommitSource(e))

FairSpec == Spec /\ Fairness

-----------------------------------------------------------------------------
(* What must hold.                                                         *)

\* A destination's lease and the claim it was taken for come and go together:
\* a lease is always backed by a processing job of that hook, a claim whose
\* time has not passed still holds its hook, and no two jobs share a token.
\* (ClaimDelivery writes both rows, FinishDelivery clears both.)
LeaseFollowsClaim ==
    /\ \A h \in Hooks : hook[h].lease # NoToken =>
         \E e \in Events : /\ job[<<e, h>>].status = "processing"
                           /\ job[<<e, h>>].token = hook[h].lease
    /\ \A j \in Jobs : job[j].token \in live => hook[j[2]].lease = job[j].token
    /\ \A j, k \in Jobs : job[j].token = job[k].token /\ j # k => job[j].token = NoToken

\* Across all replicas at most one worker is talking to a destination, also
\* when claims expire, hooks are tested, deactivated or deleted meanwhile.
OneInFlightPerHook ==
    \A v, w \in Workers :
        /\ worker[v].pc = "sending"
        /\ worker[w].pc = "sending"
        /\ worker[v].job[2] = worker[w].job[2]
        => v = w

\* The delivery history accounts for a job's state: a success row exactly when
\* it succeeded, a terminal row exactly when it is dead, the attempt under way
\* not yet in the history, also when finishes outlive their claims.  No more
\* than MaxAttempts attempts are recorded; attempt_count, which every request
\* is preceded by, passes the limit by at most one for each crash or stall.
Rows(j) == {r \in log : r.job = j}

HistoryExplainsJob ==
    \A j \in Jobs :
        /\ job[j].status = "succeeded" <=> \E r \in Rows(j) : r.outcome = "ok"
        /\ job[j].status = "dead" <=> \E r \in Rows(j) : r.terminal
        /\ job[j].status = "processing" => \A r \in Rows(j) : r.attempt < job[j].attempts
        /\ Cardinality(Rows(j)) <= MaxAttempts
        /\ job[j].attempts <= MaxAttempts + faults

\* Does not hold: ClaimDelivery takes over the claim of a worker that died or
\* stalled in the last attempt and looks at no limit.  docs/AGENT_WEBHOOKS.md: "Network
\* errors, 408, 425, 429, and 5xx responses are retried up to six attempts".
AttemptsWithinLimit == \A j \in Jobs : job[j].attempts <= MaxAttempts

\* Whatever interleaving of worker results and test deliveries wrote the row,
\* a hook is active exactly while its failure streak is below the threshold.
HealthMatchesStreak ==
    \A h \in Hooks : hook[h].row = "present" =>
        (hook[h].active <=> hook[h].failures < DisableAt)

\* A settled job is never claimed, retried, canceled or finished again; only
\* the removal of its hook ends it.
SettledIsFinal ==
    [][\A j \in Jobs : job[j].status \in Settled =>
         job'[j].status \in {job[j].status, "deleted"}]_vars

\* No job waits for ever on an active hook, even when the worker that claimed
\* it dies or stalls.
QueueDrains ==
    \A j \in Jobs : (job[j].status \in Queued) ~> ~(job[j].status \in Queued /\ Active(j[2]))

\* Does not hold: failed tests of the owner deactivate too and cancel nothing.
\* docs/AGENT_WEBHOOKS.md: "Ten consecutive failed attempts deactivate the
\* registration and cancel its remaining queued jobs."
DeactivationCancelsQueue ==
    [][\A h \in Hooks : Active(h) /\ ~Active(h)' =>
         \A e \in Events : job'[<<e, h>>].status \notin Queued]_vars

-----------------------------------------------------------------------------
(* The outbox implements the promise made to the owner of a hook.          *)

PromiseState(j) ==
    CASE job[j].status \in Queued -> "queued"
      [] job[j].status = "succeeded" -> "delivered"
      [] job[j].status \in {"dead", "canceled"} -> "abandoned"
      [] job[j].status = "deleted" -> "gone"
      [] OTHER -> "none"

Promise == INSTANCE DeliveryPromise WITH state <- [j \in Jobs |-> PromiseState(j)]

PromiseKept == Promise!Spec
=============================================================================
