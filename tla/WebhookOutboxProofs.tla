------------------------- MODULE WebhookOutboxProofs -------------------------
(***************************************************************************)
(* Theorems about WebhookOutbox for every set of hooks, events and workers *)
(* and every value of its limits.                                          *)
(***************************************************************************)
EXTENDS WebhookOutbox, FiniteSetTheorems, TLAPS

Busy(w) == worker[w].pc # "idle"

\* Every token in the system has been issued, and a busy worker holds one.
TokensIssued ==
    /\ \A h \in Hooks : hook[h].lease <= claims
    /\ \A j \in Jobs : job[j].token <= claims
    /\ \A w \in Workers : worker[w].token <= claims
    /\ \A w \in Workers : Busy(w) => worker[w].job \in Jobs /\ worker[w].token # NoToken
    /\ \A t \in live : t # NoToken /\ t <= claims

\* A token names one claim: no two busy workers hold it, and if it is the
\* lease of a hook, the worker holding it works for that hook.
TokensName ==
    /\ \A v, w \in Workers :
         Busy(v) /\ Busy(w) /\ worker[v].token = worker[w].token => v = w
    /\ \A w \in Workers, h \in Hooks :
         Busy(w) /\ hook[h].lease = worker[w].token => worker[w].job[2] = h

\* A worker that is talking to a hook holds its unexpired lease, unless the
\* hook was deleted under it.
SendingHoldsLease ==
    \A w \in Workers : worker[w].pc = "sending" =>
        \/ hook[worker[w].job[2]].row = "deleted"
        \/ worker[w].token \in live /\ HoldsLease(w)

FlightInv ==
    /\ TypeOK
    /\ TokensIssued
    /\ TokensName
    /\ SendingHoldsLease
    /\ OneInFlightPerHook

-----------------------------------------------------------------------------
(* Type correctness.                                                       *)

\* The rows the actions write are rows of their tables.
LEMMA RowsWritten ==
    /\ NoRow \in HookRows
    /\ [NoRow EXCEPT !.row = "deleted"] \in HookRows
    /\ Idle \in Claimants
    /\ \A row \in HookRows :
         /\ Fail(row) \in HookRows
         /\ \A t \in Nat : [row EXCEPT !.lease = t] \in HookRows
         /\ [row EXCEPT !.failures = 0, !.active = TRUE] \in HookRows
         /\ [row EXCEPT !.row = "present", !.active = TRUE] \in HookRows
         /\ [row EXCEPT !.failures = 0, !.active = TRUE, !.lease = NoToken] \in HookRows
<1>1. \A row \in HookRows : (row.active /\ row.failures + 1 < DisableAt) \in BOOLEAN
  OBVIOUS
<1>2. ASSUME NEW row \in HookRows PROVE Fail(row) \in HookRows
  <2>1. PICK b \in BOOLEAN : b = (row.active /\ row.failures + 1 < DisableAt)
    BY <1>1
  <2>2. Fail(row) = [row EXCEPT !.failures = row.failures + 1, !.active = b]
    BY <2>1 DEF Fail
  <2>3. row.failures + 1 \in Nat
    BY DEF HookRows
  <2> DEFINE n == row.failures + 1
  <2>4. Fail(row) = [row EXCEPT !.failures = n, !.active = b]
    BY <2>2
  <2> HIDE DEF n
  <2> QED BY <2>3, <2>4 DEF HookRows, n
<1>3. \A row \in HookRows :
         /\ \A t \in Nat : [row EXCEPT !.lease = t] \in HookRows
         /\ [row EXCEPT !.failures = 0, !.active = TRUE] \in HookRows
         /\ [row EXCEPT !.row = "present", !.active = TRUE] \in HookRows
         /\ [row EXCEPT !.failures = 0, !.active = TRUE, !.lease = NoToken] \in HookRows
  BY DEF HookRows, NoToken
<1>4. NoRow \in HookRows /\ [NoRow EXCEPT !.row = "deleted"] \in HookRows
  BY DEF NoRow, HookRows, NoToken
<1>5. Idle \in Claimants
  BY DEF Idle, Claimants, NoToken
<1> QED
  BY <1>2, <1>3, <1>4, <1>5

LEMMA ClosedRows ==
    ASSUME TypeOK, NEW j \in Jobs, NEW status \in Statuses
    PROVE  Close(j, status) \in JobRows
<1>1. job[j] \in JobRows
  BY DEF TypeOK
<1> QED
  BY <1>1 DEF Close, JobRows, NoToken

\* Putting a worker back to idle keeps the types of its claim.
LEMMA IdleWorker ==
    ASSUME TypeOK, NEW w \in Workers, worker' = [worker EXCEPT ![w] = Idle]
    PROVE  /\ worker' \in [Workers -> Claimants]
           /\ \A v \in Workers : worker'[v].pc # "idle" => worker'[v].job \in Jobs
           /\ \A v \in Workers :
                worker'[v].pc = "finishing" => worker'[v].outcome \in Outcomes
<1>1. \A v \in Workers : worker'[v] = IF v = w THEN Idle ELSE worker[v]
  BY DEF TypeOK
<1>2. Idle.pc = "idle" /\ Idle \in Claimants
  BY RowsWritten DEF Idle
<1> QED
  BY <1>1, <1>2 DEF TypeOK

\* Each action keeps every variable in its type (the schema's columns).
LEMMA TypeInvariance == TypeOK /\ [Next]_vars => TypeOK'
<1> SUFFICES ASSUME TypeOK, [Next]_vars PROVE TypeOK'
  OBVIOUS
<1>1. ASSUME NEW h \in Hooks, CreateHook(h) PROVE TypeOK'
  <2>1. hook' = [hook EXCEPT ![h] = [hook[h] EXCEPT !.row = "present", !.active = TRUE]]
    BY <1>1 DEF CreateHook
  <2> QED BY <1>1, <2>1, RowsWritten DEF TypeOK, CreateHook
<1>2. ASSUME NEW h \in Hooks, DeleteHook(h) PROVE TypeOK'
  <2>1. [status |-> "deleted", attempts |-> 0, token |-> NoToken] \in JobRows
    BY DEF JobRows, Statuses, NoToken
  <2>2. job' \in [Jobs -> JobRows]
    BY <1>2, <2>1 DEF TypeOK, DeleteHook
  <2> QED BY <1>2, <2>2, RowsWritten DEF TypeOK, DeleteHook
<1>3. ASSUME NEW h \in Hooks, TestDelivery(h) PROVE TypeOK'
  <2>1. \/ hook' = [hook EXCEPT ![h] = Fail(hook[h])]
        \/ hook' = [hook EXCEPT ![h] = [hook[h] EXCEPT !.failures = 0, !.active = TRUE]]
    BY <1>3 DEF TestDelivery
  <2>2. hook' \in [Hooks -> HookRows]
    BY <2>1, RowsWritten DEF TypeOK
  <2> QED BY <1>3, <2>2 DEF TypeOK, TestDelivery
<1>4. ASSUME NEW h \in Hooks, LeaseExpires(h) PROVE TypeOK'
  BY <1>4 DEF TypeOK, LeaseExpires
<1>5. ASSUME NEW e \in Events, InsertEvent(e) PROVE TypeOK'
  <2>1. PICK pc \in {"event", "done"} : source' = [source EXCEPT ![e].pc = pc]
    BY <1>5 DEF InsertEvent
  <2>2. source' \in [Events -> Sources]
    BY <2>1 DEF TypeOK, Sources
  <2> QED BY <1>5, <2>2 DEF TypeOK, InsertEvent
<1>6. ASSUME NEW e \in Events, InsertJobs(e) PROVE TypeOK'
  <2>1. [pc |-> "jobs", hooks |-> {h \in Subscribers[e] : Active(h)}] \in Sources
    BY SubscribersAssumption DEF Sources
  <2> QED BY <1>6, <2>1 DEF TypeOK, InsertJobs
<1>7. ASSUME NEW e \in Events, CommitSource(e) PROVE TypeOK'
  <2>1. [status |-> "pending", attempts |-> 0, token |-> NoToken] \in JobRows
    BY DEF JobRows, Statuses, Queued, NoToken
  <2>2. [pc |-> "done", hooks |-> {}] \in Sources
    BY DEF Sources
  <2> QED BY <1>7, <2>1, <2>2 DEF TypeOK, CommitSource
<1>8. ASSUME NEW e \in Events, AbortSource(e) PROVE TypeOK'
  <2>1. [pc |-> "done", hooks |-> {}] \in Sources
    BY DEF Sources
  <2> QED BY <1>8, <2>1 DEF TypeOK, AbortSource
<1>9. ASSUME NEW w \in Workers, NEW j \in Jobs, Claim(w, j) PROVE TypeOK'
  <2>1. job[j].attempts \in Nat /\ claims + 1 \in Nat /\ j[2] \in Hooks
    BY DEF TypeOK, JobRows, Jobs
  <2>2. [status |-> "processing", attempts |-> job[j].attempts + 1, token |-> claims + 1]
          \in JobRows
    BY <2>1 DEF JobRows, Statuses, Queued
  <2>3. [pc |-> "sending", job |-> j, token |-> claims + 1,
         attempt |-> job[j].attempts + 1, outcome |-> "none"] \in Claimants
    BY <2>1 DEF Claimants
  <2>4. hook' = [hook EXCEPT ![j[2]] = [hook[j[2]] EXCEPT !.lease = claims + 1]]
    BY <1>9 DEF Claim
  <2>5. hook' \in [Hooks -> HookRows]
    BY <2>1, <2>4, RowsWritten DEF TypeOK
  <2> QED BY <1>9, <2>1, <2>2, <2>3, <2>5 DEF TypeOK, Claim
<1>10. ASSUME NEW w \in Workers, Send(w) PROVE TypeOK'
  <2>1. worker[w] \in Claimants
    BY DEF TypeOK
  <2>2. PICK outcome \in Outcomes :
          /\ worker' = [worker EXCEPT ![w].pc = "finishing", ![w].outcome = outcome]
          /\ accepted' = accepted \cup {worker[w].job} \/ accepted' = accepted
    BY <1>10 DEF Send
  <2>4. worker[w].job \in Jobs
    BY <1>10 DEF TypeOK, Send
  <2>3. worker' \in [Workers -> Claimants]
    BY <2>1, <2>2 DEF TypeOK, Claimants
  <2> QED BY <1>10, <2>2, <2>3, <2>4 DEF TypeOK, Send
<1>11. ASSUME NEW w \in Workers, FinishSuccess(w) PROVE TypeOK'
  <2>1. worker[w].job \in Jobs /\ worker[w].outcome \in Outcomes /\ worker[w].attempt \in Nat
    BY <1>11 DEF TypeOK, FinishSuccess, Claimants
  <2>2. AttemptRow(w, FALSE) \in Attempts
    BY <2>1 DEF AttemptRow, Attempts
  <2>3. Close(worker[w].job, "succeeded") \in JobRows
    BY <2>1, ClosedRows DEF Statuses, Settled
  <2>4. \/ hook' = hook
        \/ hook' = [hook EXCEPT ![worker[w].job[2]] =
                      [hook[worker[w].job[2]] EXCEPT !.failures = 0, !.active = TRUE,
                                                     !.lease = NoToken]]
    BY <1>11 DEF FinishSuccess
  <2>5. hook' \in [Hooks -> HookRows]
    <3>1. worker[w].job[2] \in Hooks
      BY <2>1 DEF Jobs
    <3>2. hook[worker[w].job[2]] \in HookRows
      BY <3>1 DEF TypeOK
    <3> QED BY <2>4, <3>2, RowsWritten DEF TypeOK
  <2> QED BY <1>11, <2>2, <2>3, <2>5, IdleWorker DEF TypeOK, FinishSuccess
<1>12. ASSUME NEW w \in Workers, FinishFailure(w) PROVE TypeOK'
  <2> DEFINE j == worker[w].job
             row == [Fail(hook[j[2]]) EXCEPT !.lease = NoToken]
  <2>1. j \in Jobs /\ worker[w].outcome \in Outcomes /\ worker[w].attempt \in Nat
    BY <1>12 DEF TypeOK, FinishFailure, Claimants
  <2>2. PICK terminal \in BOOLEAN : terminal = GivesUp(w, row)
    BY DEF GivesUp
  <2>3. log' = log \cup {AttemptRow(w, terminal)}
    BY <1>12, <2>2 DEF FinishFailure
  <2>4. AttemptRow(w, terminal) \in Attempts
    BY <2>1 DEF AttemptRow, Attempts
  <2>5. row \in HookRows
    BY <2>1, RowsWritten DEF TypeOK, Jobs, NoToken
  <2>6. \A k \in Jobs : /\ Close(k, "dead") \in JobRows
                        /\ Close(k, "retry") \in JobRows
                        /\ Close(k, "canceled") \in JobRows
    BY ClosedRows DEF Statuses, Settled, Queued
  <2>7. \A k \in Jobs : job'[k] \in {Close(k, "dead"), Close(k, "retry"),
                                     Close(k, "canceled"), job[k]}
    BY <1>12 DEF FinishFailure
  <2>8. job' \in [Jobs -> JobRows]
    BY <1>12, <2>6, <2>7 DEF TypeOK, FinishFailure
  <2>9. hook' \in [Hooks -> HookRows]
    BY <1>12, <2>5 DEF TypeOK, FinishFailure
  <2> QED BY <1>12, <2>3, <2>4, <2>8, <2>9, IdleWorker DEF TypeOK, FinishFailure
<1>13. ASSUME NEW w \in Workers, FinishRejected(w) PROVE TypeOK'
  BY <1>13, IdleWorker DEF TypeOK, FinishRejected
<1>14. ASSUME NEW w \in Workers, WorkerFails(w) PROVE TypeOK'
  <2>1. faults' \in Nat
    BY <1>14 DEF TypeOK, WorkerFails
  <2> QED BY <1>14, <2>1, IdleWorker DEF TypeOK, WorkerFails
<1>15. ASSUME NEW w \in Workers, LeaseOverrun(w) PROVE TypeOK'
  <2>1. faults' \in Nat
    BY <1>15 DEF TypeOK, LeaseOverrun
  <2>2. live' \subseteq Nat
    BY <1>15 DEF TypeOK, LeaseOverrun
  <2> QED BY <1>15, <2>1, <2>2 DEF TypeOK, LeaseOverrun
<1>16. CASE UNCHANGED vars
  BY <1>16 DEF TypeOK, vars
<1> QED
  BY <1>1, <1>2, <1>3, <1>4, <1>5, <1>6, <1>7, <1>8, <1>9, <1>10, <1>11, <1>12,
     <1>13, <1>14, <1>15, <1>16 DEF Next

\* Empty tables and idle workers are well typed.
LEMMA TypeInitially == Init => TypeOK
<1> SUFFICES ASSUME Init PROVE TypeOK
  OBVIOUS
<1>1. [status |-> "none", attempts |-> 0, token |-> NoToken] \in JobRows
  BY DEF JobRows, Statuses, NoToken
<1>2. [pc |-> "idle", hooks |-> {}] \in Sources
  BY DEF Sources
<1>3. \A w \in Workers : worker[w].pc = "idle"
  BY DEF Init, Idle
<1> QED
  BY <1>1, <1>2, <1>3, RowsWritten DEF Init, TypeOK

\* TypeOK holds in every reachable state: every action of the repository and
\* the dispatcher keeps the rows within the schema.
THEOREM TypeCorrect == Spec => []TypeOK
  BY TypeInitially, TypeInvariance, PTL DEF Spec

-----------------------------------------------------------------------------
(* One request in flight per destination.                                  *)

\* Steps that issue no token: at most the token t is given up, by a step that
\* no worker talking to a hook under t survives, unless the hook is deleted.
GivesUpToken(t) ==
    /\ claims' = claims
    /\ live' \subseteq live /\ live \ {t} \subseteq live'
    /\ \A h \in Hooks :
         /\ hook'[h].lease = hook[h].lease \/ (hook[h].lease = t /\ hook'[h].lease = NoToken)
         /\ hook[h].row = "deleted" => hook'[h].row = "deleted"
    /\ \A j \in Jobs : job'[j].token \in {NoToken, job[j].token}
    /\ \A v \in Workers : worker'[v] = worker[v] \/ worker'[v] = Idle
    /\ \A v \in Workers : worker'[v].pc = "sending" =>
         worker[v].token # t \/ hook'[worker[v].job[2]].row = "deleted"

LEMMA TokenGivenUp ==
    ASSUME FlightInv, TypeOK', NEW t \in Nat, GivesUpToken(t)
    PROVE  FlightInv'
<1> USE DEF GivesUpToken
<1>1. Idle.pc = "idle" /\ Idle.token = NoToken
  BY DEF Idle
<1>2. \A v \in Workers : worker'[v].pc # "idle" => worker'[v] = worker[v] /\ Busy(v)
  BY <1>1 DEF Busy
<1>3. TokensIssued'
  <2>1. \A h \in Hooks : hook[h].lease \in Nat /\ hook'[h].lease <= claims'
    BY DEF FlightInv, TokensIssued, TypeOK, HookRows, NoToken
  <2>2. \A j \in Jobs : job'[j].token <= claims'
    BY DEF FlightInv, TokensIssued, TypeOK, NoToken
  <2>3. \A v \in Workers : worker'[v].token <= claims'
    BY <1>1 DEF FlightInv, TokensIssued, TypeOK, NoToken
  <2> QED
    BY <1>2, <2>1, <2>2, <2>3 DEF FlightInv, TokensIssued, Busy
<1>4. TokensName'
  <2>1. \A v \in Workers, h \in Hooks :
          worker'[v].pc # "idle" /\ hook'[h].lease = worker'[v].token
            => hook[h].lease = worker[v].token
    BY <1>2 DEF FlightInv, TokensIssued, NoToken
  <2> QED
    BY <1>2, <2>1 DEF FlightInv, TokensName, Busy
<1>5. SendingHoldsLease'
  <2> SUFFICES ASSUME NEW v \in Workers, worker'[v].pc = "sending",
                      hook'[worker'[v].job[2]].row # "deleted"
               PROVE  worker'[v].token \in live' /\ HoldsLease(v)'
    BY DEF SendingHoldsLease
  <2> DEFINE h == worker[v].job[2]
  <2>1. worker'[v] = worker[v] /\ worker[v].token # t
    BY <1>2
  <2>2. h \in Hooks
    BY <2>1 DEF FlightInv, TypeOK, Jobs
  <2>3. worker[v].token \in live /\ hook[h].lease = worker[v].token
    BY <2>1, <2>2 DEF FlightInv, SendingHoldsLease, HoldsLease
  <2>4. worker[v].token \in live' /\ hook'[h].lease = worker[v].token
    BY <2>1, <2>2, <2>3
  <2> QED
    BY <2>1, <2>4 DEF HoldsLease
<1>6. OneInFlightPerHook'
  BY <1>2 DEF FlightInv, OneInFlightPerHook
<1> QED
  BY <1>3, <1>4, <1>5, <1>6 DEF FlightInv

\* A claim issues a token of its own, to a hook nobody is talking to: whoever
\* was would hold the unexpired lease that ClaimDelivery looks for.
LEMMA ClaimKeepsFlight ==
    ASSUME FlightInv, TypeOK', NEW w \in Workers, NEW j \in Jobs, Claim(w, j)
    PROVE  FlightInv'
<1> DEFINE token == claims + 1
           h == j[2]
<1>1. /\ h \in Hooks
      /\ claims \in Nat
      /\ token # NoToken
  BY DEF FlightInv, TypeOK, Jobs, NoToken
<1>2. /\ worker[w].pc = "idle"
      /\ claims' = token
      /\ live' = live \cup {token}
      /\ worker' = [worker EXCEPT ![w] =
                      [pc |-> "sending", job |-> j, token |-> token,
                       attempt |-> job[j].attempts + 1, outcome |-> "none"]]
  BY DEF Claim
<1>3. /\ worker'[w].pc = "sending" /\ worker'[w].job = j /\ worker'[w].token = token
      /\ \A v \in Workers : v # w => worker'[v] = worker[v]
  BY <1>2 DEF FlightInv, TypeOK
<1>4. /\ hook'[h].lease = token
      /\ \A g \in Hooks : g # h => hook'[g] = hook[g]
      /\ hook'[h].row = hook[h].row
      /\ hook[h].row = "present"
      /\ hook[h].lease \notin live
  BY <1>1 DEF Claim, FlightInv, TypeOK, HookRows, Active, LeaseFree
<1>5. /\ job'[j].token = token
      /\ \A k \in Jobs : k # j => job'[k] = job[k]
  BY DEF Claim, FlightInv, TypeOK
<1>6. /\ \A g \in Hooks : hook[g].lease \in Nat /\ hook[g].lease < token
      /\ \A v \in Workers : worker[v].token \in Nat /\ worker[v].token < token
      /\ \A k \in Jobs : job[k].token \in Nat /\ job[k].token < token
      /\ \A t \in live : t \in Nat /\ t < token
  BY <1>1 DEF FlightInv, TypeOK, TokensIssued, HookRows, JobRows, Claimants
<1>7. TokensIssued'
  <2>1. \A g \in Hooks : hook'[g].lease <= token
    BY <1>1, <1>4, <1>6
  <2>2. \A k \in Jobs : job'[k].token <= token
    BY <1>1, <1>5, <1>6
  <2>3. \A v \in Workers : worker'[v].token <= token
    BY <1>1, <1>3, <1>6
  <2>4. \A v \in Workers : Busy(v)' => worker'[v].job \in Jobs /\ worker'[v].token # NoToken
    BY <1>1, <1>3 DEF FlightInv, TokensIssued, Busy
  <2>5. \A t \in live' : t # NoToken /\ t <= token
    BY <1>1, <1>2, <1>6 DEF FlightInv, TokensIssued
  <2> QED
    BY <1>2, <2>1, <2>2, <2>3, <2>4, <2>5 DEF TokensIssued
<1>8. TokensName'
  <2>1. \A v \in Workers : v # w => worker'[v].token # token
    BY <1>1, <1>3, <1>6
  <2>2. \A g \in Hooks : g # h => hook'[g].lease # token
    BY <1>1, <1>4, <1>6
  <2>3. ASSUME NEW u \in Workers, NEW v \in Workers, Busy(u)', Busy(v)',
               worker'[u].token = worker'[v].token
        PROVE  u = v
    BY <1>3, <2>1, <2>3 DEF FlightInv, TokensName, Busy
  <2>4. ASSUME NEW v \in Workers, NEW g \in Hooks, Busy(v)', hook'[g].lease = worker'[v].token
        PROVE  worker'[v].job[2] = g
    <3>1. CASE v = w
      BY <1>3, <2>2, <2>4, <3>1
    <3>2. CASE v # w
      BY <1>3, <1>4, <2>1, <2>4, <3>2 DEF FlightInv, TokensName, Busy
    <3> QED BY <3>1, <3>2
  <2> QED
    BY <2>3, <2>4 DEF TokensName
<1>9. \A v \in Workers : v # w /\ worker[v].pc = "sending" => worker[v].job[2] # h
  BY <1>4 DEF FlightInv, SendingHoldsLease, HoldsLease
<1>10. SendingHoldsLease'
  <2> SUFFICES ASSUME NEW v \in Workers, worker'[v].pc = "sending"
               PROVE  \/ hook'[worker'[v].job[2]].row = "deleted"
                      \/ worker'[v].token \in live' /\ hook'[worker'[v].job[2]].lease = worker'[v].token
    BY DEF SendingHoldsLease, HoldsLease
  <2>1. CASE v = w
    BY <1>2, <1>3, <1>4, <2>1
  <2>2. CASE v # w
    <3>1. worker'[v] = worker[v] /\ worker[v].job[2] # h
      BY <1>3, <1>9, <2>2
    <3>2. worker[v].job[2] \in Hooks
      BY <3>1 DEF FlightInv, TypeOK, Jobs
    <3>3. hook'[worker[v].job[2]] = hook[worker[v].job[2]]
      BY <1>4, <3>1, <3>2
    <3> QED
      BY <1>2, <3>1, <3>3 DEF FlightInv, SendingHoldsLease, HoldsLease
  <2> QED BY <2>1, <2>2
<1>11. OneInFlightPerHook'
  BY <1>3, <1>9 DEF FlightInv, OneInFlightPerHook
<1> QED
  BY <1>7, <1>8, <1>10, <1>11 DEF FlightInv

\* Sending ends in the worker that holds the answer; no token moves.
LEMMA SendKeepsFlight ==
    ASSUME FlightInv, TypeOK', NEW w \in Workers, Send(w)
    PROVE  FlightInv'
<1>1. /\ worker'[w].pc = "finishing"
      /\ worker'[w].job = worker[w].job
      /\ worker'[w].token = worker[w].token
      /\ worker[w].pc = "sending"
      /\ \A v \in Workers : v # w => worker'[v] = worker[v]
  BY DEF Send, FlightInv, TypeOK, Claimants
<1>2. UNCHANGED <<hook, job, live, claims>>
  BY DEF Send
<1> QED
  BY <1>1, <1>2
  DEF FlightInv, TokensIssued, TokensName, SendingHoldsLease, HoldsLease,
      OneInFlightPerHook, Busy

\* What a finish does to the lease of its hook and the tokens of its jobs.
LEMMA FinishGivesUpToken ==
    ASSUME FlightInv, TypeOK', NEW w \in Workers,
           FinishSuccess(w) \/ FinishFailure(w)
    PROVE  FlightInv'
<1> DEFINE t == worker[w].token
           j == worker[w].job
<1>1. /\ worker[w].pc = "finishing"
      /\ worker' = [worker EXCEPT ![w] = Idle]
      /\ live' = live \ {t}
      /\ claims' = claims
  BY DEF FinishSuccess, FinishFailure
<1>2. j \in Jobs /\ j[2] \in Hooks /\ t \in Nat
  BY <1>1 DEF FlightInv, TypeOK, Claimants, Jobs
<1>3. \A k \in Jobs : job'[k].token \in {NoToken, job[k].token}
  <2>1. \A k \in Jobs, status \in Statuses : Close(k, status).token = NoToken
    BY DEF Close
  <2>2. CASE FinishSuccess(w)
    BY <2>2 DEF FinishSuccess, Close, FlightInv, TypeOK
  <2>3. CASE FinishFailure(w)
    BY <2>3 DEF FinishFailure, Close, FlightInv, TypeOK
  <2> QED BY <2>2, <2>3
<1>4. \A h \in Hooks :
        /\ hook'[h].lease = hook[h].lease \/ (hook[h].lease = t /\ hook'[h].lease = NoToken)
        /\ hook'[h].row = hook[h].row
  <2>1. CASE FinishSuccess(w)
    BY <1>2, <2>1 DEF FinishSuccess, HoldsLease, FlightInv, TypeOK, HookRows
  <2>2. CASE FinishFailure(w)
    <3> DEFINE row == [Fail(hook[j[2]]) EXCEPT !.lease = NoToken]
    <3>1. hook' = [hook EXCEPT ![j[2]] = row] /\ hook[j[2]].lease = t
      BY <2>2 DEF FinishFailure, HoldsLease
    <3>2. hook[j[2]] \in HookRows
      BY <1>2 DEF FlightInv, TypeOK
    <3>3. row.lease = NoToken /\ row.row = hook[j[2]].row
      BY <3>2 DEF Fail, HookRows
    <3> QED BY <1>2, <3>1, <3>3 DEF FlightInv, TypeOK
  <2> QED BY <2>1, <2>2
<1>5. \A v \in Workers : worker'[v] = IF v = w THEN Idle ELSE worker[v]
  BY <1>1 DEF FlightInv, TypeOK
<1>6. \A v \in Workers : worker'[v].pc = "sending" => worker[v].token # t
  BY <1>1, <1>5 DEF FlightInv, TokensName, Busy, Idle
<1>7. GivesUpToken(t)
  BY <1>1, <1>3, <1>4, <1>5, <1>6 DEF GivesUpToken
<1> QED
  BY <1>1, <1>2, <1>7, TokenGivenUp

\* Every step keeps the invariant.
LEMMA FlightInvariance == FlightInv /\ [Next]_vars => FlightInv'
<1> SUFFICES ASSUME FlightInv, [Next]_vars PROVE FlightInv'
  OBVIOUS
<1>t. TypeOK /\ TypeOK'
  BY TypeInvariance DEF FlightInv
<1>n. NoToken \in Nat /\ live \subseteq live /\ live \ {NoToken} \subseteq live
  BY DEF NoToken
<1>s. \A v \in Workers : worker[v].pc = "sending" => worker[v].token # NoToken
  BY DEF FlightInv, TokensIssued, Busy
<1>1. ASSUME NEW h \in Hooks, CreateHook(h) PROVE FlightInv'
  <2>1. \A g \in Hooks : hook'[g].lease = hook[g].lease
                         /\ (hook[g].row = "deleted" => hook'[g].row = "deleted")
    BY <1>1, <1>t DEF CreateHook, TypeOK, HookRows, NoRow
  <2>9. GivesUpToken(NoToken)
    BY <1>1, <1>n, <1>s, <2>1 DEF GivesUpToken, CreateHook
  <2> QED BY <1>t, <1>n, <2>9, TokenGivenUp
<1>2. ASSUME NEW h \in Hooks, DeleteHook(h) PROVE FlightInv'
  <2> DEFINE t == hook[h].lease
  <2>1. t \in Nat /\ live' = live \ {t} /\ UNCHANGED <<worker, claims>>
    BY <1>2, <1>t DEF DeleteHook, TypeOK, HookRows
  <2>2. \A g \in Hooks : IF g = h THEN hook'[g].lease = NoToken /\ hook'[g].row = "deleted"
                                  ELSE hook'[g] = hook[g]
    BY <1>2, <1>t DEF DeleteHook, TypeOK, NoRow
  <2>3. \A j \in Jobs : job'[j].token \in {NoToken, job[j].token}
    BY <1>2 DEF DeleteHook
  <2>4. \A v \in Workers : worker[v].pc = "sending" /\ worker[v].token = t
                             => worker[v].job[2] = h
    BY DEF FlightInv, TokensName, Busy
  <2>9. GivesUpToken(t)
    BY <1>t, <2>1, <2>2, <2>3, <2>4 DEF GivesUpToken
  <2> QED BY <1>t, <1>n, <2>9, <2>1, TokenGivenUp
<1>3. ASSUME NEW h \in Hooks, TestDelivery(h) PROVE FlightInv'
  <2>1. hook[h] \in HookRows
    BY <1>t DEF TypeOK
  <2>2. Fail(hook[h]).lease = hook[h].lease /\ Fail(hook[h]).row = hook[h].row
    BY <2>1 DEF Fail, HookRows
  <2>3. \A g \in Hooks : hook'[g].lease = hook[g].lease
                         /\ (hook[g].row = "deleted" => hook'[g].row = "deleted")
    BY <1>3, <1>t, <2>1, <2>2 DEF TestDelivery, TypeOK, HookRows
  <2>9. GivesUpToken(NoToken)
    BY <1>3, <1>n, <1>s, <2>3 DEF GivesUpToken, TestDelivery
  <2> QED BY <1>t, <1>n, <2>9, TokenGivenUp
<1>4. ASSUME NEW h \in Hooks, LeaseExpires(h) PROVE FlightInv'
  <2>1. hook[h].lease \in Nat
    BY <1>t DEF TypeOK, HookRows
  <2>9. GivesUpToken(hook[h].lease)
    BY <1>t, <1>4, <2>1 DEF GivesUpToken, LeaseExpires
  <2> QED BY <1>t, <1>n, <2>9, <2>1, TokenGivenUp
<1>5. ASSUME NEW e \in Events, InsertEvent(e) \/ InsertJobs(e) \/ AbortSource(e)
      PROVE  FlightInv'
  <2>1. UNCHANGED <<hook, job, worker, live, claims>>
    BY <1>5 DEF InsertEvent, InsertJobs, AbortSource
  <2>9. GivesUpToken(NoToken)
    BY <1>n, <1>s, <2>1 DEF GivesUpToken
  <2> QED BY <1>t, <1>n, <2>9, TokenGivenUp
<1>6. ASSUME NEW e \in Events, CommitSource(e) PROVE FlightInv'
  <2>1. \A j \in Jobs : job'[j].token \in {NoToken, job[j].token}
    BY <1>6 DEF CommitSource
  <2>2. UNCHANGED <<hook, worker, live, claims>>
    BY <1>6 DEF CommitSource
  <2>9. GivesUpToken(NoToken)
    BY <1>n, <1>s, <2>1, <2>2 DEF GivesUpToken
  <2> QED BY <1>t, <1>n, <2>9, TokenGivenUp
<1>7. ASSUME NEW w \in Workers, FinishRejected(w) \/ WorkerFails(w) PROVE FlightInv'
  <2>1. UNCHANGED <<hook, job, live, claims>> /\ worker' = [worker EXCEPT ![w] = Idle]
    BY <1>7 DEF FinishRejected, WorkerFails
  <2>2. \A v \in Workers : worker'[v] = worker[v] \/ worker'[v] = Idle
    BY <1>t, <2>1 DEF TypeOK
  <2>3. \A v \in Workers : worker'[v].pc = "sending" => worker[v].token # NoToken
    BY <1>s, <2>2 DEF Idle
  <2>9. GivesUpToken(NoToken)
    BY <1>n, <2>1, <2>2, <2>3 DEF GivesUpToken
  <2> QED BY <1>t, <1>n, <2>9, TokenGivenUp
<1>8. ASSUME NEW w \in Workers, LeaseOverrun(w) PROVE FlightInv'
  <2>1. worker[w].token \in Nat /\ worker[w].pc = "finishing"
    BY <1>8, <1>t DEF LeaseOverrun, TypeOK, Claimants
  <2>2. \A v \in Workers : worker[v].pc = "sending" => worker[v].token # worker[w].token
    BY <2>1 DEF FlightInv, TokensName, Busy
  <2>9. GivesUpToken(worker[w].token)
    BY <1>t, <1>8, <2>1, <2>2 DEF GivesUpToken, LeaseOverrun
  <2> QED BY <1>t, <1>n, <2>9, <2>1, TokenGivenUp
<1>9. CASE UNCHANGED vars
  <2>1. UNCHANGED <<hook, job, worker, live, claims>>
    BY <1>9 DEF vars
  <2>9. GivesUpToken(NoToken)
    BY <1>n, <1>s, <2>1 DEF GivesUpToken
  <2> QED BY <1>t, <1>n, <2>9, TokenGivenUp
<1> QED
  BY <1>t, <1>1, <1>2, <1>3, <1>4, <1>5, <1>6, <1>7, <1>8, <1>9, ClaimKeepsFlight,
     SendKeepsFlight, FinishGivesUpToken DEF Next

\* At most one worker of any replica has a request in flight to a destination
\* (docs/AGENT_WEBHOOKS.md, ClaimDelivery's destination lease).
THEOREM OneInFlight == Spec => []OneInFlightPerHook
<1>1. Init => FlightInv
  <2> SUFFICES ASSUME Init PROVE FlightInv
    OBVIOUS
  <2>1. TypeOK
    BY TypeInitially
  <2>2. \A w \in Workers : worker[w].pc = "idle" /\ worker[w].token = NoToken
    BY DEF Init, Idle
  <2>3. \A h \in Hooks : hook[h].lease = NoToken
    BY DEF Init, NoRow
  <2> QED
    BY <2>1, <2>2, <2>3 DEF Init, FlightInv, TokensIssued, TokensName, Busy,
       SendingHoldsLease, OneInFlightPerHook, NoToken
<1>2. FlightInv => OneInFlightPerHook
  BY DEF FlightInv
<1> QED
  BY <1>1, <1>2, FlightInvariance, PTL DEF Spec

-----------------------------------------------------------------------------
(* What the transactions write, row by row.                                *)

\* The steps that touch neither the jobs nor their history.
Quiet ==
    \/ \E h \in Hooks : CreateHook(h) \/ TestDelivery(h) \/ LeaseExpires(h)
    \/ \E e \in Events : InsertEvent(e) \/ InsertJobs(e) \/ AbortSource(e)
    \/ \E w \in Workers : Send(w) \/ FinishRejected(w) \/ WorkerFails(w) \/ LeaseOverrun(w)
    \/ UNCHANGED vars

LEMMA JobsLeftAlone ==
    ASSUME TypeOK, Quiet
    PROVE  /\ UNCHANGED <<job, log>>
           /\ \A h \in Hooks : hook'[h].lease = hook[h].lease
           /\ live' \subseteq live
           /\ \A e \in Events : source[e].pc = "done" => source'[e].pc = "done"
<1>1. \A h \in Hooks : hook[h] \in HookRows
  BY DEF TypeOK
<1>2. \A row \in HookRows : Fail(row).lease = row.lease
  BY DEF Fail, HookRows
<1>3. ASSUME NEW h \in Hooks, CreateHook(h) \/ TestDelivery(h) \/ LeaseExpires(h)
      PROVE  \A g \in Hooks : hook'[g].lease = hook[g].lease
  BY <1>1, <1>2, <1>3 DEF CreateHook, TestDelivery, LeaseExpires, TypeOK, HookRows
<1>4. ASSUME NEW e \in Events, InsertEvent(e) \/ InsertJobs(e) \/ AbortSource(e)
      PROVE  \A d \in Events : source[d].pc = "done" => source'[d].pc = "done"
  BY <1>4 DEF InsertEvent, InsertJobs, AbortSource, TypeOK
<1> QED
  BY <1>3, <1>4 DEF Quiet, CreateHook, TestDelivery, LeaseExpires, InsertEvent, InsertJobs,
     AbortSource, Send, FinishRejected, WorkerFails, LeaseOverrun, vars

LEMMA DeleteWrites ==
    ASSUME TypeOK, NEW h \in Hooks, DeleteHook(h)
    PROVE  /\ \A j \in Jobs : \/ job'[j] = job[j] /\ (j[2] = h => job[j].status = "none")
                              \/ /\ j[2] = h /\ job[j].status # "none"
                                 /\ job'[j].status = "deleted" /\ job'[j].token = NoToken
           /\ \A g \in Hooks : IF g = h THEN hook'[g].lease = NoToken ELSE hook'[g] = hook[g]
           /\ live' = live \ {hook[h].lease}
           /\ log' = {r \in log : r.job[2] # h}
           /\ UNCHANGED <<source, worker, accepted>>
  BY DEF TypeOK, DeleteHook, NoRow

LEMMA CommitWrites ==
    ASSUME TypeOK, NEW e \in Events, CommitSource(e)
    PROVE  /\ \A j \in Jobs : \/ job'[j] = job[j]
                              \/ /\ j[1] = e
                                 /\ job'[j] = [status |-> "pending", attempts |-> 0,
                                               token |-> NoToken]
           /\ source[e].pc = "jobs"
           /\ \A d \in Events : source'[d].pc = IF d = e THEN "done" ELSE source[d].pc
           /\ UNCHANGED <<hook, log, worker, live, accepted>>
  BY DEF TypeOK, CommitSource

LEMMA ClaimWrites ==
    ASSUME TypeOK, NEW w \in Workers, NEW j \in Jobs, Claim(w, j)
    PROVE  /\ job'[j] = [status |-> "processing", attempts |-> job[j].attempts + 1,
                         token |-> claims + 1]
           /\ \A k \in Jobs : k # j => job'[k] = job[k]
           /\ job[j].status \in Queued
           /\ hook'[j[2]].lease = claims + 1
           /\ \A g \in Hooks : g # j[2] => hook'[g] = hook[g]
           /\ hook[j[2]].lease \notin live
           /\ live' = live \cup {claims + 1}
           /\ worker'[w] = [pc |-> "sending", job |-> j, token |-> claims + 1,
                            attempt |-> job[j].attempts + 1, outcome |-> "none"]
           /\ \A v \in Workers : v # w => worker'[v] = worker[v]
           /\ UNCHANGED <<log, source, accepted>>
  BY DEF TypeOK, Claim, Due, Queued, LeaseFree, Jobs, HookRows

LEMMA SuccessWrites ==
    ASSUME TypeOK, NEW w \in Workers, FinishSuccess(w)
    PROVE  LET j == worker[w].job
               t == worker[w].token
           IN  /\ j \in Jobs
               /\ job[j].status = "processing" /\ job[j].token = t
               /\ worker[w].pc = "finishing" /\ worker[w].outcome = "ok"
               /\ job'[j] = [status |-> "succeeded", attempts |-> job[j].attempts,
                             token |-> NoToken]
               /\ \A k \in Jobs : k # j => job'[k] = job[k]
               /\ \A g \in Hooks : \/ hook'[g].lease = hook[g].lease
                                      /\ (g = j[2] => hook[g].lease # t)
                                   \/ /\ g = j[2] /\ hook[g].lease = t
                                      /\ hook'[g].lease = NoToken
               /\ live' = live \ {t}
               /\ log' = log \cup {AttemptRow(w, FALSE)}
               /\ \A v \in Workers : worker'[v] = IF v = w THEN Idle ELSE worker[v]
               /\ UNCHANGED <<source, accepted>>
<1>1. worker[w].job \in Jobs /\ worker[w].job[2] \in Hooks
  BY DEF TypeOK, FinishSuccess, Jobs
<1> QED
  BY <1>1 DEF TypeOK, FinishSuccess, Owns, HoldsLease, Close, HookRows

LEMMA FailureWrites ==
    ASSUME TypeOK, NEW w \in Workers, FinishFailure(w)
    PROVE  LET j == worker[w].job
               t == worker[w].token
           IN  /\ j \in Jobs
               /\ job[j].status = "processing" /\ job[j].token = t
               /\ worker[w].pc = "finishing" /\ worker[w].outcome # "ok"
               /\ hook[j[2]].lease = t /\ hook'[j[2]].lease = NoToken
               /\ \A g \in Hooks : g # j[2] => hook'[g] = hook[g]
               /\ \E terminal \in BOOLEAN :
                    /\ job'[j] = Close(j, IF terminal THEN "dead" ELSE "retry")
                    /\ ~terminal => worker[w].attempt < MaxAttempts
                    /\ log' = log \cup {AttemptRow(w, terminal)}
               /\ \A k \in Jobs : k # j =>
                    \/ job'[k] = job[k]
                    \/ /\ k[2] = j[2] /\ job[k].status \in Queued
                       /\ job'[k] = Close(k, "canceled")
               /\ live' = live \ {t}
               /\ \A v \in Workers : worker'[v] = IF v = w THEN Idle ELSE worker[v]
               /\ UNCHANGED <<source, accepted>>
<1> DEFINE j == worker[w].job
           row == [Fail(hook[j[2]]) EXCEPT !.lease = NoToken]
<1>1. j \in Jobs /\ j[2] \in Hooks /\ worker[w].attempt \in Nat
  BY DEF TypeOK, FinishFailure, Jobs, Claimants
<1>2. PICK terminal \in BOOLEAN : terminal = GivesUp(w, row)
  BY DEF GivesUp
<1>3. ~terminal => worker[w].attempt < MaxAttempts
  BY <1>1, <1>2, AttemptsAssumption DEF GivesUp
<1>4. hook[j[2]] \in HookRows
  BY <1>1 DEF TypeOK
<1>5. row.lease = NoToken
  BY <1>4 DEF Fail, HookRows
<1>6. hook' = [hook EXCEPT ![j[2]] = row]
  BY DEF FinishFailure
<1>7. hook'[j[2]].lease = NoToken /\ \A g \in Hooks : g # j[2] => hook'[g] = hook[g]
  BY <1>1, <1>5, <1>6 DEF TypeOK
<1>8. /\ log' = log \cup {AttemptRow(w, terminal)}
      /\ job'[j] = Close(j, IF terminal THEN "dead" ELSE "retry")
  BY <1>1, <1>2 DEF FinishFailure
<1>9. \A k \in Jobs : k # j =>
        \/ job'[k] = job[k]
        \/ k[2] = j[2] /\ job[k].status \in Queued /\ job'[k] = Close(k, "canceled")
  BY <1>1 DEF FinishFailure
<1> QED
  BY <1>1, <1>3, <1>7, <1>8, <1>9 DEF TypeOK, FinishFailure, Owns, HoldsLease

-----------------------------------------------------------------------------
(* The invariant of the queue.                                             *)

\* The jobs of an event do not exist before its transaction commits.
Uncommitted ==
    \A j \in Jobs : source[j[1]].pc # "done" => job[j].status = "none"

\* A worker's job is in the table; while the claim is the worker's, the number
\* of its attempt is the job's; a 2xx it has read came from the receiver.
WorkersKnowJobs ==
    \A w \in Workers : Busy(w) =>
        LET j == worker[w].job IN
        /\ job[j].status # "none"
        /\ worker[w].attempt > 0
        /\ job[j].token = worker[w].token => job[j].attempts = worker[w].attempt
        /\ worker[w].outcome = "ok" => j \in accepted

\* The row that ended its job.
Last(r) == r.outcome = "ok" \/ r.terminal

\* A job's rows: none before it is committed and after it is deleted, one for
\* each finished attempt, all but the last within the limit.
RowsOfJobs ==
    /\ \A r \in log : LET k == job[r.job] IN
         /\ k.status \notin {"none", "deleted"}
         /\ r.attempt \in 1 .. k.attempts
         /\ k.status = "processing" => r.attempt < k.attempts
         /\ r.outcome = "ok" => k.status = "succeeded"
         /\ r.terminal => k.status = "dead"
         /\ Last(r) \/ r.attempt < MaxAttempts
    /\ \A r, s \in log :
         r.job = s.job /\ (r.attempt = s.attempt \/ (Last(r) /\ Last(s))) => r = s
    /\ \A j \in Jobs :
         /\ job[j].status = "succeeded" => \E r \in log : r.job = j /\ r.outcome = "ok"
         /\ job[j].status = "dead" => \E r \in log : r.job = j /\ r.terminal

\* A job under a busy worker's token is the job that worker claimed.
ClaimNamesJob ==
    \A w \in Workers, j \in Jobs :
        Busy(w) /\ job[j].token = worker[w].token => worker[w].job = j

\* Some worker still works on the job under an unexpired claim.
Held(j) ==
    /\ job[j].token \in live
    /\ \E w \in Workers : Busy(w) /\ worker[w].token = job[j].token

\* A job in the queue has attempts left, and every attempt past the limit
\* follows a fault of its own: a claim nobody holds has already had its fault.
AttemptsCounted ==
    \A j \in Jobs :
        /\ job[j].status \in {"pending", "retry"} => job[j].attempts < MaxAttempts
        /\ job[j].attempts <= MaxAttempts + faults
        /\ job[j].status = "processing" /\ ~Held(j) => job[j].attempts < MaxAttempts + faults

OutboxInv ==
    /\ FlightInv
    /\ Uncommitted
    /\ WorkersKnowJobs
    /\ LeaseFollowsClaim
    /\ HealthMatchesStreak
    /\ RowsOfJobs
    /\ ClaimNamesJob
    /\ AttemptsCounted

\* The other steps, which write jobs, history or leases.
LEMMA StepKinds ==
    ASSUME [Next]_vars
    PROVE  \/ Quiet
           \/ \E h \in Hooks : DeleteHook(h)
           \/ \E e \in Events : CommitSource(e)
           \/ \E w \in Workers, j \in Jobs : Claim(w, j)
           \/ \E w \in Workers : FinishSuccess(w)
           \/ \E w \in Workers : FinishFailure(w)
  BY DEF Next, Quiet

\* Only the commit makes jobs, and only of its own event.
LEMMA UncommittedKept ==
    ASSUME TypeOK, Uncommitted, [Next]_vars
    PROVE  Uncommitted'
<1>1. \A j \in Jobs : j[1] \in Events /\ j[2] \in Hooks
  BY DEF Jobs
<1>2. CASE Quiet
  BY <1>1, <1>2, JobsLeftAlone DEF Uncommitted
<1>3. ASSUME NEW h \in Hooks, DeleteHook(h) PROVE Uncommitted'
  BY <1>1, <1>3, DeleteWrites DEF Uncommitted
<1>4. ASSUME NEW e \in Events, CommitSource(e) PROVE Uncommitted'
  BY <1>1, <1>4, CommitWrites DEF Uncommitted
<1>5. ASSUME NEW w \in Workers, NEW j \in Jobs, Claim(w, j) PROVE Uncommitted'
  BY <1>1, <1>5, ClaimWrites DEF Uncommitted, Queued
<1>6. ASSUME NEW w \in Workers, FinishSuccess(w) PROVE Uncommitted'
  <2>1. \A j \in Jobs : job'[j] = job[j] \/ job[j].status = "processing"
    BY <1>6, SuccessWrites
  <2>2. UNCHANGED source
    BY <1>6, SuccessWrites
  <2> QED BY <1>1, <2>1, <2>2 DEF Uncommitted
<1>7. ASSUME NEW w \in Workers, FinishFailure(w) PROVE Uncommitted'
  BY <1>1, <1>7, FailureWrites DEF Uncommitted, Queued
<1> QED
  BY <1>2, <1>3, <1>4, <1>5, <1>6, <1>7, StepKinds

\* A job of an event being committed was not there before.
LEMMA CommitIsNew ==
    ASSUME TypeOK, Uncommitted, NEW e \in Events, CommitSource(e)
    PROVE  \A j \in Jobs : job'[j] # job[j] => job[j].status = "none"
  BY CommitWrites DEF Uncommitted

\* The streak and the switch of a hook are written together by every action:
\* Fail, ResetFailure and the reset of a success.
LEMMA HealthKept ==
    ASSUME TypeOK, HealthMatchesStreak, [Next]_vars
    PROVE  HealthMatchesStreak'
<1> DEFINE Healthy(row) == row.row = "present" => (row.active <=> row.failures < DisableAt)
<1>1. \A h \in Hooks : hook[h] \in HookRows /\ Healthy(hook[h])
  BY DEF TypeOK, HealthMatchesStreak
<1>2. ASSUME NEW row \in HookRows, Healthy(row)
      PROVE  /\ Healthy(Fail(row))
             /\ Healthy([Fail(row) EXCEPT !.lease = NoToken])
             /\ Healthy([row EXCEPT !.failures = 0, !.active = TRUE])
             /\ Healthy([row EXCEPT !.failures = 0, !.active = TRUE, !.lease = NoToken])
             /\ \A t \in Nat : Healthy([row EXCEPT !.lease = t])
  <2>1. /\ Fail(row).row = row.row
        /\ Fail(row).failures = row.failures + 1
        /\ Fail(row).active = (row.active /\ row.failures + 1 < DisableAt)
        /\ [Fail(row) EXCEPT !.lease = NoToken].row = row.row
        /\ [Fail(row) EXCEPT !.lease = NoToken].failures = Fail(row).failures
        /\ [Fail(row) EXCEPT !.lease = NoToken].active = Fail(row).active
    BY DEF Fail, HookRows
  <2>2. row.active \in BOOLEAN /\ row.failures \in Nat
    BY DEF HookRows
  <2>3. Healthy(Fail(row))
    <3>1. PICK f \in Nat : f = row.failures
      BY <2>2
    <3>2. f + 1 < DisableAt => f < DisableAt
      BY DisableAssumption
    <3>3. Fail(row).active = (row.active /\ f + 1 < DisableAt) /\ Fail(row).failures = f + 1
      BY <2>1, <3>1
    <3>4. row.row = "present" => (row.active <=> f < DisableAt)
      BY <1>2, <3>1
    <3>5. Fail(row).row = "present" => (Fail(row).active <=> f + 1 < DisableAt)
      BY <2>1, <3>2, <3>3, <3>4, Zenon
    <3> QED BY <3>3, <3>5
  <2>4. Healthy([Fail(row) EXCEPT !.lease = NoToken])
    BY <2>1, <2>3
  <2>5. /\ Healthy([row EXCEPT !.failures = 0, !.active = TRUE])
        /\ Healthy([row EXCEPT !.failures = 0, !.active = TRUE, !.lease = NoToken])
        /\ \A t \in Nat : Healthy([row EXCEPT !.lease = t])
    BY <1>2, DisableAssumption DEF HookRows
  <2> QED BY <2>3, <2>4, <2>5
<1>3. Healthy([NoRow EXCEPT !.row = "present", !.active = TRUE])
      /\ Healthy([NoRow EXCEPT !.row = "deleted"])
  BY DisableAssumption DEF NoRow
<1> SUFFICES \A h \in Hooks : Healthy(hook'[h])
  BY DEF HealthMatchesStreak
<1>4. ASSUME NEW h \in Hooks, NEW row, Healthy(row), hook' = [hook EXCEPT ![h] = row]
      PROVE  \A g \in Hooks : Healthy(hook'[g])
  <2>1. \A g \in Hooks : hook'[g] = row \/ hook'[g] = hook[g]
    BY <1>4 DEF TypeOK
  <2> HIDE DEF Healthy
  <2> QED BY <1>1, <1>4, <2>1
<1>5. CASE UNCHANGED hook
  BY <1>1, <1>5
<1>6. ASSUME NEW h \in Hooks, CreateHook(h) PROVE \A g \in Hooks : Healthy(hook'[g])
  <2>1. hook' = [hook EXCEPT ![h] = [NoRow EXCEPT !.row = "present", !.active = TRUE]]
    BY <1>6 DEF CreateHook
  <2> HIDE DEF Healthy
  <2> QED BY <1>3, <1>4, <2>1
<1>7. ASSUME NEW h \in Hooks, DeleteHook(h) PROVE \A g \in Hooks : Healthy(hook'[g])
  BY <1>3, <1>4, <1>7 DEF DeleteHook
<1>8. ASSUME NEW h \in Hooks, TestDelivery(h) PROVE \A g \in Hooks : Healthy(hook'[g])
  <2>1. \/ hook' = [hook EXCEPT ![h] = Fail(hook[h])]
        \/ hook' = [hook EXCEPT ![h] = [hook[h] EXCEPT !.failures = 0, !.active = TRUE]]
    BY <1>8 DEF TestDelivery
  <2> HIDE DEF Healthy
  <2> QED BY <1>1, <1>2, <1>4, <2>1
<1>9. ASSUME NEW w \in Workers, NEW j \in Jobs, Claim(w, j)
      PROVE  \A g \in Hooks : Healthy(hook'[g])
  <2>1. j[2] \in Hooks /\ claims + 1 \in Nat
    BY DEF Jobs, TypeOK
  <2>2. hook' = [hook EXCEPT ![j[2]] = [hook[j[2]] EXCEPT !.lease = claims + 1]]
    BY <1>9 DEF Claim
  <2> HIDE DEF Healthy
  <2> QED BY <1>1, <1>2, <1>4, <2>1, <2>2
<1>10. ASSUME NEW w \in Workers, FinishSuccess(w) \/ FinishFailure(w)
       PROVE  \A g \in Hooks : Healthy(hook'[g])
  <2> DEFINE h == worker[w].job[2]
  <2>1. h \in Hooks
    BY <1>10 DEF FinishSuccess, FinishFailure, TypeOK, Jobs
  <2>2. \/ hook' = hook
        \/ hook' = [hook EXCEPT ![h] = [hook[h] EXCEPT !.failures = 0, !.active = TRUE,
                                                      !.lease = NoToken]]
        \/ hook' = [hook EXCEPT ![h] = [Fail(hook[h]) EXCEPT !.lease = NoToken]]
    BY <1>10 DEF FinishSuccess, FinishFailure
  <2> HIDE DEF Healthy, h
  <2> QED BY <1>1, <1>2, <1>4, <2>1, <2>2
<1> QED
  BY <1>5, <1>6, <1>7, <1>8, <1>9, <1>10
  DEF Next, vars, LeaseExpires, InsertEvent, InsertJobs, CommitSource, AbortSource, Send,
      FinishRejected, WorkerFails, LeaseOverrun

\* LeaseFollowsClaim over jobs instead of pairs.
Backed(h) == \E j \in Jobs : /\ j[2] = h
                             /\ job[j].status = "processing"
                             /\ job[j].token = hook[h].lease

LEMMA LeaseBacked ==
    LeaseFollowsClaim <=>
      /\ \A h \in Hooks : hook[h].lease # NoToken => Backed(h)
      /\ \A j \in Jobs : job[j].token \in live => hook[j[2]].lease = job[j].token
      /\ \A j, k \in Jobs : job[j].token = job[k].token /\ j # k => job[j].token = NoToken
<1>1. \A j \in Jobs : j[1] \in Events /\ j[2] \in Hooks /\ j = <<j[1], j[2]>>
  BY DEF Jobs
<1>2. \A e \in Events, h \in Hooks : <<e, h>> \in Jobs /\ <<e, h>>[2] = h
  BY DEF Jobs
<1>3. \A h \in Hooks :
        Backed(h) <=> \E e \in Events : /\ job[<<e, h>>].status = "processing"
                                        /\ job[<<e, h>>].token = hook[h].lease
  <2> SUFFICES ASSUME NEW h \in Hooks
               PROVE  Backed(h) <=> \E e \in Events : /\ job[<<e, h>>].status = "processing"
                                                      /\ job[<<e, h>>].token = hook[h].lease
    OBVIOUS
  <2>1. ASSUME Backed(h)
        PROVE  \E e \in Events : /\ job[<<e, h>>].status = "processing"
                                 /\ job[<<e, h>>].token = hook[h].lease
    <3>1. PICK j \in Jobs : /\ j[2] = h
                            /\ job[j].status = "processing"
                            /\ job[j].token = hook[h].lease
      BY <2>1 DEF Backed
    <3>2. j[1] \in Events /\ j = <<j[1], h>>
      BY <1>1, <3>1
    <3> QED BY <3>1, <3>2
  <2>2. ASSUME NEW e \in Events, job[<<e, h>>].status = "processing",
               job[<<e, h>>].token = hook[h].lease
        PROVE  Backed(h)
    BY <1>2, <2>2 DEF Backed
  <2> QED BY <2>1, <2>2
<1> QED
  BY <1>3 DEF LeaseFollowsClaim

\* A claim backs the lease it takes, and the lease it takes over is not live;
\* a finish, a cancellation and a delete give up tokens and leases together.
LEMMA LeaseKept ==
    ASSUME FlightInv, Uncommitted, LeaseFollowsClaim, [Next]_vars
    PROVE  LeaseFollowsClaim'
<1> DEFINE P == \A h \in Hooks : hook[h].lease # NoToken => Backed(h)
           Q == \A j \in Jobs : job[j].token \in live => hook[j[2]].lease = job[j].token
           R == \A j, k \in Jobs : job[j].token = job[k].token /\ j # k => job[j].token = NoToken
<1>p. P /\ Q /\ R
  BY LeaseBacked
<1>q. P' /\ Q' /\ R' => LeaseFollowsClaim'
  BY LeaseBacked, PTL
<1>t. TypeOK
  BY DEF FlightInv
<1>j. \A j \in Jobs : j[2] \in Hooks
  BY DEF Jobs
<1>0. NoToken \notin live /\ \A h \in Hooks : hook[h].lease \in Nat
  BY DEF FlightInv, TokensIssued, TypeOK, HookRows
<1> SUFFICES P' /\ Q' /\ R'
  BY <1>q
<1>1. CASE Quiet
  <2>1. /\ UNCHANGED job
        /\ \A h \in Hooks : hook'[h].lease = hook[h].lease
        /\ live' \subseteq live
    BY <1>t, <1>1, JobsLeftAlone
  <2> QED BY <1>p, <1>j, <2>1 DEF Backed
<1>2. ASSUME NEW h \in Hooks, DeleteHook(h) PROVE P' /\ Q' /\ R'
  <2>1. /\ \A g \in Hooks : IF g = h THEN hook'[g].lease = NoToken ELSE hook'[g] = hook[g]
        /\ live' = live \ {hook[h].lease}
        /\ \A j \in Jobs : \/ job'[j] = job[j]
                           \/ j[2] = h /\ job'[j].token = NoToken
    BY <1>t, <1>2, DeleteWrites
  <2>2. P'
    BY <1>p, <2>1 DEF Backed
  <2>3. Q'
    BY <1>p, <1>j, <1>0, <2>1
  <2>4. R'
    BY <1>p, <2>1
  <2> QED BY <2>2, <2>3, <2>4
<1>3. ASSUME NEW e \in Events, CommitSource(e) PROVE P' /\ Q' /\ R'
  <2>1. /\ UNCHANGED <<hook, live>>
        /\ \A j \in Jobs : \/ job'[j] = job[j]
                           \/ job[j].status = "none" /\ job'[j].token = NoToken
    BY <1>t, <1>3, CommitWrites DEF Uncommitted
  <2> QED BY <1>p, <1>0, <2>1 DEF Backed
<1>4. ASSUME NEW w \in Workers, NEW j \in Jobs, Claim(w, j) PROVE P' /\ Q' /\ R'
  <2> DEFINE token == claims + 1
  <2>1. /\ job'[j].status = "processing" /\ job'[j].token = token
        /\ \A k \in Jobs : k # j => job'[k] = job[k]
        /\ hook'[j[2]].lease = token
        /\ \A g \in Hooks : g # j[2] => hook'[g] = hook[g]
        /\ hook[j[2]].lease \notin live
        /\ live' = live \cup {token}
    <3>1. job'[j] = [status |-> "processing", attempts |-> job[j].attempts + 1, token |-> token]
      BY <1>t, <1>4, ClaimWrites
    <3>2. job'[j].status = "processing" /\ job'[j].token = token
      BY <3>1
    <3> QED BY <1>t, <1>4, <3>2, ClaimWrites
  <2>2. \A k \in Jobs : job[k].token # token
    BY DEF FlightInv, TokensIssued, TypeOK, JobRows
  <2> HIDE DEF token
  <2>3. P'
    BY <1>p, <2>1 DEF Backed
  <2>4. Q'
    BY <1>p, <1>j, <2>1, <2>2
  <2>5. R'
    BY <1>p, <2>1, <2>2
  <2> QED BY <2>3, <2>4, <2>5
<1>5. ASSUME NEW w \in Workers, FinishSuccess(w) \/ FinishFailure(w) PROVE P' /\ Q' /\ R'
  <2> DEFINE j == worker[w].job
             t == worker[w].token
  <2>1. /\ j \in Jobs /\ job[j].token = t /\ job'[j].token = NoToken
        /\ live' = live \ {t}
        /\ \A g \in Hooks : \/ hook'[g].lease = hook[g].lease /\ (g = j[2] => hook[g].lease # t)
                            \/ g = j[2] /\ hook[g].lease = t /\ hook'[g].lease = NoToken
        /\ \A k \in Jobs : k # j =>
             \/ job'[k] = job[k]
             \/ job'[k].token = NoToken /\ k[2] = j[2] /\ hook[j[2]].lease = t
    <3>1. CASE FinishSuccess(w)
      <4>1. job'[j] = [status |-> "succeeded", attempts |-> job[j].attempts, token |-> NoToken]
        BY <1>t, <3>1, SuccessWrites
      <4>2. job'[j].token = NoToken
        BY <4>1
      <4>3. /\ j \in Jobs /\ job[j].token = t
            /\ live' = live \ {t}
            /\ \A k \in Jobs : k # j => job'[k] = job[k]
        BY <1>t, <3>1, SuccessWrites
      <4>4. \A g \in Hooks : \/ hook'[g].lease = hook[g].lease /\ (g = j[2] => hook[g].lease # t)
                             \/ g = j[2] /\ hook[g].lease = t /\ hook'[g].lease = NoToken
        BY <1>t, <3>1, SuccessWrites
      <4> HIDE DEF j, t
      <4> QED BY <4>2, <4>3, <4>4
    <3>2. CASE FinishFailure(w)
      <4>1. /\ j \in Jobs /\ job[j].token = t /\ live' = live \ {t}
            /\ hook[j[2]].lease = t /\ hook'[j[2]].lease = NoToken
            /\ \A g \in Hooks : g # j[2] => hook'[g] = hook[g]
            /\ \/ job'[j] = Close(j, "dead")
               \/ job'[j] = Close(j, "retry")
            /\ \A k \in Jobs : k # j =>
                 \/ job'[k] = job[k]
                 \/ k[2] = j[2] /\ job'[k] = Close(k, "canceled")
        BY <1>t, <3>2, FailureWrites
      <4>2. \A k \in Jobs, status \in {"dead", "retry", "canceled"} :
              Close(k, status).token = NoToken
        BY DEF Close
      <4>3. job'[j].token = NoToken
        BY <4>1, <4>2
      <4>4. \A k \in Jobs : k # j =>
              \/ job'[k] = job[k]
              \/ job'[k].token = NoToken /\ k[2] = j[2] /\ hook[j[2]].lease = t
        BY <4>1, <4>2
      <4>5. \A g \in Hooks : \/ hook'[g].lease = hook[g].lease /\ (g = j[2] => hook[g].lease # t)
                             \/ g = j[2] /\ hook[g].lease = t /\ hook'[g].lease = NoToken
        BY <4>1
      <4> HIDE DEF j, t
      <4> QED BY <4>1, <4>3, <4>4, <4>5
    <3> QED BY <1>5, <3>1, <3>2
  <2> HIDE DEF j, t
  <2>2. P'
    <3> SUFFICES ASSUME NEW h \in Hooks, hook'[h].lease # NoToken PROVE Backed(h)'
      OBVIOUS
    <3>1. hook'[h].lease = hook[h].lease /\ (h = j[2] => hook[h].lease # t)
      BY <2>1
    <3>2. PICK k \in Jobs : k[2] = h /\ job[k].status = "processing" /\ job[k].token = hook[h].lease
      BY <1>p, <3>1 DEF Backed
    <3>3. job'[k] = job[k]
      BY <2>1, <3>1, <3>2
    <3> QED BY <3>1, <3>2, <3>3 DEF Backed
  <2>3. Q'
    <3> SUFFICES ASSUME NEW k \in Jobs, job'[k].token \in live'
                 PROVE  hook'[k[2]].lease = job'[k].token
      OBVIOUS
    <3>1. k # j /\ job'[k] = job[k]
      BY <1>0, <2>1
    <3>2. hook[k[2]].lease = job[k].token /\ job[k].token # t /\ k[2] \in Hooks
      BY <1>p, <1>j, <2>1, <3>1
    <3> QED BY <2>1, <3>1, <3>2
  <2>4. R'
    BY <1>p, <2>1
  <2> QED BY <2>2, <2>3, <2>4
<1> QED
  BY <1>1, <1>2, <1>3, <1>4, <1>5, StepKinds

\* Only a claim starts work, under a token no job has; what others write of a
\* job under way takes its token away.
LEMMA WorkersKept ==
    ASSUME FlightInv, Uncommitted, WorkersKnowJobs, [Next]_vars, FlightInv'
    PROVE  WorkersKnowJobs'
<1>t. TypeOK
  BY DEF FlightInv
<1> DEFINE Knows(v, k, row, acc) ==
             /\ row.status # "none"
             /\ v.attempt > 0
             /\ row.token = v.token => row.attempts = v.attempt
             /\ v.outcome = "ok" => k \in acc
<1>1. \A w \in Workers : Busy(w) =>
        /\ worker[w].job \in Jobs /\ worker[w].token # NoToken
        /\ Knows(worker[w], worker[w].job, job[worker[w].job], accepted)
  BY DEF WorkersKnowJobs, FlightInv, TokensIssued
<1> SUFFICES \A w \in Workers : Busy(w)' =>
               Knows(worker'[w], worker'[w].job, job'[worker'[w].job], accepted')
  BY DEF WorkersKnowJobs
<1>2. \* Workers that go on or stop, and jobs that keep or lose their claim.
      ASSUME \A w \in Workers : worker'[w] = worker[w] \/ worker'[w] = Idle,
             \A k \in Jobs : \/ job'[k] = job[k]
                             \/ job'[k].token = NoToken /\ job'[k].status # "none",
             accepted \subseteq accepted'
      PROVE  \A w \in Workers : Busy(w)' =>
               Knows(worker'[w], worker'[w].job, job'[worker'[w].job], accepted')
  <2>1. \A w \in Workers : Busy(w)' => worker'[w] = worker[w] /\ Busy(w)
    BY <1>2 DEF Busy, Idle
  <2> QED BY <1>1, <1>2, <2>1
<1>3. CASE Quiet /\ ~\E w \in Workers : Send(w)
  <2>1. UNCHANGED job
    BY <1>t, <1>3, JobsLeftAlone
  <2>2. UNCHANGED accepted
    BY <1>3 DEF Quiet, CreateHook, TestDelivery, LeaseExpires, InsertEvent, InsertJobs,
       AbortSource, FinishRejected, WorkerFails, LeaseOverrun, vars
  <2>3. \A w \in Workers : worker'[w] = worker[w] \/ worker'[w] = Idle
    BY <1>t, <1>3 DEF Quiet, CreateHook, TestDelivery, LeaseExpires, InsertEvent, InsertJobs,
       AbortSource, FinishRejected, WorkerFails, LeaseOverrun, vars, TypeOK
  <2> QED BY <1>2, <2>1, <2>2, <2>3
<1>4. ASSUME NEW w \in Workers, Send(w)
      PROVE  \A v \in Workers : Busy(v)' =>
               Knows(worker'[v], worker'[v].job, job'[worker'[v].job], accepted')
  <2>1. PICK outcome \in Outcomes :
          /\ worker' = [worker EXCEPT ![w].pc = "finishing", ![w].outcome = outcome]
          /\ \/ outcome # "permanent" /\ accepted' = accepted \cup {worker[w].job}
             \/ outcome # "ok" /\ accepted' = accepted
    BY <1>4 DEF Send
  <2>2. worker[w] \in Claimants /\ Busy(w)
    BY <1>t, <1>4 DEF TypeOK, Send, Busy
  <2>3. /\ worker'[w].job = worker[w].job /\ worker'[w].token = worker[w].token
        /\ worker'[w].attempt = worker[w].attempt /\ worker'[w].outcome = outcome
        /\ \A v \in Workers : v # w => worker'[v] = worker[v]
    BY <1>t, <2>1, <2>2 DEF TypeOK, Claimants
  <2>4. UNCHANGED job
    BY <1>4 DEF Send
  <2>5. accepted \subseteq accepted' /\ (outcome = "ok" => worker[w].job \in accepted')
    BY <2>1
  <2> QED BY <1>1, <2>2, <2>3, <2>4, <2>5 DEF Busy
<1>5. ASSUME NEW h \in Hooks, DeleteHook(h)
      PROVE  \A v \in Workers : Busy(v)' =>
               Knows(worker'[v], worker'[v].job, job'[worker'[v].job], accepted')
  <2>1. \A k \in Jobs : \/ job'[k] = job[k]
                        \/ job'[k].token = NoToken /\ job'[k].status # "none"
    BY <1>t, <1>5, DeleteWrites
  <2>2. UNCHANGED <<worker, accepted>>
    BY <1>t, <1>5, DeleteWrites
  <2> QED BY <1>2, <2>1, <2>2
<1>6. ASSUME NEW e \in Events, CommitSource(e)
      PROVE  \A v \in Workers : Busy(v)' =>
               Knows(worker'[v], worker'[v].job, job'[worker'[v].job], accepted')
  <2>1. \A k \in Jobs : \/ job'[k] = job[k]
                        \/ job'[k].token = NoToken /\ job'[k].status # "none"
    BY <1>t, <1>6, CommitWrites
  <2>2. UNCHANGED <<worker, accepted>>
    BY <1>t, <1>6, CommitWrites
  <2> QED BY <1>2, <2>1, <2>2
<1>7. ASSUME NEW w \in Workers, NEW j \in Jobs, Claim(w, j)
      PROVE  \A v \in Workers : Busy(v)' =>
               Knows(worker'[v], worker'[v].job, job'[worker'[v].job], accepted')
  <2> DEFINE token == claims + 1
             n == job[j].attempts + 1
  <2>1. /\ job'[j] = [status |-> "processing", attempts |-> n, token |-> token]
        /\ worker'[w] = [pc |-> "sending", job |-> j, token |-> token,
                         attempt |-> n, outcome |-> "none"]
        /\ \A k \in Jobs : k # j => job'[k] = job[k]
        /\ \A v \in Workers : v # w => worker'[v] = worker[v]
        /\ accepted' = accepted
    BY <1>t, <1>7, ClaimWrites
  <2>2. n > 0
    BY <1>t DEF TypeOK, JobRows
  <2>3. \A v \in Workers : worker[v].token # token
    BY DEF FlightInv, TokensIssued, TypeOK, Claimants
  <2> HIDE DEF n, token
  <2>4. ASSUME NEW v \in Workers, v # w, Busy(v)'
        PROVE  Knows(worker'[v], worker'[v].job, job'[worker'[v].job], accepted')
    <3>1. worker'[v] = worker[v] /\ Busy(v) /\ worker[v].job \in Jobs
      BY <1>1, <2>1, <2>4 DEF Busy
    <3>2. CASE worker[v].job = j
      BY <1>1, <2>1, <2>3, <3>1, <3>2
    <3>3. CASE worker[v].job # j
      BY <1>1, <2>1, <3>1, <3>3
    <3> QED BY <3>2, <3>3
  <2>5. Knows(worker'[w], worker'[w].job, job'[worker'[w].job], accepted')
    BY <2>1, <2>2
  <2> QED BY <2>4, <2>5
<1>8. ASSUME NEW w \in Workers, FinishSuccess(w) \/ FinishFailure(w)
      PROVE  \A v \in Workers : Busy(v)' =>
               Knows(worker'[v], worker'[v].job, job'[worker'[v].job], accepted')
  <2>1. \A k \in Jobs, status \in {"dead", "retry", "canceled"} :
          Close(k, status).token = NoToken /\ Close(k, status).status # "none"
    BY DEF Close
  <2>2. CASE FinishSuccess(w)
    <3> DEFINE j == worker[w].job
    <3>1. /\ UNCHANGED accepted
          /\ \A v \in Workers : worker'[v] = worker[v] \/ worker'[v] = Idle
          /\ \A k \in Jobs : k # j => job'[k] = job[k]
      BY <1>t, <2>2, SuccessWrites
    <3>2. job'[j] = [status |-> "succeeded", attempts |-> job[j].attempts, token |-> NoToken]
      BY <1>t, <2>2, SuccessWrites
    <3>3. job'[j].token = NoToken /\ job'[j].status # "none"
      BY <3>2
    <3> QED BY <1>2, <3>1, <3>3
  <2>3. CASE FinishFailure(w)
    <3>1. /\ UNCHANGED accepted
          /\ \A v \in Workers : worker'[v] = worker[v] \/ worker'[v] = Idle
      BY <1>t, <2>3, FailureWrites
    <3>2. \A k \in Jobs : \/ job'[k] = job[k]
                          \/ \E status \in {"dead", "retry", "canceled"} :
                               job'[k] = Close(k, status)
      BY <1>t, <2>3, FailureWrites
    <3> QED BY <1>2, <2>1, <3>1, <3>2
  <2> QED BY <1>8, <2>2, <2>3
<1> QED
  BY <1>3, <1>4, <1>5, <1>6, <1>7, <1>8, StepKinds

\* Only a claim gives a job a token, one nobody had.
LEMMA ClaimsNamed ==
    ASSUME FlightInv, ClaimNamesJob, [Next]_vars
    PROVE  ClaimNamesJob'
<1>t. TypeOK
  BY DEF FlightInv
<1>n. \A w \in Workers : Busy(w) => worker[w].token # NoToken
  BY DEF FlightInv, TokensIssued
<1>1. \* Workers that go on or stop, and jobs that keep or lose their claim.
      ASSUME \A w \in Workers : \/ ~Busy(w)'
                                \/ /\ Busy(w)
                                   /\ worker'[w].job = worker[w].job
                                   /\ worker'[w].token = worker[w].token,
             \A k \in Jobs : job'[k].token \in {job[k].token, NoToken}
      PROVE  ClaimNamesJob'
  BY <1>n, <1>1 DEF ClaimNamesJob
<1>2. CASE Quiet
  <2>1. UNCHANGED job
    BY <1>t, <1>2, JobsLeftAlone
  <2>2. ASSUME NEW w \in Workers, Send(w)
        PROVE  \A v \in Workers : \/ ~Busy(v)'
                                  \/ /\ Busy(v)
                                     /\ worker'[v].job = worker[v].job
                                     /\ worker'[v].token = worker[v].token
    <3>1. worker[w] \in Claimants /\ Busy(w)
      BY <1>t, <2>2 DEF TypeOK, Send, Busy
    <3>2. PICK outcome \in Outcomes :
            worker' = [worker EXCEPT ![w] = [worker[w] EXCEPT !.pc = "finishing", !.outcome = outcome]]
      BY <2>2 DEF Send
    <3>3. \A v \in Workers : v # w => worker'[v] = worker[v]
      BY <1>t, <3>2 DEF TypeOK
    <3>4. worker'[w].job = worker[w].job /\ worker'[w].token = worker[w].token
      BY <1>t, <3>1, <3>2 DEF TypeOK, Claimants
    <3> QED BY <3>1, <3>3, <3>4 DEF Busy
  <2>3. CASE ~\E w \in Workers : Send(w)
    <3>1. \A w \in Workers : worker'[w] = worker[w] \/ worker'[w] = Idle
      BY <1>t, <1>2, <2>3 DEF Quiet, CreateHook, TestDelivery, LeaseExpires, InsertEvent,
         InsertJobs, AbortSource, FinishRejected, WorkerFails, LeaseOverrun, vars, TypeOK
    <3> QED BY <1>1, <2>1, <3>1 DEF Busy, Idle
  <2> QED BY <1>1, <2>1, <2>2, <2>3
<1>3. ASSUME NEW h \in Hooks, DeleteHook(h) PROVE ClaimNamesJob'
  <2>1. UNCHANGED worker /\ \A k \in Jobs : job'[k].token \in {job[k].token, NoToken}
    BY <1>t, <1>3, DeleteWrites
  <2> QED BY <1>1, <2>1 DEF Busy
<1>4. ASSUME NEW e \in Events, CommitSource(e) PROVE ClaimNamesJob'
  <2>1. UNCHANGED worker /\ \A k \in Jobs : job'[k].token \in {job[k].token, NoToken}
    BY <1>t, <1>4, CommitWrites
  <2> QED BY <1>1, <2>1 DEF Busy
<1>5. ASSUME NEW w \in Workers, NEW j \in Jobs, Claim(w, j) PROVE ClaimNamesJob'
  <2> DEFINE token == claims + 1
  <2>1. /\ job'[j] = [status |-> "processing", attempts |-> job[j].attempts + 1, token |-> token]
        /\ worker'[w] = [pc |-> "sending", job |-> j, token |-> token,
                         attempt |-> job[j].attempts + 1, outcome |-> "none"]
        /\ \A k \in Jobs : k # j => job'[k] = job[k]
        /\ \A v \in Workers : v # w => worker'[v] = worker[v]
    BY <1>t, <1>5, ClaimWrites
  <2>2. \A v \in Workers, k \in Jobs : worker[v].token # token /\ job[k].token # token
    BY DEF FlightInv, TokensIssued, TypeOK, Claimants, JobRows
  <2>3. job'[j].token = token /\ worker'[w].token = token /\ worker'[w].job = j
    BY <2>1
  <2> HIDE DEF token
  <2> QED BY <2>1, <2>2, <2>3 DEF ClaimNamesJob, Busy
<1>6. ASSUME NEW w \in Workers, FinishSuccess(w) PROVE ClaimNamesJob'
  <2>1. [status |-> "succeeded", attempts |-> job[worker[w].job].attempts,
         token |-> NoToken].token = NoToken
    OBVIOUS
  <2>2. /\ \A v \in Workers : worker'[v] = IF v = w THEN Idle ELSE worker[v]
        /\ \A k \in Jobs : job'[k].token \in {job[k].token, NoToken}
    BY <1>t, <1>6, <2>1, SuccessWrites
  <2> QED BY <1>1, <2>2 DEF Busy, Idle
<1>7. ASSUME NEW w \in Workers, FinishFailure(w) PROVE ClaimNamesJob'
  <2>1. \A k \in Jobs, status \in {"dead", "retry", "canceled"} : Close(k, status).token = NoToken
    BY DEF Close
  <2>2. /\ \A v \in Workers : worker'[v] = IF v = w THEN Idle ELSE worker[v]
        /\ \A k \in Jobs : job'[k].token \in {job[k].token, NoToken}
    BY <1>t, <1>7, <2>1, FailureWrites
  <2> QED BY <1>1, <2>2 DEF Busy, Idle
<1> QED
  BY <1>2, <1>3, <1>4, <1>5, <1>6, <1>7, StepKinds

\* A claim from the queue has attempts left; a claim taken over has been lost
\* to a fault since it was taken.
LEMMA AttemptsKept ==
    ASSUME FlightInv, WorkersKnowJobs, LeaseFollowsClaim, ClaimNamesJob, AttemptsCounted,
           Uncommitted, [Next]_vars
    PROVE  AttemptsCounted'
<1>t. TypeOK
  BY DEF FlightInv
<1>n. /\ faults \in Nat
      /\ \A j \in Jobs : job[j].attempts \in Nat /\ j[2] \in Hooks
  BY <1>t DEF TypeOK, JobRows, Jobs
<1>1. \* Jobs that keep their attempts and leave the queue or stay as they were.
      ASSUME UNCHANGED faults,
             \A j \in Jobs :
                \/ job'[j] = job[j] /\ (job[j].status = "processing" /\ Held(j) => Held(j)')
                \/ /\ job'[j].attempts <= job[j].attempts
                   /\ job'[j].attempts \in Nat
                   /\ job'[j].status # "processing"
                   /\ job'[j].status \in {"pending", "retry"} => job'[j].attempts < MaxAttempts
      PROVE  AttemptsCounted'
  <2> SUFFICES ASSUME NEW j \in Jobs
               PROVE  /\ job'[j].status \in {"pending", "retry"} => job'[j].attempts < MaxAttempts
                      /\ job'[j].attempts <= MaxAttempts + faults'
                      /\ job'[j].status = "processing" /\ ~Held(j)'
                           => job'[j].attempts < MaxAttempts + faults'
    BY DEF AttemptsCounted
  <2> QED BY <1>1, <1>n, AttemptsAssumption DEF AttemptsCounted
<1>2. CASE Quiet
  <2>0. UNCHANGED job
    BY <1>t, <1>2, JobsLeftAlone
  <2>1. CASE UNCHANGED <<worker, live, faults>>
    BY <1>1, <2>0, <2>1 DEF Held, Busy
  <2>2. ASSUME NEW h \in Hooks, LeaseExpires(h) PROVE AttemptsCounted'
    <3>1. \A j \in Jobs : Held(j) => Held(j)'
      BY <2>0, <2>2 DEF LeaseExpires, Held, Busy
    <3> QED BY <1>1, <2>0, <2>2, <3>1 DEF LeaseExpires
  <2>3. ASSUME NEW w \in Workers, Send(w) PROVE AttemptsCounted'
    <3>1. PICK outcome \in Outcomes :
            worker' = [worker EXCEPT ![w] = [worker[w] EXCEPT !.pc = "finishing", !.outcome = outcome]]
      BY <2>3 DEF Send
    <3>2. worker'[w].token = worker[w].token /\ worker'[w].pc = "finishing"
      BY <1>t, <3>1 DEF TypeOK, Claimants
    <3>3. \A v \in Workers : v # w => worker'[v] = worker[v]
      BY <1>t, <3>1 DEF TypeOK
    <3>4. \A j \in Jobs : Held(j) => Held(j)'
      <4>1. UNCHANGED live
        BY <2>3 DEF Send
      <4>2. \A v \in Workers : Busy(v) => Busy(v)' /\ worker'[v].token = worker[v].token
        BY <3>2, <3>3 DEF Busy
      <4> QED BY <2>0, <4>1, <4>2 DEF Held
    <3> QED BY <1>1, <2>0, <2>3, <3>4 DEF Send
  <2>4. ASSUME NEW w \in Workers, FinishRejected(w) PROVE AttemptsCounted'
    <3>1. UNCHANGED <<live, faults, hook>> /\ \A v \in Workers : v # w => worker'[v] = worker[v]
      BY <1>t, <2>4 DEF FinishRejected, TypeOK
    <3>2. ASSUME NEW j \in Jobs, job[j].status = "processing", Held(j) PROVE Held(j)'
      <4>1. PICK v \in Workers : Busy(v) /\ worker[v].token = job[j].token
        BY <3>2 DEF Held
      <4>2. CASE v # w
        BY <2>0, <3>1, <3>2, <4>1, <4>2 DEF Held, Busy
      <4>3. CASE v = w
        <5>1. worker[w].job = j
          BY <4>1, <4>3 DEF ClaimNamesJob
        <5>2. hook[j[2]].lease = job[j].token
          BY <3>2 DEF Held, LeaseFollowsClaim
        <5> QED BY <2>4, <3>2, <4>1, <4>3, <5>1, <5>2 DEF FinishRejected, Owns, HoldsLease
      <4> QED BY <4>2, <4>3
    <3> QED BY <1>1, <2>0, <3>1, <3>2
  <2>5. ASSUME NEW w \in Workers, WorkerFails(w) \/ LeaseOverrun(w) PROVE AttemptsCounted'
    <3>1. faults' = faults + 1
      BY <2>5 DEF WorkerFails, LeaseOverrun
    <3>2. SUFFICES ASSUME NEW j \in Jobs
                   PROVE  /\ job[j].status \in {"pending", "retry"} => job[j].attempts < MaxAttempts
                          /\ job[j].attempts < MaxAttempts + (faults + 1)
      BY <1>n, <2>0, <3>1, AttemptsAssumption DEF AttemptsCounted
    <3> QED BY <1>n, AttemptsAssumption DEF AttemptsCounted
  <2> QED
    BY <1>2, <2>1, <2>2, <2>3, <2>4, <2>5 DEF Quiet, CreateHook, TestDelivery, InsertEvent,
       InsertJobs, AbortSource, vars
<1>3. ASSUME NEW h \in Hooks, DeleteHook(h) PROVE AttemptsCounted'
  <2>1. /\ \A j \in Jobs :
              \/ job'[j] = job[j] /\ (j[2] = h => job[j].status = "none")
              \/ job'[j] = [status |-> "deleted", attempts |-> 0, token |-> NoToken]
        /\ live' = live \ {hook[h].lease}
        /\ UNCHANGED <<worker, faults>>
    BY <1>t, <1>3 DEF TypeOK, DeleteHook
  <2>2. ASSUME NEW j \in Jobs, j[2] # h, Held(j), job'[j] = job[j] PROVE Held(j)'
    <3>1. PICK w \in Workers : Busy(w) /\ worker[w].token = job[j].token
      BY <2>2 DEF Held
    <3>2. hook[j[2]].lease = job[j].token
      BY <2>2 DEF Held, LeaseFollowsClaim
    <3>3. worker[w].job[2] = j[2]
      BY <1>n, <3>1, <3>2 DEF FlightInv, TokensName
    <3>4. hook[h].lease # job[j].token
      BY <2>2, <3>1, <3>3 DEF FlightInv, TokensName
    <3> QED BY <2>1, <2>2, <3>1, <3>4 DEF Held, Busy
  <2>3. \A k : k = [status |-> "deleted", attempts |-> 0, token |-> NoToken] =>
              k.attempts = 0 /\ k.status = "deleted"
    OBVIOUS
  <2>4. ASSUME NEW j \in Jobs
        PROVE  \/ job'[j] = job[j] /\ (job[j].status = "processing" /\ Held(j) => Held(j)')
               \/ job'[j].attempts = 0 /\ job'[j].status = "deleted"
    BY <2>1, <2>2, <2>3
  <2> QED BY <1>1, <1>n, <2>1, <2>4
<1>4. ASSUME NEW e \in Events, CommitSource(e) PROVE AttemptsCounted'
  <2>1. UNCHANGED <<worker, live, faults>>
    BY <1>4 DEF CommitSource
  <2>2. \A j \in Jobs : \/ job'[j] = job[j]
                        \/ job'[j].attempts = 0 /\ job'[j].status = "pending"
    BY <1>t, <1>4, CommitWrites
  <2>3. \A j \in Jobs : job'[j] = job[j] /\ Held(j) => Held(j)'
    BY <2>1 DEF Held, Busy
  <2> QED BY <1>1, <1>n, <2>1, <2>2, <2>3, AttemptsAssumption
<1>5. ASSUME NEW w \in Workers, NEW j \in Jobs, Claim(w, j) PROVE AttemptsCounted'
  <2> DEFINE token == claims + 1
             n == job[j].attempts + 1
  <2>1. /\ job'[j] = [status |-> "processing", attempts |-> n, token |-> token]
        /\ \A k \in Jobs : k # j => job'[k] = job[k]
        /\ live' = live \cup {token}
        /\ worker'[w] = [pc |-> "sending", job |-> j, token |-> token,
                         attempt |-> n, outcome |-> "none"]
        /\ \A v \in Workers : v # w => worker'[v] = worker[v]
    BY <1>t, <1>5, ClaimWrites
  <2>2. faults' = faults /\ ~Busy(w) /\ Due(j)
    BY <1>5 DEF Claim, Busy
  <2>3. n <= MaxAttempts + faults
    <3>1. CASE job[j].status \in {"pending", "retry"}
      BY <1>n, <3>1, AttemptsAssumption DEF AttemptsCounted
    <3>2. CASE job[j].status = "processing" /\ job[j].token \notin live
      BY <1>n, <3>2, AttemptsAssumption DEF AttemptsCounted, Held
    <3> QED BY <2>2, <3>1, <3>2 DEF Due
  <2>4. /\ job'[j].status = "processing" /\ job'[j].attempts = n /\ job'[j].token = token
        /\ worker'[w].pc = "sending" /\ worker'[w].token = token
    BY <2>1
  <2> HIDE DEF n, token
  <2>5. Held(j)'
    BY <2>1, <2>4 DEF Held, Busy
  <2>6. ASSUME NEW k \in Jobs, k # j, Held(k) PROVE Held(k)'
    <3>1. job'[k] = job[k] /\ live \subseteq live'
      BY <2>1, <2>6
    <3>2. PICK v \in Workers : Busy(v) /\ worker[v].token = job[k].token
      BY <2>6 DEF Held
    <3>3. worker'[v] = worker[v]
      BY <2>1, <2>2, <3>2
    <3> QED BY <2>6, <3>1, <3>2, <3>3 DEF Held, Busy
  <2> QED BY <2>1, <2>2, <2>3, <2>4, <2>5, <2>6 DEF AttemptsCounted
<1>6. ASSUME NEW w \in Workers, FinishSuccess(w) \/ FinishFailure(w) PROVE AttemptsCounted'
  <2> DEFINE j == worker[w].job
             t == worker[w].token
  <2>1. /\ Busy(w) /\ t # NoToken /\ UNCHANGED faults
        /\ \A v \in Workers : Busy(v) /\ worker[v].token = t => v = w
    BY <1>6 DEF FinishSuccess, FinishFailure, Busy, FlightInv, TokensIssued, TokensName
  <2>2. /\ j \in Jobs /\ job[j].status = "processing" /\ job[j].token = t
        /\ live' = live \ {t}
        /\ \A v \in Workers : v # w => worker'[v] = worker[v]
    BY <1>t, <1>6, SuccessWrites, FailureWrites
  <2>3. worker[w].attempt = job[j].attempts
    BY <2>1, <2>2 DEF WorkersKnowJobs
  <2>4. \/ job'[j].status = "succeeded" /\ job'[j].attempts = job[j].attempts
        \/ job'[j].status = "dead" /\ job'[j].attempts = job[j].attempts
        \/ /\ job'[j].status = "retry" /\ job'[j].attempts = job[j].attempts
           /\ worker[w].attempt < MaxAttempts
    <3>1. \A status : /\ Close(j, status).status = status
                      /\ Close(j, status).attempts = job[j].attempts
      BY DEF Close
    <3>2. CASE FinishSuccess(w)
      <4>1. job'[j] = Close(j, "succeeded")
        BY <1>t, <3>2, SuccessWrites DEF Close
      <4> QED BY <3>1, <4>1
    <3>3. CASE FinishFailure(w)
      BY <1>t, <3>1, <3>3, FailureWrites
    <3> QED BY <1>6, <3>2, <3>3
  <2>5. ASSUME NEW k \in Jobs, k # j
        PROVE  \/ job'[k] = job[k]
               \/ job'[k].status = "canceled" /\ job'[k].attempts = job[k].attempts
    <3>1. \A status : /\ Close(k, status).status = status
                      /\ Close(k, status).attempts = job[k].attempts
      BY DEF Close
    <3>2. CASE FinishSuccess(w)
      BY <1>t, <2>5, <3>2, SuccessWrites
    <3>3. CASE FinishFailure(w)
      BY <1>t, <2>5, <3>1, <3>3, FailureWrites
    <3> QED BY <1>6, <3>2, <3>3
  <2>6. ASSUME NEW k \in Jobs, k # j, job'[k] = job[k], Held(k) PROVE Held(k)'
    <3>1. job[k].token # t
      BY <2>1, <2>2, <2>6 DEF LeaseFollowsClaim
    <3>2. PICK v \in Workers : Busy(v) /\ worker[v].token = job[k].token
      BY <2>6 DEF Held
    <3>3. v # w
      BY <3>1, <3>2
    <3> QED BY <2>2, <2>6, <3>1, <3>2, <3>3 DEF Held, Busy
  <2> HIDE DEF j, t
  <2> QED BY <1>1, <1>n, <2>1, <2>2, <2>3, <2>4, <2>5, <2>6
<1> QED
  BY <1>2, <1>3, <1>4, <1>5, <1>6, StepKinds

-----------------------------------------------------------------------------
(* The history.                                                            *)

\* A finish adds the row r of the attempt under way to the job j, ends the job
\* or returns it to the queue as r says, and may cancel other queued jobs.
Finishes(j, r) ==
    /\ job[j].status = "processing"
    /\ r.job = j /\ r.attempt = job[j].attempts /\ r.attempt \in Nat \ {0}
    /\ Last(r) \/ r.attempt < MaxAttempts
    /\ log' = log \cup {r}
    /\ job'[j].attempts = job[j].attempts
    /\ job'[j].status = IF r.outcome = "ok" THEN "succeeded"
                        ELSE IF r.terminal THEN "dead" ELSE "retry"
    /\ r.outcome = "ok" => ~r.terminal
    /\ \A k \in Jobs : k # j =>
         \/ job'[k] = job[k]
         \/ /\ job[k].status \in Queued
            /\ job'[k].status = "canceled" /\ job'[k].attempts = job[k].attempts

LEMMA FinishAddsRow ==
    ASSUME TypeOK, RowsOfJobs, NEW j \in Jobs, NEW r, Finishes(j, r)
    PROVE  RowsOfJobs'
<1> USE DEF Finishes
<1>1. \A s \in log : s.job \in Jobs /\ s.attempt \in Nat
  BY DEF TypeOK, Attempts
<1>2. \A k \in Jobs : job[k].attempts \in Nat
  BY DEF TypeOK, JobRows
<1>3. \A s \in log : s.job = j => ~Last(s) /\ s.attempt < r.attempt
  BY DEF RowsOfJobs, Last
<1>4. \A s \in log : job[s.job].status \in Queued => ~Last(s)
  BY DEF RowsOfJobs, Last, Queued
<1>5. ASSUME NEW s \in log', NEW k, k = job'[s.job]
      PROVE  /\ k.status \notin {"none", "deleted"}
             /\ s.attempt \in 1 .. k.attempts
             /\ k.status = "processing" => s.attempt < k.attempts
             /\ s.outcome = "ok" => k.status = "succeeded"
             /\ s.terminal => k.status = "dead"
             /\ Last(s) \/ s.attempt < MaxAttempts
  <2>1. CASE s = r
    BY <1>2, <1>5, <2>1
  <2>2. CASE s # r /\ s.job = j
    BY <1>1, <1>2, <1>3, <1>5, <2>2 DEF RowsOfJobs, Last
  <2>3. CASE s.job # j
    <3>1. s \in log /\ s.job \in Jobs
      BY <1>1, <2>3
    <3>2. CASE job'[s.job] = job[s.job]
      BY <1>5, <3>1, <3>2 DEF RowsOfJobs
    <3>3. CASE job[s.job].status \in Queued /\ k.status = "canceled"
               /\ k.attempts = job[s.job].attempts
      BY <1>4, <1>5, <3>1, <3>3 DEF RowsOfJobs, Last
    <3> QED BY <1>5, <2>3, <3>1, <3>2, <3>3
  <2> QED BY <2>1, <2>2, <2>3
<1>6. ASSUME NEW s \in log', NEW u \in log', s.job = u.job,
             s.attempt = u.attempt \/ (Last(s) /\ Last(u))
      PROVE  s = u
  <2>1. CASE s \in log /\ u \in log
    BY <1>6, <2>1 DEF RowsOfJobs
  <2>2. ASSUME NEW v \in log, v.job = j PROVE v.attempt # r.attempt /\ ~Last(v)
    BY <1>1, <1>3, <2>2
  <2>3. CASE s = r \/ u = r
    BY <1>6, <2>2, <2>3
  <2> QED BY <2>1, <2>3
<1>7. ASSUME NEW k \in Jobs
      PROVE  /\ job'[k].status = "succeeded" => \E s \in log' : s.job = k /\ s.outcome = "ok"
             /\ job'[k].status = "dead" => \E s \in log' : s.job = k /\ s.terminal
  <2>1. CASE k = j
    BY <2>1
  <2>2. CASE k # j
    BY <2>2 DEF RowsOfJobs
  <2> QED BY <2>1, <2>2
<1> QED
  BY <1>5, <1>6, <1>7 DEF RowsOfJobs, Last

\* Only a finish adds a row, and only a delete takes rows away, with the job.
LEMMA RowsKept ==
    ASSUME FlightInv, Uncommitted, WorkersKnowJobs, RowsOfJobs, [Next]_vars
    PROVE  RowsOfJobs'
<1>t. TypeOK
  BY DEF FlightInv
<1>r. \A r \in log : r.job \in Jobs /\ r.job[2] \in Hooks /\ r.attempt \in Nat
  BY <1>t DEF TypeOK, Attempts, Jobs
<1>1. CASE Quiet
  <2>1. UNCHANGED <<job, log>>
    BY <1>t, <1>1, JobsLeftAlone
  <2> QED BY <2>1 DEF RowsOfJobs
<1>2. ASSUME NEW h \in Hooks, DeleteHook(h) PROVE RowsOfJobs'
  <2>1. /\ log' = {r \in log : r.job[2] # h}
        /\ \A j \in Jobs : \/ job'[j] = job[j] /\ (j[2] = h => job[j].status = "none")
                           \/ j[2] = h /\ job'[j].status = "deleted"
    BY <1>t, <1>2, DeleteWrites
  <2>2. \A r \in log' : r \in log /\ r.job \in Jobs /\ job'[r.job] = job[r.job]
    BY <1>r, <2>1
  <2>3. \A j \in Jobs, r \in log : r.job = j /\ job'[j].status \in {"succeeded", "dead"}
                                     => r \in log' /\ job'[j] = job[j]
    BY <2>1
  <2>4. \A j \in Jobs : job'[j].status \in {"succeeded", "dead"} => job'[j] = job[j]
    BY <2>1
  <2> QED BY <2>2, <2>3, <2>4 DEF RowsOfJobs, Last
<1>3. ASSUME NEW e \in Events, CommitSource(e) PROVE RowsOfJobs'
  <2>1. log' = log /\ \A j \in Jobs : \/ job'[j] = job[j]
                                      \/ job[j].status = "none"
                                         /\ job'[j] = [status |-> "pending", attempts |-> 0,
                                                       token |-> NoToken]
    BY <1>t, <1>3, CommitWrites DEF Uncommitted
  <2>2. \A j \in Jobs : job'[j] = job[j] \/ (job[j].status = "none" /\ job'[j].status = "pending")
    BY <2>1
  <2>3. \A r \in log : job'[r.job] = job[r.job]
    BY <1>r, <2>2 DEF RowsOfJobs
  <2> QED BY <2>1, <2>2, <2>3 DEF RowsOfJobs, Last
<1>4. ASSUME NEW w \in Workers, NEW j \in Jobs, Claim(w, j) PROVE RowsOfJobs'
  <2>1. /\ job'[j] = [status |-> "processing", attempts |-> job[j].attempts + 1,
                      token |-> claims + 1]
        /\ \A k \in Jobs : k # j => job'[k] = job[k]
        /\ job[j].status \in Queued
        /\ log' = log
    BY <1>t, <1>4, ClaimWrites
  <2>2. job'[j].status = "processing" /\ job'[j].attempts = job[j].attempts + 1
    BY <2>1
  <2>3. job[j].attempts \in Nat
    BY <1>t DEF TypeOK, JobRows
  <2>4. ASSUME NEW r \in log, NEW k, k = job'[r.job]
        PROVE  /\ k.status \notin {"none", "deleted"}
               /\ r.attempt \in 1 .. k.attempts
               /\ k.status = "processing" => r.attempt < k.attempts
               /\ r.outcome = "ok" => k.status = "succeeded"
               /\ r.terminal => k.status = "dead"
               /\ Last(r) \/ r.attempt < MaxAttempts
    <3>1. CASE r.job = j
      BY <1>r, <2>1, <2>2, <2>3, <2>4, <3>1 DEF RowsOfJobs, Queued
    <3>2. CASE r.job # j
      BY <1>r, <2>1, <2>4, <3>2 DEF RowsOfJobs
    <3> QED BY <3>1, <3>2
  <2>5. \A k \in Jobs : job'[k].status \in {"succeeded", "dead"} => job'[k] = job[k]
    BY <2>1, <2>2
  <2> QED BY <2>1, <2>4, <2>5 DEF RowsOfJobs, Last
<1>5. ASSUME NEW w \in Workers, FinishSuccess(w) \/ FinishFailure(w) PROVE RowsOfJobs'
  <2> DEFINE j == worker[w].job
  <2>1. /\ j \in Jobs /\ worker[w].attempt \in Nat \ {0} /\ worker[w].outcome \in Outcomes
        /\ job[j].status = "processing" /\ worker[w].attempt = job[j].attempts
    <3>1. worker[w] \in Claimants /\ Busy(w)
      BY <1>t, <1>5 DEF FinishSuccess, FinishFailure, TypeOK, Busy
    <3>2. worker[w].attempt > 0 /\ worker[w].attempt \in Nat
      BY <3>1 DEF WorkersKnowJobs, Claimants
    <3>3. job[j].status = "processing" /\ job[j].token = worker[w].token
      BY <1>5 DEF FinishSuccess, FinishFailure, Owns
    <3>4. worker[w].attempt = job[j].attempts
      BY <3>1, <3>3 DEF WorkersKnowJobs
    <3>5. worker[w].pc = "finishing"
      BY <1>5 DEF FinishSuccess, FinishFailure
    <3>6. j \in Jobs /\ worker[w].outcome \in Outcomes
      BY <1>t, <3>5 DEF TypeOK
    <3> QED BY <3>2, <3>3, <3>4, <3>6
  <2>2. ASSUME NEW terminal \in BOOLEAN, NEW r, r = AttemptRow(w, terminal)
        PROVE  /\ r.job = j /\ r.attempt = worker[w].attempt /\ r.outcome = worker[w].outcome
               /\ r.terminal = terminal
    BY <2>2 DEF AttemptRow
  <2>3. ASSUME NEW k \in Jobs, NEW status PROVE Close(k, status).status = status
                                                /\ Close(k, status).attempts = job[k].attempts
    BY DEF Close
  <2>4. CASE FinishSuccess(w)
    <3> DEFINE r == AttemptRow(w, FALSE)
    <3>1. /\ worker[w].outcome = "ok" /\ log' = log \cup {r}
          /\ \A k \in Jobs : k # j => job'[k] = job[k]
      BY <1>t, <2>4, SuccessWrites
    <3>2. job'[j] = [status |-> "succeeded", attempts |-> job[j].attempts, token |-> NoToken]
      BY <1>t, <2>4, SuccessWrites
    <3>3. job'[j].status = "succeeded" /\ job'[j].attempts = job[j].attempts
      BY <3>2
    <3>4. r.job = j /\ r.attempt = worker[w].attempt /\ r.outcome = "ok" /\ r.terminal = FALSE
      BY <2>2, <3>1
    <3> HIDE DEF r, j
    <3>5. Finishes(j, r)
      BY <2>1, <3>1, <3>3, <3>4 DEF Finishes, Last
    <3> QED BY <1>t, <2>1, <3>5, FinishAddsRow
  <2>5. CASE FinishFailure(w)
    <3>1. PICK terminal \in BOOLEAN :
            /\ job'[j] = Close(j, IF terminal THEN "dead" ELSE "retry")
            /\ ~terminal => worker[w].attempt < MaxAttempts
            /\ log' = log \cup {AttemptRow(w, terminal)}
      BY <1>t, <2>5, FailureWrites
    <3> DEFINE r == AttemptRow(w, terminal)
    <3>2. /\ worker[w].outcome # "ok"
          /\ \A k \in Jobs : k # j =>
               job'[k] = job[k] \/ (job[k].status \in Queued /\ job'[k] = Close(k, "canceled"))
      BY <1>t, <2>5, FailureWrites
    <3>3. r.job = j /\ r.attempt = worker[w].attempt /\ r.outcome # "ok" /\ r.terminal = terminal
      BY <2>2, <3>2
    <3>4. /\ job'[j].attempts = job[j].attempts
          /\ job'[j].status = IF terminal THEN "dead" ELSE "retry"
      BY <2>1, <2>3, <3>1
    <3>5. \A k \in Jobs : k # j =>
            \/ job'[k] = job[k]
            \/ /\ job[k].status \in Queued
               /\ job'[k].status = "canceled" /\ job'[k].attempts = job[k].attempts
      BY <2>3, <3>2
    <3>6. log' = log \cup {r}
      BY <3>1
    <3>8. ~terminal => worker[w].attempt < MaxAttempts
      BY <3>1
    <3> HIDE DEF r, j
    <3>7. Finishes(j, r)
      BY <2>1, <3>8, <3>3, <3>4, <3>5, <3>6 DEF Finishes, Last
    <3> QED BY <1>t, <2>1, <3>7, FinishAddsRow
  <2> QED BY <1>5, <2>4, <2>5
<1> QED
  BY <1>1, <1>2, <1>3, <1>4, <1>5, StepKinds

\* Every step keeps the whole invariant.
LEMMA OutboxInvariance == OutboxInv /\ [Next]_vars => OutboxInv'
<1> SUFFICES ASSUME OutboxInv, [Next]_vars PROVE OutboxInv'
  OBVIOUS
<1>1. FlightInv /\ TypeOK /\ FlightInv'
  BY FlightInvariance DEF OutboxInv, FlightInv
<1> QED
  BY <1>1, UncommittedKept, WorkersKept, LeaseKept, HealthKept, RowsKept, ClaimsNamed,
     AttemptsKept DEF OutboxInv

LEMMA OutboxInitially == Init => OutboxInv
<1> SUFFICES ASSUME Init PROVE OutboxInv
  OBVIOUS
<1>1. TypeOK
  BY TypeInitially
<1>2. \A w \in Workers : worker[w].pc = "idle" /\ worker[w].token = NoToken
  BY DEF Init, Idle
<1>3. \A h \in Hooks : hook[h].lease = NoToken /\ hook[h].row = "absent"
  BY DEF Init, NoRow
<1>4. \A j \in Jobs : job[j].status = "none" /\ job[j].token = NoToken
  BY DEF Init
<1>5. FlightInv
  BY <1>1, <1>2, <1>3, <1>4 DEF Init, FlightInv, TokensIssued, TokensName, Busy,
     SendingHoldsLease, OneInFlightPerHook, NoToken
<1>6. WorkersKnowJobs
  BY <1>2 DEF WorkersKnowJobs, Busy
<1>7. LeaseFollowsClaim
  BY <1>3, <1>4, LeaseBacked DEF Init
<1>8. HealthMatchesStreak
  BY <1>3 DEF HealthMatchesStreak
<1>9. ClaimNamesJob
  BY <1>2 DEF ClaimNamesJob, Busy
<1>10. AttemptsCounted
  BY <1>4, AttemptsAssumption DEF Init, AttemptsCounted
<1> QED
  BY <1>4, <1>5, <1>6, <1>7, <1>8, <1>9, <1>10 DEF Init, OutboxInv, Uncommitted, RowsOfJobs

\* OutboxInv holds in every reachable state.
LEMMA OutboxInvariant == Spec => []OutboxInv
  BY OutboxInitially, OutboxInvariance, PTL DEF Spec

-----------------------------------------------------------------------------
(* What the owner of a hook relies on.                                     *)

\* A destination's lease is backed by the running claim it was taken for, and
\* an unexpired claim by its lease, across claims, finishes, expiries,
\* cancellations and deletes (ClaimDelivery, FinishDelivery).
THEOREM LeasesAreClaims == Spec => []LeaseFollowsClaim
<1>1. OutboxInv => LeaseFollowsClaim
  BY DEF OutboxInv
<1> QED
  BY <1>1, OutboxInvariant, PTL

\* A hook is active exactly while its streak of failures is below the limit,
\* whichever of the workers and the owner's tests wrote the row last.
THEOREM HealthIsStreak == Spec => []HealthMatchesStreak
<1>1. OutboxInv => HealthMatchesStreak
  BY DEF OutboxInv
<1> QED
  BY <1>1, OutboxInvariant, PTL

\* The history accounts for a job's state and records at most MaxAttempts of its
\* attempts: those before the last have distinct numbers below the limit.
\* attempt_count is at most the limit plus the faults: each attempt past the
\* limit takes over a claim that a crash, a shutdown or a stall gave up.
THEOREM HistoryIsComplete == Spec => []HistoryExplainsJob
<1>1. OutboxInv => HistoryExplainsJob
  <2> SUFFICES ASSUME OutboxInv, NEW j \in Jobs
               PROVE  /\ job[j].status = "succeeded" <=> \E r \in Rows(j) : r.outcome = "ok"
                      /\ job[j].status = "dead" <=> \E r \in Rows(j) : r.terminal
                      /\ job[j].status = "processing" =>
                           \A r \in Rows(j) : r.attempt < job[j].attempts
                      /\ Cardinality(Rows(j)) <= MaxAttempts
                      /\ job[j].attempts <= MaxAttempts + faults
    BY DEF HistoryExplainsJob
  <2> USE DEF OutboxInv
  <2>1. \A r : r \in Rows(j) <=> r \in log /\ r.job = j
    BY DEF Rows
  <2>2. /\ job[j].status = "succeeded" <=> \E r \in Rows(j) : r.outcome = "ok"
        /\ job[j].status = "dead" <=> \E r \in Rows(j) : r.terminal
        /\ job[j].status = "processing" => \A r \in Rows(j) : r.attempt < job[j].attempts
    BY <2>1 DEF RowsOfJobs
  <2> DEFINE f == [r \in Rows(j) |-> IF Last(r) THEN MaxAttempts ELSE r.attempt]
  <2>3. \A r \in log : r.attempt \in Nat /\ r.attempt > 0
    BY DEF RowsOfJobs, FlightInv, TypeOK, Attempts
  <2>4. f \in Injection(Rows(j), 1 .. MaxAttempts)
    <3>1. f \in [Rows(j) -> 1 .. MaxAttempts]
      BY <2>1, <2>3, AttemptsAssumption DEF RowsOfJobs
    <3>2. ASSUME NEW r \in Rows(j), NEW s \in Rows(j), f[r] = f[s] PROVE r = s
      <4>1. r.attempt = s.attempt \/ (Last(r) /\ Last(s))
        BY <2>1, <2>3, <3>2, AttemptsAssumption DEF RowsOfJobs
      <4> QED BY <2>1, <4>1 DEF RowsOfJobs
    <3> QED BY <3>1, <3>2 DEF Injection, IsInjective
  <2>5. IsFiniteSet(1 .. MaxAttempts) /\ Cardinality(1 .. MaxAttempts) = MaxAttempts
    BY FS_Interval, AttemptsAssumption
  <2>6. Cardinality(Rows(j)) <= MaxAttempts
    BY <2>4, <2>5, FS_Injection
  <2>7. job[j].attempts <= MaxAttempts + faults
    BY DEF AttemptsCounted
  <2> QED BY <2>2, <2>6, <2>7
<1> QED
  BY <1>1, OutboxInvariant, PTL

\* A settled job is final: no claim, finish, cancellation or commit changes its
\* status, only the delete of its hook.
THEOREM Final == Spec => SettledIsFinal
<1>1. OutboxInv /\ [Next]_vars =>
        [\A j \in Jobs : job[j].status \in Settled => job'[j].status \in {job[j].status, "deleted"}]_vars
  <2> SUFFICES ASSUME OutboxInv, [Next]_vars, NEW j \in Jobs, job[j].status \in Settled
               PROVE  job'[j].status \in {job[j].status, "deleted"}
    OBVIOUS
  <2>t. TypeOK /\ Uncommitted
    BY DEF OutboxInv, FlightInv
  <2>s. job[j].status \notin Queued /\ job[j].status # "none"
    BY DEF Settled, Queued
  <2>1. CASE Quiet
    BY <2>t, <2>1, JobsLeftAlone
  <2>2. ASSUME NEW h \in Hooks, DeleteHook(h) PROVE job'[j].status \in {job[j].status, "deleted"}
    BY <2>t, <2>2, DeleteWrites
  <2>3. ASSUME NEW e \in Events, CommitSource(e)
        PROVE  job'[j].status \in {job[j].status, "deleted"}
    BY <2>t, <2>s, <2>3, CommitIsNew
  <2>4. ASSUME NEW w \in Workers, NEW k \in Jobs, Claim(w, k)
        PROVE  job'[j].status \in {job[j].status, "deleted"}
    BY <2>t, <2>s, <2>4, ClaimWrites
  <2>5. ASSUME NEW w \in Workers, FinishSuccess(w)
        PROVE  job'[j].status \in {job[j].status, "deleted"}
    <3>1. job[worker[w].job].status = "processing"
          /\ \A k \in Jobs : k # worker[w].job => job'[k] = job[k]
      BY <2>t, <2>5, SuccessWrites
    <3> QED BY <2>s, <3>1 DEF Queued
  <2>6. ASSUME NEW w \in Workers, FinishFailure(w)
        PROVE  job'[j].status \in {job[j].status, "deleted"}
    <3>1. job[worker[w].job].status = "processing"
          /\ \A k \in Jobs : k # worker[w].job => job'[k] = job[k] \/ job[k].status \in Queued
      BY <2>t, <2>6, FailureWrites
    <3> QED BY <2>s, <3>1 DEF Queued
  <2> QED
    BY <2>1, <2>2, <2>3, <2>4, <2>5, <2>6, StepKinds
<1> QED
  BY <1>1, OutboxInvariant, PTL DEF Spec, SettledIsFinal

-----------------------------------------------------------------------------
(* The refinement of DeliveryPromise.                                      *)

\* A step that moves the jobs of S, and no other, to one state of the promise.
LEMMA PromiseMoves ==
    ASSUME NEW S, NEW to, UNCHANGED accepted,
           \A j \in Jobs : PromiseState(j)' = IF j \in S THEN to ELSE PromiseState(j)
    PROVE  Promise!Move(S, to)
  BY DEF Promise!Move, Promise!Jobs, Jobs

\* A job that keeps its status keeps its state of the promise.
LEMMA PromiseStates ==
    ASSUME NEW j \in Jobs
    PROVE  /\ (job[j].status \in Queued) <=> PromiseState(j) = "queued"
           /\ (job[j].status = "none") => PromiseState(j) = "none"
           /\ (job[j].status = "succeeded") => PromiseState(j) = "delivered"
           /\ (job[j].status \in {"dead", "canceled"}) => PromiseState(j) = "abandoned"
           /\ (job[j].status = "deleted") => PromiseState(j) = "gone"
           /\ (job[j].status \in Statuses /\ job[j].status # "none") => PromiseState(j) # "none"
  BY DEF PromiseState, Queued, Settled, Statuses

LEMMA PromiseStatesAfter ==
    ASSUME NEW j \in Jobs
    PROVE  /\ (job'[j].status \in Queued) <=> PromiseState(j)' = "queued"
           /\ (job'[j].status = "none") => PromiseState(j)' = "none"
           /\ (job'[j].status = "succeeded") => PromiseState(j)' = "delivered"
           /\ (job'[j].status \in {"dead", "canceled"}) => PromiseState(j)' = "abandoned"
           /\ (job'[j].status = "deleted") => PromiseState(j)' = "gone"
           /\ job'[j] = job[j] => PromiseState(j)' = PromiseState(j)
  BY DEF PromiseState, Queued, Settled

LEMMA PromiseStep == OutboxInv /\ [Next]_vars => [Promise!Next]_Promise!vars
<1> SUFFICES ASSUME OutboxInv, [Next]_vars PROVE [Promise!Next]_Promise!vars
  OBVIOUS
<1>t. TypeOK /\ FlightInv /\ Uncommitted /\ WorkersKnowJobs
  BY DEF OutboxInv, FlightInv
<1>s. \A j \in Jobs : job[j].status \in Statuses
  BY <1>t DEF TypeOK, JobRows
<1>u. ASSUME UNCHANGED <<job, accepted>> PROVE UNCHANGED Promise!vars
  BY <1>u DEF Promise!vars, PromiseState
<1>1. CASE Quiet /\ ~\E w \in Workers : Send(w)
  <2>1. UNCHANGED job
    BY <1>t, <1>1, JobsLeftAlone
  <2>2. UNCHANGED accepted
    BY <1>1 DEF Quiet, CreateHook, TestDelivery, LeaseExpires, InsertEvent, InsertJobs,
       AbortSource, FinishRejected, WorkerFails, LeaseOverrun, vars
  <2> QED BY <1>u, <2>1, <2>2
<1>2. ASSUME NEW w \in Workers, Send(w) PROVE [Promise!Next]_Promise!vars
  <2>1. worker[w].job \in Jobs /\ job[worker[w].job].status # "none"
    BY <1>t, <1>2 DEF Send, WorkersKnowJobs, Busy, TypeOK
  <2>2. PICK j \in Jobs : j = worker[w].job
    BY <2>1
  <2>3. UNCHANGED job /\ (accepted' = accepted \cup {j} \/ accepted' = accepted)
    BY <1>2, <2>2 DEF Send
  <2>4. PromiseState(j) # "none"
    BY <1>s, <2>1, <2>2, PromiseStates
  <2>5. \A k \in Jobs : PromiseState(k)' = PromiseState(k)
    BY <2>3, PromiseStatesAfter
  <2>6. ASSUME accepted' = accepted \cup {j} PROVE Promise!Accept(j)
    BY <2>4, <2>5, <2>6 DEF Promise!Accept
  <2>7. j \in Promise!Jobs
    BY DEF Promise!Jobs, Jobs
  <2> QED BY <1>u, <2>3, <2>6, <2>7 DEF Promise!Next
<1>3. ASSUME NEW h \in Hooks, DeleteHook(h) PROVE Promise!Next
  <2>1. PICK S \in SUBSET Jobs : S = {j \in Events \X {h} : PromiseState(j) # "none"}
    BY DEF Jobs
  <2>2. \A j \in Jobs : j \in S <=> j[2] = h /\ PromiseState(j) # "none"
    BY <2>1 DEF Jobs
  <2>3. /\ UNCHANGED accepted
        /\ \A j \in Jobs : \/ job'[j] = job[j] /\ (j[2] = h => job[j].status = "none")
                           \/ j[2] = h /\ job[j].status # "none" /\ job'[j].status = "deleted"
    BY <1>t, <1>3, DeleteWrites
  <2>4. \A j \in Jobs : PromiseState(j)' = IF j \in S THEN "gone" ELSE PromiseState(j)
    BY <1>s, <2>2, <2>3, PromiseStates, PromiseStatesAfter
  <2>5. Promise!Move(S, "gone")
    BY <2>3, <2>4, PromiseMoves
  <2>6. S = {j \in Events \X {h} : [k \in Jobs |-> PromiseState(k)][j] # "none"}
    BY <2>1 DEF Jobs
  <2>7. Promise!Remove(h)
    BY <2>5, <2>6 DEF Promise!Remove
  <2> QED BY <2>7 DEF Promise!Next
<1>4. ASSUME NEW e \in Events, CommitSource(e) PROVE Promise!Next
  <2>1. PICK H \in SUBSET Hooks : H = source[e].hooks
    BY <1>t DEF TypeOK, Sources
  <2>2. /\ UNCHANGED accepted
        /\ source[e].pc = "jobs"
    BY <1>t, <1>4, CommitWrites
  <2>3. \A h \in Hooks : <<e, h>> \in Jobs /\ job[<<e, h>>].status = "none"
    BY <1>t, <2>2 DEF Uncommitted, Jobs
  <2>4. \A h \in Hooks : [j \in Jobs |-> PromiseState(j)][<<e, h>>] = "none"
    BY <2>3, PromiseStates
  <2>5. PICK S \in SUBSET Jobs : S = {e} \X H
    BY DEF Jobs
  <2>6. \A j \in Jobs : j \in S <=> j[1] = e /\ j[2] \in source[e].hooks
    BY <2>1, <2>5 DEF Jobs
  <2>7. \A j \in Jobs : IF j \in S THEN job'[j].status = "pending" ELSE job'[j] = job[j]
    BY <1>4, <2>6 DEF CommitSource
  <2>8. \A j \in Jobs : PromiseState(j)' = IF j \in S THEN "queued" ELSE PromiseState(j)
    BY <2>7, PromiseStatesAfter DEF Queued
  <2>9. Promise!Move({e} \X H, "queued")
    BY <2>2, <2>5, <2>8, PromiseMoves
  <2>10. Promise!Enqueue(e)
    BY <2>4, <2>9 DEF Promise!Enqueue
  <2> QED BY <2>10 DEF Promise!Next
<1>5. ASSUME NEW w \in Workers, NEW j \in Jobs, Claim(w, j) PROVE UNCHANGED Promise!vars
  <2>1. /\ job'[j] = [status |-> "processing", attempts |-> job[j].attempts + 1,
                      token |-> claims + 1]
        /\ \A k \in Jobs : k # j => job'[k] = job[k]
        /\ job[j].status \in Queued
        /\ UNCHANGED accepted
    BY <1>t, <1>5, ClaimWrites
  <2>2. job'[j].status \in Queued
    BY <2>1 DEF Queued
  <2>3. \A k \in Jobs : PromiseState(k)' = PromiseState(k)
    BY <2>1, <2>2, PromiseStates, PromiseStatesAfter
  <2> QED BY <2>1, <2>3 DEF Promise!vars
<1>6. ASSUME NEW w \in Workers, FinishSuccess(w) PROVE Promise!Next
  <2>1. worker[w].job \in Jobs
    BY <1>t, <1>6, SuccessWrites
  <2>2. PICK j \in Jobs : j = worker[w].job
    BY <2>1
  <2>3. /\ job'[j] = [status |-> "succeeded", attempts |-> job[j].attempts, token |-> NoToken]
        /\ job[j].status = "processing"
        /\ \A k \in Jobs : k # j => job'[k] = job[k]
        /\ UNCHANGED accepted
    BY <1>t, <1>6, <2>2, SuccessWrites
  <2>4. j \in accepted
    BY <1>t, <1>6, <2>2 DEF WorkersKnowJobs, Busy, FinishSuccess
  <2>5. PromiseState(j) = "queued"
    BY <2>3, PromiseStates DEF Queued
  <2>6. PICK S \in SUBSET Jobs : S = {j}
    OBVIOUS
  <2>7. job'[j].status = "succeeded"
    BY <2>3
  <2>8. \A k \in Jobs : PromiseState(k)' = IF k \in S THEN "delivered" ELSE PromiseState(k)
    BY <2>3, <2>6, <2>7, PromiseStatesAfter
  <2>9. Promise!Move({j}, "delivered")
    BY <2>3, <2>6, <2>8, PromiseMoves
  <2>10. Promise!Deliver(j)
    BY <2>4, <2>5, <2>9 DEF Promise!Deliver
  <2>11. j \in Promise!Jobs
    BY DEF Promise!Jobs, Jobs
  <2> QED BY <2>10, <2>11 DEF Promise!Next
<1>7. ASSUME NEW w \in Workers, FinishFailure(w) PROVE Promise!Next
  <2>1. worker[w].job \in Jobs
    BY <1>t, <1>7, FailureWrites
  <2>2. PICK j \in Jobs : j = worker[w].job
    BY <2>1
  <2>3. /\ job[j].status = "processing"
        /\ \/ job'[j] = Close(j, "dead")
           \/ job'[j] = Close(j, "retry")
        /\ \A k \in Jobs : k # j =>
             \/ job'[k] = job[k]
             \/ k[2] = j[2] /\ job[k].status \in Queued /\ job'[k] = Close(k, "canceled")
        /\ UNCHANGED accepted
    BY <1>t, <1>7, <2>2, FailureWrites
  <2>4. \A k \in Jobs : /\ Close(k, "dead").status = "dead"
                        /\ Close(k, "retry").status = "retry"
                        /\ Close(k, "canceled").status = "canceled"
    BY DEF Close
  <2>5. PICK h \in Hooks : h = j[2]
    BY DEF Jobs
  <2>6. PICK S \in SUBSET Jobs :
          S = {k \in Jobs : k[2] = h /\ job[k].status \in Queued
                                     /\ job'[k].status \in {"dead", "canceled"}}
    OBVIOUS
  <2>7. \A k \in Jobs : IF k \in S
                        THEN job[k].status \in Queued /\ job'[k].status \in {"dead", "canceled"}
                        ELSE \/ job'[k] = job[k]
                             \/ job[k].status \in Queued /\ job'[k].status \in Queued
    BY <2>3, <2>4, <2>5, <2>6 DEF Queued
  <2>8. \A k \in Jobs : PromiseState(k)' = IF k \in S THEN "abandoned" ELSE PromiseState(k)
    BY <2>7, PromiseStates, PromiseStatesAfter
  <2>9. Promise!Move(S, "abandoned")
    BY <2>3, <2>8, PromiseMoves
  <2>10. S \in SUBSET (Events \X {h})
    BY <2>6 DEF Jobs
  <2>11. \A k \in S : [i \in Jobs |-> PromiseState(i)][k] = "queued"
    BY <2>7, PromiseStates
  <2>12. Promise!Abandon(h)
    BY <2>9, <2>10, <2>11 DEF Promise!Abandon
  <2> QED BY <2>12 DEF Promise!Next
<1> QED
  BY <1>1, <1>2, <1>3, <1>4, <1>5, <1>6, <1>7, StepKinds

LEMMA PromiseInitially == Init => Promise!Init
  BY DEF Init, Promise!Init, Promise!Jobs, Jobs, PromiseState, Queued

\* The outbox implements DeliveryPromise: an event queues its jobs together, a
\* job leaves the queue once and never returns, and it counts as delivered only
\* if the receiver has taken it, whatever crashes, stalls and expiries happen.
THEOREM PromiseImplemented == Spec => PromiseKept
  BY OutboxInitially, OutboxInvariance, PromiseInitially, PromiseStep, PTL
     DEF Spec, PromiseKept, Promise!Spec
=============================================================================
