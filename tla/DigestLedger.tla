----------------------------- MODULE DigestLedger -----------------------------
(***************************************************************************)
(* One scheduler tick of the email digests: internal/digest/digest.go and  *)
(* the scheduler loop of cmd/api/main.go, on every replica.                *)
(*                                                                         *)
(* A run for a cadence holds a PostgreSQL advisory lock on a connection of *)
(* its own; everything else it does is one autocommitted statement after   *)
(* another on the pool, each a step here.  A delivery is the ledger row of *)
(* a recipient and a cadence.  The texts a run renders are one value each, *)
(* hidden when a post they name is deleted or quarantined; who receives a  *)
(* text, and personalisation, make no difference to the ledger.  The loop  *)
(* takes recipients in any order (the code: by id).                        *)
(***************************************************************************)
EXTENDS Naturals, Sequences, FiniteSets

CONSTANTS
    Runners,     \* replicas, each with its scheduler goroutine
    Recipients,
    Free,        \* nobody holds the advisory lock
    Due,         \* PeriodsDueAt: the cadences of this tick, in order
    Texts,
    NoText,
    MaxTries,    \* a run and its retries
    MaxFaults,   \* bound: failed statements, lost connections, crashes, stalls
    MaxChanges   \* bound: changes of preference and moderation decisions

Cadences == {Due[i] : i \in DOMAIN Due}
Frequencies == {"daily", "weekly", "off"}
Deliveries == Cadences \X Recipients
Open == {"pending", "sending", "failed"}
Outcomes == {"ok", "lost", "failed"}

ASSUME DueAssumption == Due \in Seq({"daily", "weekly"})
ASSUME BoundAssumption == MaxTries \in Nat \ {0} /\ MaxFaults \in Nat /\ MaxChanges \in Nat
ASSUME NobodyAssumption == Free \notin Runners /\ NoText \notin Texts
\* Somebody is there to mail, and there is something to be mailed.
ASSUME SomeAssumption == Runners # {} /\ IsFiniteSet(Runners) /\ Texts # {}

VARIABLES
    pref,      \* human_users.digest_frequency
    hidden,    \* texts that name a post nobody may see
    lock,      \* advisory lock of each cadence
    row,       \* digest_deliveries
    run,       \* where each replica is
    faults, changes,
    mailed,    \* history: texts handed to the provider for a delivery
    accepted,  \* history: mails the provider accepted for it
    doubt,     \* history: what kept the ledger from knowing of a mail
    stray      \* history: mails handed over since the recipient opted out

vars == <<pref, hidden, lock, row, run, faults, changes, mailed, accepted, doubt, stray>>
history == <<mailed, accepted, doubt, stray>>
world == <<pref, hidden, changes>>

Absent == [status |-> "none", attempts |-> 0, expired |-> FALSE, text |-> NoText]
Start(due) == [pc |-> "waiting", due |-> due, tries |-> 0, fresh |-> NoText, todo |-> {},
               at |-> Free, text |-> NoText, outcome |-> "ok", failed |-> FALSE]

TypeOK ==
    /\ pref \in [Recipients -> Frequencies]
    /\ hidden \subseteq Texts
    /\ lock \in [Cadences -> Runners \cup {Free}]
    /\ \A d \in Deliveries :
         /\ row[d].status \in Open \cup {"none", "sent", "canceled"}
         /\ row[d].status \in Open <=> row[d].text \in Texts
         /\ row[d].expired => row[d].status = "sending"
    /\ \A w \in Runners :
         /\ run[w].tries < MaxTries
         /\ run[w].todo \subseteq Recipients
         /\ run[w].pc \in {"claim", "check", "cancel", "send", "mark"} => run[w].at \in Recipients

Init ==
    /\ pref \in [Recipients -> Frequencies]
    /\ hidden = {}
    /\ lock = [c \in Cadences |-> Free]
    /\ row = [d \in Deliveries |-> Absent]
    /\ run = [w \in Runners |-> Start(Due)]
    /\ faults = 0 /\ changes = 0
    /\ mailed = [d \in Deliveries |-> {}]
    /\ accepted = [d \in Deliveries |-> 0]
    /\ doubt = [d \in Deliveries |-> {}]
    /\ stray = [d \in Deliveries |-> 0]

-----------------------------------------------------------------------------
(* The ledger's rules.                                                     *)

Cadence(w) == Head(run[w].due)
Delivery(w) == <<Cadence(w), run[w].at>>
Move(w, pc) == run' = [run EXCEPT ![w].pc = pc]

\* Mutant: the recheck looks at the posts only.
Eligible_AnyReader(d, text) == text \notin hidden

\* The recipient still wants this cadence, and every post may be seen.
Eligible(d, text) == pref[d[2]] = d[1] /\ text \notin hidden

\* Mutant: explicit failures are not claimed again.
Claimable_NoRetry(d) ==
    \/ row[d].status = "pending"
    \/ row[d].status = "sending" /\ row[d].expired

\* Mutant: a claim counts for nothing.
Claimable_Unclaimed(d) == row[d].status \in Open

Claimable(d) ==
    \/ row[d].status \in {"pending", "failed"}
    \/ row[d].status = "sending" /\ row[d].expired

\* Mutant: the payload of a settled delivery is kept.
Record_Keeps(d, status) ==
    IF row[d].status \notin Open THEN row[d]
    ELSE [row[d] EXCEPT !.status = status, !.expired = FALSE]

\* Mutant: a status is written over any other.
Record_Blind(d, status) ==
    [row[d] EXCEPT !.status = status, !.expired = FALSE,
                   !.text = IF status = "failed" THEN @ ELSE NoText]

\* Settling a row erases its payload.
Record(d, status) ==
    IF row[d].status \notin Open THEN row[d]
    ELSE [row[d] EXCEPT !.status = status, !.expired = FALSE,
                        !.text = IF status = "failed" THEN @ ELSE NoText]

\* Mutant: a retry mails what this run rendered.
Payload_Fresh(w, d) == run[w].fresh

\* A claim mails the payload the row has kept since it was inserted.
Payload(w, d) == row[d].text

-----------------------------------------------------------------------------
(* A run: RunPeriod.                                                       *)

\* cancelIneligibleDeliveries, the elected run's first statement, goes over the
\* rows of every cadence.
Elect(w) ==
    /\ run[w].pc = "waiting"
    /\ run[w].due # <<>>
    /\ lock[Cadence(w)] = Free
    /\ lock' = [lock EXCEPT ![Cadence(w)] = w]
    /\ row' = [d \in Deliveries |->
                 IF row[d].status \in Open /\ ~Eligible(d, row[d].text)
                 THEN Record(d, "canceled") ELSE row[d]]
    /\ Move(w, "elected")
    /\ UNCHANGED <<faults, world, history>>

NextPeriod(w) == [run EXCEPT ![w] = Start(Tail(run[w].due))]

\* Another replica has the period: 0 sent and no error, so no retry either.
NotElected(w) ==
    /\ run[w].pc = "waiting"
    /\ run[w].due # <<>>
    /\ lock[Cadence(w)] # Free
    /\ run' = NextPeriod(w)
    /\ UNCHANGED <<lock, row, faults, world, history>>

Unlock(w) == IF lock[Cadence(w)] = w THEN [lock EXCEPT ![Cadence(w)] = Free] ELSE lock

\* Posts and recipients are read once for the whole run.
Prepare(w) ==
    /\ run[w].pc = "elected"
    /\ \E text \in Texts \ hidden :
         run' = [run EXCEPT ![w].pc = "loop", ![w].fresh = text, ![w].failed = FALSE,
                            ![w].todo = {r \in Recipients : pref[r] = Cadence(w)}]
    /\ UNCHANGED <<lock, row, faults, world, history>>

\* Nobody may see a post of the period: nothing to send, no error.
NoPosts(w) ==
    /\ run[w].pc = "elected"
    /\ Texts \subseteq hidden
    /\ run' = NextPeriod(w)
    /\ lock' = Unlock(w)
    /\ UNCHANGED <<row, faults, world, history>>

\* A retry follows a run with any error; its delays are far below the claims'.
Retry(w) ==
    IF run[w].tries + 1 < MaxTries
    THEN [run EXCEPT ![w] = [Start(@.due) EXCEPT !.tries = run[w].tries + 1]]
    ELSE NextPeriod(w)

EndRun(w) ==
    /\ run[w].pc = "loop"
    /\ run[w].todo = {}
    /\ lock' = Unlock(w)
    /\ run' = IF run[w].failed THEN Retry(w) ELSE NextPeriod(w)
    /\ UNCHANGED <<row, faults, world, history>>

-----------------------------------------------------------------------------
(* One recipient of a run.                                                 *)

\* On to the next recipient.
Continue(w, error) ==
    run' = [run EXCEPT ![w].pc = "loop", ![w].at = Free, ![w].text = NoText,
                       ![w].outcome = "ok", ![w].failed = @ \/ error]

\* ON CONFLICT DO NOTHING: an earlier row keeps its payload.
Insert(w, r) ==
    LET d == <<Cadence(w), r>> IN
    /\ run[w].pc = "loop"
    /\ r \in run[w].todo
    /\ row' = IF row[d].status = "none"
              THEN [row EXCEPT ![d].status = "pending", ![d].text = run[w].fresh]
              ELSE row
    /\ run' = [run EXCEPT ![w].pc = "claim", ![w].at = r, ![w].todo = @ \ {r}]
    /\ UNCHANGED <<lock, faults, world, history>>

Claim(w) ==
    LET d == Delivery(w) IN
    /\ run[w].pc = "claim"
    /\ IF Claimable(d)
       THEN /\ row' = [row EXCEPT ![d].status = "sending", ![d].expired = FALSE,
                                  ![d].attempts = @ + 1]
            /\ run' = [run EXCEPT ![w].pc = "check", ![w].text = Payload(w, d)]
       ELSE row' = row /\ Continue(w, FALSE)
    /\ UNCHANGED <<lock, faults, world, history>>

Recheck(w) ==
    /\ run[w].pc = "check"
    /\ Move(w, IF Eligible(Delivery(w), run[w].text) THEN "send" ELSE "cancel")
    /\ UNCHANGED <<lock, row, faults, world, history>>

CancelClaim(w) ==
    /\ run[w].pc = "cancel"
    /\ row' = [row EXCEPT ![Delivery(w)] = Record(Delivery(w), "canceled")]
    /\ Continue(w, FALSE)
    /\ UNCHANGED <<lock, faults, world, history>>

\* The provider accepts the mail, accepts it and the answer is lost, or refuses.
Send(w) ==
    LET d == Delivery(w) IN
    /\ run[w].pc = "send"
    /\ \E outcome \in Outcomes :
         /\ run' = [run EXCEPT ![w].pc = "mark", ![w].outcome = outcome]
         /\ accepted' = [accepted EXCEPT ![d] = IF outcome = "failed" THEN @ ELSE @ + 1]
         /\ doubt' = [doubt EXCEPT ![d] = IF outcome = "lost" THEN @ \cup {"lost"} ELSE @]
    /\ mailed' = [mailed EXCEPT ![d] = @ \cup {run[w].text}]
    /\ stray' = [stray EXCEPT ![d] = IF pref[d[2]] = d[1] THEN 0 ELSE @ + 1]
    /\ UNCHANGED <<lock, row, faults, world>>

\* markDeliverySent and markDeliveryFailed need the row to be "sending"; whose
\* claim that is they do not ask.  A success that finds no claim is an error.
Mark(w) ==
    LET d == Delivery(w)
        claimed == row[d].status = "sending"
        status == IF run[w].outcome = "ok" THEN "sent" ELSE "failed"
    IN
    /\ run[w].pc = "mark"
    /\ row' = IF claimed THEN [row EXCEPT ![d] = Record(d, status)] ELSE row
    /\ Continue(w, status = "failed" \/ ~claimed)
    /\ UNCHANGED <<lock, faults, world, history>>

-----------------------------------------------------------------------------
(* What goes wrong.                                                        *)

Holding(w) == run[w].pc \in {"check", "cancel", "send", "mark"}

\* An acceptance nobody is left to record.
Unrecorded(w) ==
    doubt' = IF run[w].pc = "mark" /\ run[w].outcome = "ok"
             THEN [doubt EXCEPT ![Delivery(w)] = @ \cup {"unrecorded"}] ELSE doubt

\* A statement of the loop fails: on to the next recipient, and an error.
StatementFails(w) ==
    /\ faults < MaxFaults
    /\ run[w].pc \in {"claim", "check", "cancel", "mark"}
    /\ faults' = faults + 1
    /\ Continue(w, TRUE)
    /\ Unrecorded(w)
    /\ UNCHANGED <<lock, row, world, mailed, accepted, stray>>

InsertFails(w, r) ==
    /\ faults < MaxFaults
    /\ run[w].pc = "loop"
    /\ r \in run[w].todo
    /\ faults' = faults + 1
    /\ run' = [run EXCEPT ![w].todo = @ \ {r}, ![w].failed = TRUE]
    /\ UNCHANGED <<lock, row, world, history>>

\* A statement before the loop fails, and the run with it.
RunFails(w) ==
    /\ faults < MaxFaults
    /\ run[w].pc = "elected"
    /\ faults' = faults + 1
    /\ run' = Retry(w)
    /\ lock' = Unlock(w)
    /\ UNCHANGED <<row, world, history>>

\* The connection that holds the lock drops; the run goes on without it.
LoseLock(w) ==
    /\ faults < MaxFaults
    /\ run[w].due # <<>>
    /\ lock[Cadence(w)] = w
    /\ lock' = Unlock(w)
    /\ faults' = faults + 1
    /\ UNCHANGED <<row, run, world, history>>

\* The scheduler of a restarted process waits for the next day's tick.
Crash(w) ==
    /\ faults < MaxFaults
    /\ run[w].due # <<>>
    /\ lock' = Unlock(w)
    /\ run' = [run EXCEPT ![w] = Start(<<>>)]
    /\ faults' = faults + 1
    /\ Unrecorded(w)
    /\ UNCHANGED <<row, world, mailed, accepted, stray>>

Busy(d) == \E w \in Runners : Holding(w) /\ Delivery(w) = d

Expire(d) ==
    /\ row[d].status = "sending"
    /\ ~row[d].expired
    /\ row' = [row EXCEPT ![d].expired = TRUE]

\* The five minutes of a claim pass after its holder has left it.
ClaimExpires(d) ==
    /\ Expire(d)
    /\ ~Busy(d)
    /\ UNCHANGED <<lock, run, faults, world, history>>

\* They pass under a holder that stalls or is still talking to the provider.
ClaimOverrun(d) ==
    /\ faults < MaxFaults
    /\ Expire(d)
    /\ Busy(d)
    /\ faults' = faults + 1
    /\ doubt' = [doubt EXCEPT ![d] = @ \cup {"late"}]
    /\ UNCHANGED <<lock, run, world, mailed, accepted, stray>>

ChangePreference(r, frequency) ==
    /\ changes < MaxChanges
    /\ frequency # pref[r]
    /\ pref' = [pref EXCEPT ![r] = frequency]
    /\ changes' = changes + 1
    /\ stray' = [d \in Deliveries |-> IF d = <<frequency, r>> THEN 0 ELSE stray[d]]
    /\ UNCHANGED <<hidden, lock, row, run, faults, mailed, accepted, doubt>>

\* A post is taken down or restored, and with it the texts that name it.
Moderate(texts) ==
    /\ changes < MaxChanges
    /\ hidden' \in {hidden \cup texts, hidden \ texts} \ {hidden}
    /\ changes' = changes + 1
    /\ UNCHANGED <<pref, lock, row, run, faults, history>>

Next ==
    \/ \E w \in Runners :
          \/ Elect(w) \/ NotElected(w) \/ Prepare(w) \/ NoPosts(w) \/ EndRun(w)
          \/ \E r \in Recipients : Insert(w, r) \/ InsertFails(w, r)
          \/ Claim(w) \/ Recheck(w) \/ CancelClaim(w) \/ Send(w) \/ Mark(w)
          \/ StatementFails(w) \/ RunFails(w) \/ LoseLock(w) \/ Crash(w)
    \/ \E d \in Deliveries : ClaimExpires(d) \/ ClaimOverrun(d)
    \/ \E r \in Recipients, frequency \in Frequencies : ChangePreference(r, frequency)
    \/ \E texts \in SUBSET Texts : Moderate(texts)

Spec == Init /\ [][Next]_vars

-----------------------------------------------------------------------------
(* What must hold.                                                         *)

\* A recipient gets at most one mail per period, unless the ledger could not
\* know of the first: the provider's answer was lost, the process or the
\* database failed between the acceptance and its record, or the claim ran out
\* under its holder.  Retries, both replicas and lost locks never cause it.
AtMostOneMail == \A d \in Deliveries : doubt[d] = {} => accepted[d] <= 1

\* Every attempt of a delivery carries the same text, whatever run makes it: the
\* provider's deduplication key is never reused with other content.
SamePayload == \A d \in Deliveries : Cardinality(mailed[d]) <= 1

\* A row recorded as sent, or canceled, stays so (completed recipients are
\* permanent no-ops), and a row recorded as sent was accepted.
LedgerIsFinal ==
    [][\A d \in Deliveries :
         /\ row[d].status \in {"sent", "canceled"} => row'[d] = row[d]
         /\ row'[d].status = "sent" => accepted[d] > 0]_vars

\* After an opt-out only mails already past their recheck go out: one, or one
\* for each replica when claims ran out.
OptOutHonoured ==
    \A d \in Deliveries :
        stray[d] <= IF "late" \in doubt[d] THEN Cardinality(Runners) ELSE 1

\* When all replicas are through with the tick, without faults or changes, every
\* recipient of a cadence was mailed, or refused in MaxTries attempts: no run is
\* skipped by the election that another does not make.
EveryoneServed ==
    (faults = 0 /\ changes = 0 /\ \A w \in Runners : run[w].due = <<>>) =>
        \A d \in Deliveries : pref[d[2]] = d[1] =>
            row[d].status = "sent" \/ row[d].attempts >= MaxTries
=============================================================================
