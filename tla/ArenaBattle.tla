----------------------------- MODULE ArenaBattle -----------------------------
(***************************************************************************)
(* Arena battles: internal/repository/arena.go, the handlers that admit a  *)
(* request before it (internal/api/handlers/arena.go) and the deadline     *)
(* sweep every replica runs (internal/jobs/arena_deadline.go).             *)
(*                                                                         *)
(* A handler reads the battle and the round in statements of their own and *)
(* then calls the repository, which locks the battle row: admission and    *)
(* execution are two steps, with every other step possible in between.     *)
(* The repository's transactions hold the battle lock to their commit, and *)
(* each is one step; a sweep over several battles is one step for each.    *)
(* A transaction that is rolled back changes nothing and is no step.       *)
(*                                                                         *)
(* Balances are whole points and only stakes move them here; the arguments *)
(* and the criteria scores are left out.                                   *)
(***************************************************************************)
EXTENDS Integers, FiniteSets, FiniteSetsExt

CONSTANTS
    Battles,
    Agents,
    Voters,
    Contender,    \* [Battles -> [Sides -> Agents]]: agent_a_id and agent_b_id
    TotalRounds,  \* total_rounds
    Stake,        \* [Battles -> Nat]: trust_stake
    Opening,      \* [Agents -> Nat]: reputation scores at the start
    Requests,     \* requests that are past their handler's checks at a time
    NoRequest,
    None          \* a NULL winner or an absent vote

Sides == {"A", "B"}
Rounds == 1 .. TotalRounds

ASSUME ContenderAssumption ==
    /\ Contender \in [Battles -> [Sides -> Agents]]
    /\ \A b \in Battles : Contender[b]["A"] # Contender[b]["B"]
ASSUME BattlesAssumption == IsFiniteSet(Battles)
ASSUME RoundsAssumption == TotalRounds \in Nat \ {0}
ASSUME StakeAssumption == Stake \in [Battles -> Nat] /\ Opening \in [Agents -> Nat]
ASSUME NoneAssumption == None \notin Sides

VARIABLES
    battle,       \* arena_battles: status, current_round, winner and stake
    round,        \* arena_rounds with the arena_votes of each
    balance,      \* participants.reputation_score of the agents
    passed,       \* how many of a battle's deadlines have passed
    request,      \* what each admitted request is about to do
    opened,       \* round_opened events enqueued for each round
    completions   \* battle_completed events enqueued

vars == <<battle, round, balance, passed, request, opened, completions>>

Submissions == [battle : Battles, round : Rounds, side : Sides]
Ballots == [battle : Battles, round : Rounds, side : Sides, voter : Voters]

ASSUME NoRequestAssumption == NoRequest \notin Submissions \cup Ballots

BattleRows == [status : {"absent", "pending", "active", "completed"},
               current : 0 .. TotalRounds, winner : Sides \cup {None},
               settled : BOOLEAN, amount : Nat]
RoundRows == [submitted : SUBSET Sides, votes : [Voters -> Sides \cup {None}],
              winner : Sides \cup {None}, closed : BOOLEAN]

TypeOK ==
    /\ battle \in [Battles -> BattleRows]
    /\ round \in [Battles -> [Rounds -> RoundRows]]
    /\ balance \in [Agents -> Nat]
    /\ passed \in [Battles -> 0 .. TotalRounds]
    /\ request \in [Requests -> Submissions \cup Ballots \cup {NoRequest}]
    /\ opened \in [Battles -> [Rounds -> Nat]]
    /\ completions \in [Battles -> Nat]

NoBattle == [status |-> "absent", current |-> 0, winner |-> None,
             settled |-> FALSE, amount |-> 0]
FreshRound == [submitted |-> {}, votes |-> [v \in Voters |-> None],
               winner |-> None, closed |-> FALSE]

Init ==
    /\ battle = [b \in Battles |-> NoBattle]
    /\ round = [b \in Battles |-> [n \in Rounds |-> FreshRound]]
    /\ balance = Opening
    /\ passed = [b \in Battles |-> 0]
    /\ request = [r \in Requests |-> NoRequest]
    /\ opened = [b \in Battles |-> [n \in Rounds |-> 0]]
    /\ completions = [b \in Battles |-> 0]

-----------------------------------------------------------------------------
(* Creation and the clock.                                                 *)

\* The battle, its rounds and the first two events in one transaction.
CreateBattle(b) ==
    /\ battle[b].status = "absent"
    /\ battle' = [battle EXCEPT ![b].status = "pending"]
    /\ opened' = [opened EXCEPT ![b][1] = 1]
    /\ UNCHANGED <<round, balance, passed, request, completions>>

\* Round n is due n time limits after creation.
DeadlinePasses(b) ==
    /\ battle[b].status # "absent"
    /\ passed[b] < TotalRounds
    /\ passed' = [passed EXCEPT ![b] = @ + 1]
    /\ UNCHANGED <<battle, round, balance, request, opened, completions>>

-----------------------------------------------------------------------------
(* Winners and stakes.                                                     *)

Ahead(a, b) == IF a > b THEN "A" ELSE IF b > a THEN "B" ELSE None

Tally(votes, side) == Cardinality({v \in Voters : votes[v] = side})
Leader(votes) == Ahead(Tally(votes, "A"), Tally(votes, "B"))

Wins(rs, side) == Cardinality({n \in Rounds : rs[n].winner = side})
Verdict(rs) == Ahead(Wins(rs, "A"), Wins(rs, "B"))

Rival(side) == IF side = "A" THEN "B" ELSE "A"

\* Mutant: the whole stake, whatever the loser can pay.
Transfer_Uncapped(b, verdict) == IF verdict = None THEN 0 ELSE Stake[b]

\* settled_stake: nothing on a draw, else no more than the loser has.
Transfer(b, verdict) ==
    IF verdict = None THEN 0
    ELSE LET owned == balance[Contender[b][Rival(verdict)]]
         IN  IF Stake[b] < owned THEN Stake[b] ELSE IF owned > 0 THEN owned ELSE 0

\* Mutant: the winner is credited with the stake on offer, not what was paid.
Paid_FullCredit(b, verdict) ==
    IF verdict = None THEN balance
    ELSE [balance EXCEPT
            ![Contender[b][verdict]] = @ + Stake[b],
            ![Contender[b][Rival(verdict)]] = @ - Transfer(b, verdict)]

Paid(b, verdict) ==
    IF verdict = None THEN balance
    ELSE [balance EXCEPT
            ![Contender[b][verdict]] = @ + Transfer(b, verdict),
            ![Contender[b][Rival(verdict)]] = @ - Transfer(b, verdict)]

\* The battle is completed, its stake settled unless it already was, and
\* battle_completed enqueued, in the transaction that decided it.
Complete(b, verdict) ==
    /\ battle' = [battle EXCEPT ![b].status = "completed", ![b].winner = verdict,
                    ![b].settled = TRUE,
                    ![b].amount = IF battle[b].settled THEN @ ELSE Transfer(b, verdict)]
    /\ balance' = IF battle[b].settled THEN balance ELSE Paid(b, verdict)
    /\ completions' = [completions EXCEPT ![b] = @ + 1]

-----------------------------------------------------------------------------
(* Arguments.                                                              *)

\* The handler looks for the agent's own argument, not for the status, the
\* current round or the round's closure.
AdmitSubmission(r, s) ==
    /\ request[r] = NoRequest
    /\ battle[s.battle].status # "absent"
    /\ s.side \notin round[s.battle][s.round].submitted
    /\ request' = [request EXCEPT ![r] = s]
    /\ UNCHANGED <<battle, round, balance, passed, opened, completions>>

\* Mutant: only a battle that was never opened refuses arguments.
Accepting_Any(b) == battle[b].status # "absent"

Accepting(b) == battle[b].status \in {"pending", "active"}

\* With the second argument the next round opens, whichever round is current
\* and however often it has been opened before.
SubmitArgument(r) ==
    LET s == request[r]
        b == s.battle
        n == s.round
        opens == n < TotalRounds /\ Rival(s.side) \in round[b][n].submitted
        current == IF opens THEN n + 1
                   ELSE IF battle[b].status = "pending" THEN 1 ELSE battle[b].current
    IN  /\ s \in Submissions
        /\ Accepting(b)
        /\ round' = [round EXCEPT ![b][n].submitted = @ \cup {s.side}]
        /\ battle' = [battle EXCEPT ![b].status = IF @ = "pending" THEN "active" ELSE @,
                                    ![b].current = current]
        /\ opened' = IF opens THEN [opened EXCEPT ![b][n + 1] = @ + 1] ELSE opened
        /\ request' = [request EXCEPT ![r] = NoRequest]
        /\ UNCHANGED <<balance, passed, completions>>

SubmissionRefused(r) ==
    /\ request[r] \in Submissions
    /\ ~Accepting(request[r].battle)
    /\ request' = [request EXCEPT ![r] = NoRequest]
    /\ UNCHANGED <<battle, round, balance, passed, opened, completions>>

-----------------------------------------------------------------------------
(* Votes.                                                                  *)

AdmitVote(r, v) ==
    /\ request[r] = NoRequest
    /\ battle[v.battle].status = "active"
    /\ round[v.battle][v.round].submitted = Sides
    /\ round[v.battle][v.round].votes[v.voter] = None
    /\ request' = [request EXCEPT ![r] = v]
    /\ UNCHANGED <<battle, round, balance, passed, opened, completions>>

\* Mutant: the status is not read again under the battle lock.
Countable_Unchecked(v) == round[v.battle][v.round].votes[v.voter] = None

\* The status under the lock, and the vote's unique key.
Countable(v) ==
    /\ battle[v.battle].status = "active"
    /\ round[v.battle][v.round].votes[v.voter] = None

\* A tie leaves the round's winner as it was, a closed round is voted on like
\* an open one, and the last missing round winner completes the battle.
CastVote(r) ==
    LET v == request[r]
        b == v.battle
        votes == [round[b][v.round].votes EXCEPT ![v.voter] = v.side]
        winner == IF Leader(votes) = None THEN round[b][v.round].winner ELSE Leader(votes)
        rounds == [round[b] EXCEPT ![v.round].votes = votes, ![v.round].winner = winner]
    IN  /\ v \in Ballots
        /\ Countable(v)
        /\ round' = [round EXCEPT ![b] = rounds]
        /\ IF \A n \in Rounds : rounds[n].submitted = Sides /\ rounds[n].winner # None
           THEN Complete(b, Verdict(rounds))
           ELSE UNCHANGED <<battle, balance, completions>>
        /\ request' = [request EXCEPT ![r] = NoRequest]
        /\ UNCHANGED <<passed, opened>>

VoteRefused(r) ==
    /\ request[r] \in Ballots
    /\ ~Countable(request[r])
    /\ request' = [request EXCEPT ![r] = NoRequest]
    /\ UNCHANGED <<battle, round, balance, passed, opened, completions>>

-----------------------------------------------------------------------------
(* ProcessExpiredRounds.                                                   *)

Sweepable(b) == battle[b].status \in {"pending", "active"}

\* Mutant: the sweep looks at the current round, not at the earliest open one.
Expired_Current(b, n) ==
    /\ n <= passed[b]
    /\ ~round[b][n].closed
    /\ n = battle[b].current \/ (n = 1 /\ battle[b].status = "pending")

\* The earliest round of the battle still open, once its deadline has passed.
Expired(b, n) ==
    /\ n <= passed[b]
    /\ ~round[b][n].closed
    /\ \A m \in Rounds : m < n => round[b][m].closed

\* Mutant: the sweep moves the battle on and tells nobody.
Announce_Silent(b, n) == opened

Announce(b, n) == [opened EXCEPT ![b][n] = @ + 1]

CloseRound(b, n) ==
    LET rounds == [round[b] EXCEPT ![n].closed = TRUE, ![n].winner = Leader(round[b][n].votes)]
        last == \A m \in Rounds : rounds[m].closed
        opens == ~last /\ n < TotalRounds /\ battle[b].current < n + 1
    IN  /\ Sweepable(b)
        /\ Expired(b, n)
        /\ round' = [round EXCEPT ![b] = rounds]
        /\ \/ last /\ Complete(b, Verdict(rounds)) /\ UNCHANGED opened
           \/ /\ opens
              /\ battle' = [battle EXCEPT ![b].status = "active", ![b].current = n + 1]
              /\ opened' = Announce(b, n + 1)
              /\ UNCHANGED <<balance, completions>>
           \/ /\ ~last
              /\ ~opens
              /\ UNCHANGED <<battle, balance, completions, opened>>
        /\ UNCHANGED <<passed, request>>

-----------------------------------------------------------------------------
Next ==
    \/ \E b \in Battles : CreateBattle(b) \/ DeadlinePasses(b)
    \/ \E r \in Requests, s \in Submissions : AdmitSubmission(r, s)
    \/ \E r \in Requests, v \in Ballots : AdmitVote(r, v)
    \/ \E r \in Requests : SubmitArgument(r) \/ SubmissionRefused(r)
                           \/ CastVote(r) \/ VoteRefused(r)
    \/ \E b \in Battles, n \in Rounds : CloseRound(b, n)

Spec == Init /\ [][Next]_vars

\* Time passes, and the ticker of the sweep runs for as long as a replica does.
\* Nothing obliges an agent to argue or a human to vote.
Fairness ==
    \A b \in Battles : /\ WF_vars(DeadlinePasses(b))
                       /\ WF_vars(\E n \in Rounds : CloseRound(b, n))

FairSpec == Spec /\ Fairness

-----------------------------------------------------------------------------
(* What must hold.                                                         *)

\* The verdict of a completed battle is the majority of its round winners, its
\* stake is settled, and one battle_completed says so, whatever requests and
\* sweeps raced for the last round.  (CastVote and ProcessExpiredRounds both
\* complete a battle; the status under the battle lock keeps them apart.)
DecidedOnce ==
    \A b \in Battles :
        IF battle[b].status = "completed"
        THEN /\ battle[b].winner = Verdict(round[b])
             /\ battle[b].settled
             /\ completions[b] = 1
        ELSE /\ battle[b].winner = None
             /\ ~battle[b].settled
             /\ completions[b] = 0

\* Stakes are zero-sum and settled exactly once: a balance is what the agent
\* started with, plus what completed battles moved to it, less what they took.
\* (settleArenaStakeTx: "exactly one zero-sum reputation transfer".)
WonBy(a) == {b \in Battles : battle[b].winner # None /\ Contender[b][battle[b].winner] = a}
LostBy(a) == {b \in Battles : battle[b].winner # None /\ Contender[b][Rival(battle[b].winner)] = a}
Amount(b) == battle[b].amount

BalancesExplained ==
    \A a \in Agents :
        balance[a] = Opening[a] + MapThenSumSet(Amount, WonBy(a)) - MapThenSumSet(Amount, LostBy(a))

\* The first round, and the current round of a battle under way, have been
\* announced to both agents: nobody waits for an event that was never enqueued.
\* (SubmitArgument and the sweep both move current_round, each with its event.)
CurrentWasAnnounced ==
    \A b \in Battles : battle[b].status # "absent" =>
        /\ opened[b][1] >= 1
        /\ battle[b].current > 0 => opened[b][battle[b].current] >= 1

\* Nothing revises a completed battle: not its rounds, votes, verdict or stake,
\* even by requests admitted before it was completed.
CompletedIsFrozen ==
    [][\A b \in Battles : battle[b].status = "completed" =>
         /\ battle'[b] = battle[b]
         /\ round'[b] = round[b]
         /\ opened'[b] = opened[b]]_vars

\* The arena implements the ledger of StakeLedger: one settlement for a battle,
\* in the step that decides it, capped by what the loser has at that moment.
Outcome(b) ==
    IF battle[b].status # "completed" THEN "open"
    ELSE IF battle[b].winner = None THEN "draw" ELSE battle[b].winner

Ledger == INSTANCE StakeLedger WITH outcome <- [b \in Battles |-> Outcome(b)]

LedgerKept == Ledger!Spec

\* "ArenaDeadlineWorker advances battles even when participants or voters
\* leave": with the sweep alone every battle completes.
BattleCompletes ==
    \A b \in Battles : (battle[b].status # "absent") ~> (battle[b].status = "completed")

\* arena.go, CastVote: "If tied, leave as nil (draw)".
TiedRoundIsDraw ==
    \A b \in Battles, n \in Rounds :
        Leader(round[b][n].votes) = None => round[b][n].winner = None

\* Does not hold: a second or late argument opens a round again.
\* docs/AGENT_WEBHOOKS.md: round_opened is "sent for round 1 immediately after
\* challenge creation, then once when both agents have submitted the preceding
\* non-final round".
RoundOpenedOnce == \A b \in Battles, n \in Rounds : opened[b][n] <= 1
=============================================================================
