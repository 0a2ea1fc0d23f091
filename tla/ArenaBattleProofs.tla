-------------------------- MODULE ArenaBattleProofs --------------------------
(***************************************************************************)
(* Theorems about ArenaBattle for every set of battles, agents, voters and *)
(* requests, every number of rounds and every stake.                       *)
(***************************************************************************)
EXTENDS ArenaBattle, FiniteSetTheorems, NaturalsInduction, WellFoundedInduction, TLAPS

Result == Sides \cup {None}

-----------------------------------------------------------------------------
(* Type correctness; in particular no settlement takes a balance below 0.  *)

LEMMA ResultsAreResults ==
    /\ \A a, b \in Int : Ahead(a, b) \in Result
    /\ \A rs : Verdict(rs) \in Result
    /\ \A votes : Leader(votes) \in Result
  BY DEF Ahead, Verdict, Leader, Result, Sides

LEMMA ContendersAreAgents ==
    ASSUME NEW b \in Battles, NEW side \in Sides
    PROVE  /\ Rival(side) \in Sides
           /\ Contender[b][side] \in Agents
           /\ Contender[b][Rival(side)] \in Agents
           /\ Contender[b][side] # Contender[b][Rival(side)]
  BY ContenderAssumption DEF Rival, Sides

\* What is transferred is a number the loser has and the stake allows.
LEMMA TransferBounded ==
    ASSUME TypeOK, NEW b \in Battles, NEW side \in Sides
    PROVE  /\ Transfer(b, side) \in Nat
           /\ Transfer(b, side) <= Stake[b]
           /\ Transfer(b, side) <= balance[Contender[b][Rival(side)]]
           /\ Transfer(b, side) \in {Stake[b], balance[Contender[b][Rival(side)]]}
<1>1. side # None
  BY NoneAssumption
<1>2. balance[Contender[b][Rival(side)]] \in Nat
  BY ContendersAreAgents DEF TypeOK
<1>3. Stake[b] \in Nat
  BY StakeAssumption
<1> QED BY <1>1, <1>2, <1>3 DEF Transfer

LEMMA CompleteTypes ==
    ASSUME TypeOK, NEW b \in Battles, NEW verdict \in Result, Complete(b, verdict)
    PROVE  /\ battle' \in [Battles -> BattleRows]
           /\ balance' \in [Agents -> Nat]
           /\ completions' \in [Battles -> Nat]
<1>1. Transfer(b, verdict) \in Nat
  BY TransferBounded DEF Result, Transfer
<1>2. Paid(b, verdict) \in [Agents -> Nat]
  <2>1. CASE verdict = None
    BY <2>1 DEF Paid, TypeOK
  <2>2. CASE verdict \in Sides
    <3> DEFINE winner == Contender[b][verdict]
               loser == Contender[b][Rival(verdict)]
               t == Transfer(b, verdict)
    <3>1. winner \in Agents /\ loser \in Agents /\ winner # loser
      BY <2>2, ContendersAreAgents
    <3>2. t \in Nat /\ t <= balance[loser]
      BY <2>2, TransferBounded
    <3>3. Paid(b, verdict) = [balance EXCEPT ![winner] = @ + t, ![loser] = @ - t]
      BY <2>2, NoneAssumption DEF Paid
    <3> HIDE DEF winner, loser, t
    <3> QED BY <3>1, <3>2, <3>3 DEF TypeOK
  <2> QED BY <2>1, <2>2 DEF Result
<1>3. battle[b] \in BattleRows
  BY DEF TypeOK
<1>4. battle' \in [Battles -> BattleRows]
  <2>1. PICK amount \in Nat :
          battle' = [battle EXCEPT ![b] =
                       [battle[b] EXCEPT !.status = "completed", !.winner = verdict,
                                         !.settled = TRUE, !.amount = amount]]
    BY <1>1, <1>3 DEF Complete, BattleRows
  <2>2. [battle[b] EXCEPT !.status = "completed", !.winner = verdict,
                          !.settled = TRUE, !.amount = amount] \in BattleRows
    BY <1>3 DEF BattleRows, Result
  <2> QED BY <2>1, <2>2 DEF TypeOK
<1>5. balance' \in [Agents -> Nat]
  BY <1>2 DEF Complete, TypeOK
<1>6. completions' \in [Battles -> Nat]
  BY DEF Complete, TypeOK
<1> QED BY <1>4, <1>5, <1>6

\* What the two transactions write to the rounds of a battle.
LEMMA RoundsWritten ==
    ASSUME TypeOK, NEW b \in Battles, NEW n \in Rounds
    PROVE  /\ \A side \in Sides :
                [round EXCEPT ![b][n].submitted = @ \cup {side}]
                  \in [Battles -> [Rounds -> RoundRows]]
           /\ \A voter \in Voters, side \in Sides, winner \in Result :
                [round[b] EXCEPT ![n].votes = [round[b][n].votes EXCEPT ![voter] = side],
                                 ![n].winner = winner]
                  \in [Rounds -> RoundRows]
           /\ \A winner \in Result :
                [round[b] EXCEPT ![n].closed = TRUE, ![n].winner = winner]
                  \in [Rounds -> RoundRows]
           /\ \A rs \in [Rounds -> RoundRows] :
                [round EXCEPT ![b] = rs] \in [Battles -> [Rounds -> RoundRows]]
<1>1. round \in [Battles -> [Rounds -> RoundRows]] /\ round[b] \in [Rounds -> RoundRows]
      /\ round[b][n] \in RoundRows
  BY DEF TypeOK
<1>2. ASSUME NEW side \in Sides
      PROVE  [round EXCEPT ![b][n].submitted = @ \cup {side}] \in [Battles -> [Rounds -> RoundRows]]
  <2>1. [round[b][n] EXCEPT !.submitted = @ \cup {side}] \in RoundRows
    BY <1>1 DEF RoundRows
  <2> QED BY <1>1, <2>1
<1>3. ASSUME NEW voter \in Voters, NEW side \in Sides, NEW winner \in Result
      PROVE  [round[b] EXCEPT ![n].votes = [round[b][n].votes EXCEPT ![voter] = side],
                              ![n].winner = winner] \in [Rounds -> RoundRows]
  <2>1. [round[b][n] EXCEPT !.votes = [round[b][n].votes EXCEPT ![voter] = side],
                            !.winner = winner] \in RoundRows
    BY <1>1 DEF RoundRows, Result
  <2> QED BY <1>1, <2>1
<1>4. ASSUME NEW winner \in Result
      PROVE  [round[b] EXCEPT ![n].closed = TRUE, ![n].winner = winner] \in [Rounds -> RoundRows]
  <2>1. [round[b][n] EXCEPT !.closed = TRUE, !.winner = winner] \in RoundRows
    BY <1>1 DEF RoundRows, Result
  <2> QED BY <1>1, <2>1
<1>5. \A rs \in [Rounds -> RoundRows] : [round EXCEPT ![b] = rs] \in [Battles -> [Rounds -> RoundRows]]
  BY <1>1
<1> QED BY <1>2, <1>3, <1>4, <1>5

LEMMA TypeInitially == Init => TypeOK
<1> SUFFICES ASSUME Init PROVE TypeOK
  OBVIOUS
<1>1. FreshRound \in RoundRows
  BY DEF FreshRound, RoundRows
<1>2. NoBattle \in BattleRows
  BY RoundsAssumption DEF NoBattle, BattleRows
<1> QED BY <1>1, <1>2, StakeAssumption, RoundsAssumption DEF Init, TypeOK

LEMMA TypeInvariance == TypeOK /\ [Next]_vars => TypeOK'
<1> SUFFICES ASSUME TypeOK, [Next]_vars PROVE TypeOK'
  OBVIOUS
<1>0. NoRequest \in Submissions \cup Ballots \cup {NoRequest}
  OBVIOUS
<1>1. ASSUME NEW b \in Battles, CreateBattle(b) PROVE TypeOK'
  <2>1. 1 \in Rounds
    BY RoundsAssumption DEF Rounds
  <2>2. battle' \in [Battles -> BattleRows]
    BY <1>1 DEF TypeOK, CreateBattle, BattleRows
  <2>3. opened' \in [Battles -> [Rounds -> Nat]]
    BY <1>1, <2>1 DEF TypeOK, CreateBattle
  <2> QED BY <1>1, <2>2, <2>3 DEF TypeOK, CreateBattle
<1>2. ASSUME NEW b \in Battles, DeadlinePasses(b) PROVE TypeOK'
  BY <1>2, RoundsAssumption DEF TypeOK, DeadlinePasses
<1>3. ASSUME NEW r \in Requests, NEW s \in Submissions, AdmitSubmission(r, s) PROVE TypeOK'
  BY <1>3 DEF TypeOK, AdmitSubmission
<1>4. ASSUME NEW r \in Requests, NEW v \in Ballots, AdmitVote(r, v) PROVE TypeOK'
  BY <1>4 DEF TypeOK, AdmitVote
<1>5. ASSUME NEW r \in Requests, SubmitArgument(r) PROVE TypeOK'
  <2> DEFINE s == request[r]
             b == s.battle
             n == s.round
  <2>1. b \in Battles /\ n \in Rounds /\ s.side \in Sides
    BY <1>5 DEF SubmitArgument, Submissions
  <2>2. round' \in [Battles -> [Rounds -> RoundRows]]
    BY <1>5, <2>1, RoundsWritten DEF SubmitArgument
  <2>3. n < TotalRounds => n + 1 \in Rounds
    BY <2>1, RoundsAssumption DEF Rounds
  <2>4. battle' \in [Battles -> BattleRows]
    <3>1. battle[b] \in BattleRows
      BY <2>1 DEF TypeOK
    <3> DEFINE opens == n < TotalRounds /\ Rival(s.side) \in round[b][n].submitted
               status == IF battle[b].status = "pending" THEN "active" ELSE battle[b].status
               current == IF opens THEN n + 1
                          ELSE IF battle[b].status = "pending" THEN 1 ELSE battle[b].current
    <3>2. battle' = [battle EXCEPT ![b].status = status, ![b].current = current]
      BY <1>5, <2>1 DEF SubmitArgument, TypeOK
    <3>5. status \in {battle[b].status, "active"}
      OBVIOUS
    <3>6. current \in 0 .. TotalRounds
      BY <2>1, <2>3, <3>1, RoundsAssumption DEF BattleRows, Rounds
    <3> HIDE DEF status, current
    <3>3. [battle[b] EXCEPT !.status = status, !.current = current] \in BattleRows
      BY <3>1, <3>5, <3>6 DEF BattleRows
    <3>4. battle' = [battle EXCEPT ![b] = [battle[b] EXCEPT !.status = status, !.current = current]]
      BY <3>2, <2>1 DEF TypeOK
    <3> QED BY <3>3, <3>4 DEF TypeOK
  <2>5. opened' \in [Battles -> [Rounds -> Nat]]
    BY <1>5, <2>1, <2>3 DEF SubmitArgument, TypeOK
  <2>6. /\ request' = [request EXCEPT ![r] = NoRequest]
        /\ UNCHANGED <<balance, passed, completions>>
    BY <1>5 DEF SubmitArgument
  <2> QED BY <1>0, <2>2, <2>4, <2>5, <2>6 DEF TypeOK
<1>6. ASSUME NEW r \in Requests, SubmissionRefused(r) PROVE TypeOK'
  BY <1>6 DEF TypeOK, SubmissionRefused
<1>7. ASSUME NEW r \in Requests, CastVote(r) PROVE TypeOK'
  <2> DEFINE v == request[r]
             b == v.battle
             n == v.round
             votes == [round[b][n].votes EXCEPT ![v.voter] = v.side]
             winner == IF Leader(votes) = None THEN round[b][n].winner ELSE Leader(votes)
             rounds == [round[b] EXCEPT ![n].votes = votes, ![n].winner = winner]
  <2>1. b \in Battles /\ n \in Rounds /\ v.side \in Sides /\ v.voter \in Voters
    BY <1>7 DEF CastVote, Ballots
  <2>2. winner \in Result
    <3>1. round[b][n].winner \in Result
      BY <2>1 DEF TypeOK, RoundRows, Result
    <3> QED BY <3>1, ResultsAreResults
  <2>3. rounds \in [Rounds -> RoundRows]
    <3> HIDE DEF winner
    <3> QED BY <2>1, <2>2, RoundsWritten
  <2>4. /\ round' = [round EXCEPT ![b] = rounds]
        /\ Complete(b, Verdict(rounds)) \/ UNCHANGED <<battle, balance, completions>>
        /\ request' = [request EXCEPT ![r] = NoRequest]
        /\ UNCHANGED <<passed, opened>>
    BY <1>7 DEF CastVote
  <2> HIDE DEF rounds, b
  <2>5. round' \in [Battles -> [Rounds -> RoundRows]]
    BY <2>1, <2>3, <2>4, RoundsWritten
  <2>6. /\ battle' \in [Battles -> BattleRows]
        /\ balance' \in [Agents -> Nat]
        /\ completions' \in [Battles -> Nat]
    BY <2>1, <2>4, CompleteTypes, ResultsAreResults DEF TypeOK
  <2> QED BY <1>0, <2>4, <2>5, <2>6 DEF TypeOK
<1>8. ASSUME NEW r \in Requests, VoteRefused(r) PROVE TypeOK'
  BY <1>8 DEF TypeOK, VoteRefused
<1>9. ASSUME NEW b \in Battles, NEW n \in Rounds, CloseRound(b, n) PROVE TypeOK'
  <2> DEFINE rounds == [round[b] EXCEPT ![n].closed = TRUE, ![n].winner = Leader(round[b][n].votes)]
  <2>1. rounds \in [Rounds -> RoundRows]
    BY ResultsAreResults, RoundsWritten
  <2>2. /\ round' = [round EXCEPT ![b] = rounds]
        /\ UNCHANGED <<passed, request>>
        /\ \/ Complete(b, Verdict(rounds)) /\ UNCHANGED opened
           \/ /\ n < TotalRounds
              /\ battle' = [battle EXCEPT ![b].status = "active", ![b].current = n + 1]
              /\ opened' = Announce(b, n + 1)
              /\ UNCHANGED <<balance, completions>>
           \/ UNCHANGED <<battle, balance, completions, opened>>
    BY <1>9 DEF CloseRound
  <2> HIDE DEF rounds
  <2>3. round' \in [Battles -> [Rounds -> RoundRows]]
    BY <2>1, <2>2, RoundsWritten
  <2>4. CASE Complete(b, Verdict(rounds)) /\ UNCHANGED opened
    <3>1. /\ battle' \in [Battles -> BattleRows]
          /\ balance' \in [Agents -> Nat]
          /\ completions' \in [Battles -> Nat]
      BY <2>4, CompleteTypes, ResultsAreResults
    <3> QED BY <2>2, <2>3, <2>4, <3>1 DEF TypeOK
  <2>5. CASE /\ n < TotalRounds
             /\ battle' = [battle EXCEPT ![b].status = "active", ![b].current = n + 1]
             /\ opened' = Announce(b, n + 1)
             /\ UNCHANGED <<balance, completions>>
    <3>1. n + 1 \in Rounds /\ n + 1 \in 0 .. TotalRounds
      BY <2>5, RoundsAssumption DEF Rounds
    <3>2. battle' \in [Battles -> BattleRows]
      <4> DEFINE row == [battle[b] EXCEPT !.status = "active", !.current = n + 1]
      <4>1. battle \in [Battles -> BattleRows] /\ battle[b] \in BattleRows
        BY DEF TypeOK
      <4>2. row \in BattleRows
        BY <3>1, <4>1 DEF BattleRows
      <4>3. battle' = [battle EXCEPT ![b] = row]
        BY <2>5, <4>1
      <4> HIDE DEF row
      <4> QED BY <4>1, <4>2, <4>3
    <3>3. opened' \in [Battles -> [Rounds -> Nat]]
      BY <2>5, <3>1 DEF TypeOK, Announce
    <3> QED BY <2>2, <2>3, <2>5, <3>2, <3>3 DEF TypeOK
  <2>6. CASE UNCHANGED <<battle, balance, completions, opened>>
    BY <2>2, <2>3, <2>6 DEF TypeOK
  <2> QED BY <2>2, <2>4, <2>5, <2>6
<1>10. CASE UNCHANGED vars
  BY <1>10 DEF TypeOK, vars
<1> QED BY <1>1, <1>2, <1>3, <1>4, <1>5, <1>6, <1>7, <1>8, <1>9, <1>10 DEF Next

\* Every row keeps its type for ever, and no balance is ever negative: a
\* settlement takes no more than the loser has, whichever battles of the same
\* two agents are settled before it.
THEOREM TypeCorrect == Spec => []TypeOK
  BY TypeInitially, TypeInvariance, PTL DEF Spec

-----------------------------------------------------------------------------
(* Completed battles.                                                      *)

\* Battle b, its rounds and its announcements are left as they are.
Untouched(b) ==
    /\ battle'[b] = battle[b]
    /\ round'[b] = round[b]
    /\ opened'[b] = opened[b]

\* One battle only is written by a step, and it was not completed before.
LEMMA OneBattleWritten ==
    ASSUME TypeOK, [Next]_vars, NEW c \in Battles
    PROVE  \/ Untouched(c)
           \/ battle[c].status # "completed"
<1>1. ASSUME NEW b \in Battles, CreateBattle(b) PROVE Untouched(c) \/ battle[c].status # "completed"
  BY <1>1 DEF CreateBattle, Untouched, TypeOK
<1>2. ASSUME NEW r \in Requests, SubmitArgument(r)
      PROVE  Untouched(c) \/ battle[c].status # "completed"
  <2>1. request[r].battle \in Battles
    BY <1>2 DEF SubmitArgument, Submissions
  <2> QED BY <1>2, <2>1 DEF SubmitArgument, Accepting, Untouched, TypeOK
<1>3. ASSUME NEW r \in Requests, CastVote(r)
      PROVE  Untouched(c) \/ battle[c].status # "completed"
  <2>1. request[r].battle \in Battles
    BY <1>3 DEF CastVote, Ballots
  <2>2. battle[request[r].battle].status = "active"
    BY <1>3 DEF CastVote, Countable
  <2>3. ASSUME c # request[r].battle
        PROVE  battle'[c] = battle[c] /\ round'[c] = round[c]
    BY <1>3, <2>1, <2>3 DEF CastVote, Complete, TypeOK
  <2>4. opened' = opened
    BY <1>3 DEF CastVote
  <2> QED BY <2>1, <2>2, <2>3, <2>4 DEF Untouched
<1>4. ASSUME NEW b \in Battles, NEW n \in Rounds, CloseRound(b, n)
      PROVE  Untouched(c) \/ battle[c].status # "completed"
  <2>1. battle[b].status # "completed"
    BY <1>4 DEF CloseRound, Sweepable
  <2>2. ASSUME c # b
        PROVE  battle'[c] = battle[c] /\ round'[c] = round[c] /\ opened'[c] = opened[c]
    BY <1>4, <2>2 DEF CloseRound, Complete, Announce, TypeOK
  <2> QED BY <2>1, <2>2 DEF Untouched
<1>5. CASE UNCHANGED <<battle, round, opened>>
  BY <1>5 DEF Untouched
<1> QED
  BY <1>1, <1>2, <1>3, <1>4, <1>5
     DEF Next, DeadlinePasses, AdmitSubmission, SubmissionRefused, AdmitVote, VoteRefused, vars

\* Requests admitted before a battle was completed, and the sweeps of every
\* replica, leave it as its completion wrote it.
THEOREM Frozen == Spec => CompletedIsFrozen
<1>1. TypeOK /\ [Next]_vars =>
        [\A b \in Battles : battle[b].status = "completed" =>
           /\ battle'[b] = battle[b]
           /\ round'[b] = round[b]
           /\ opened'[b] = opened[b]]_vars
  BY OneBattleWritten DEF Untouched
<1> QED BY <1>1, TypeCorrect, PTL DEF Spec, CompletedIsFrozen

\* A step completes a battle with the verdict of the rounds it writes, or
\* leaves every battle as decided, or as open, as it was.
Decides(b) ==
    /\ battle[b].status \in {"pending", "active"}
    /\ Complete(b, Verdict(round'[b]))
    /\ \A c \in Battles : c # b => round'[c] = round[c]

Undecided ==
    /\ UNCHANGED <<balance, completions>>
    /\ \A c \in Battles :
         /\ battle'[c].status = "completed" <=> battle[c].status = "completed"
         /\ battle'[c].winner = battle[c].winner
         /\ battle'[c].settled = battle[c].settled
         /\ battle[c].status = "completed" => round'[c] = round[c]

LEMMA StepDecidesOrNot ==
    ASSUME TypeOK, [Next]_vars
    PROVE  Undecided \/ \E b \in Battles : Decides(b)
<1>1. ASSUME NEW b \in Battles, CreateBattle(b) PROVE Undecided
  BY <1>1 DEF CreateBattle, Undecided, TypeOK, BattleRows
<1>2. ASSUME NEW r \in Requests, SubmitArgument(r) PROVE Undecided
  <2>1. request[r].battle \in Battles
    BY <1>2 DEF SubmitArgument, Submissions
  <2>2. /\ UNCHANGED <<balance, completions>>
        /\ battle[request[r].battle].status \in {"pending", "active"}
    BY <1>2 DEF SubmitArgument, Accepting
  <2>3. \A c \in Battles : c # request[r].battle => battle'[c] = battle[c] /\ round'[c] = round[c]
    BY <1>2, <2>1 DEF SubmitArgument, TypeOK
  <2>4. /\ battle'[request[r].battle].status # "completed"
        /\ battle'[request[r].battle].winner = battle[request[r].battle].winner
        /\ battle'[request[r].battle].settled = battle[request[r].battle].settled
    BY <1>2, <2>1, <2>2 DEF SubmitArgument, TypeOK, BattleRows
  <2> QED BY <2>2, <2>3, <2>4 DEF Undecided
<1>3. ASSUME NEW r \in Requests, CastVote(r) PROVE Undecided \/ \E b \in Battles : Decides(b)
  <2> DEFINE v == request[r]
             b == v.battle
             n == v.round
             votes == [round[b][n].votes EXCEPT ![v.voter] = v.side]
             winner == IF Leader(votes) = None THEN round[b][n].winner ELSE Leader(votes)
             rounds == [round[b] EXCEPT ![n].votes = votes, ![n].winner = winner]
  <2>1. b \in Battles /\ battle[b].status = "active"
    BY <1>3 DEF CastVote, Ballots, Countable
  <2>2. /\ round' = [round EXCEPT ![b] = rounds]
        /\ Complete(b, Verdict(rounds)) \/ UNCHANGED <<battle, balance, completions>>
    BY <1>3 DEF CastVote
  <2> HIDE DEF rounds, b
  <2>3. round'[b] = rounds /\ \A c \in Battles : c # b => round'[c] = round[c]
    BY <2>1, <2>2 DEF TypeOK
  <2> QED BY <2>1, <2>2, <2>3 DEF Decides, Undecided
<1>4. ASSUME NEW b \in Battles, NEW n \in Rounds, CloseRound(b, n)
      PROVE  Undecided \/ \E c \in Battles : Decides(c)
  <2> DEFINE rounds == [round[b] EXCEPT ![n].closed = TRUE, ![n].winner = Leader(round[b][n].votes)]
  <2>1. /\ battle[b].status \in {"pending", "active"}
        /\ round' = [round EXCEPT ![b] = rounds]
        /\ \/ Complete(b, Verdict(rounds))
           \/ /\ battle' = [battle EXCEPT ![b].status = "active", ![b].current = n + 1]
              /\ UNCHANGED <<balance, completions>>
           \/ UNCHANGED <<battle, balance, completions>>
    BY <1>4 DEF CloseRound, Sweepable
  <2> HIDE DEF rounds
  <2>2. round'[b] = rounds /\ \A c \in Battles : c # b => round'[c] = round[c]
    BY <2>1 DEF TypeOK
  <2>3. CASE /\ battle' = [battle EXCEPT ![b].status = "active", ![b].current = n + 1]
             /\ UNCHANGED <<balance, completions>>
    <3>1. /\ \A c \in Battles : c # b => battle'[c] = battle[c]
          /\ battle'[b].status = "active"
          /\ battle'[b].winner = battle[b].winner
          /\ battle'[b].settled = battle[b].settled
      BY <2>3 DEF TypeOK, BattleRows
    <3> QED BY <2>1, <2>2, <2>3, <3>1 DEF Undecided
  <2> QED BY <2>1, <2>2, <2>3 DEF Decides, Undecided
<1>5. CASE UNCHANGED <<battle, round, balance, completions>>
  BY <1>5 DEF Undecided
<1> QED
  BY <1>1, <1>2, <1>3, <1>4, <1>5
     DEF Next, DeadlinePasses, AdmitSubmission, SubmissionRefused, AdmitVote, VoteRefused, vars

DecidedInv == TypeOK /\ DecidedOnce

LEMMA DecidedInvariance == DecidedInv /\ [Next]_vars => DecidedInv'
<1> SUFFICES ASSUME TypeOK, DecidedOnce, [Next]_vars PROVE TypeOK' /\ DecidedOnce'
  BY DEF DecidedInv
<1>1. TypeOK'
  BY TypeInvariance
<1>2. CASE Undecided
  <2>1. ASSUME NEW c \in Battles, battle[c].status = "completed"
        PROVE  Verdict(round'[c]) = Verdict(round[c])
    BY <1>2, <2>1 DEF Undecided
  <2> QED BY <1>1, <1>2, <2>1 DEF Undecided, DecidedOnce
<1>3. ASSUME NEW b \in Battles, Decides(b) PROVE DecidedOnce'
  <2>1. /\ battle'[b].status = "completed"
        /\ battle'[b].winner = Verdict(round'[b])
        /\ battle'[b].settled
        /\ completions'[b] = completions[b] + 1
    BY <1>3 DEF Decides, Complete, TypeOK, BattleRows
  <2>2. completions[b] = 0
    BY <1>3 DEF Decides, DecidedOnce
  <2>3. ASSUME NEW c \in Battles, c # b
        PROVE  battle'[c] = battle[c] /\ round'[c] = round[c] /\ completions'[c] = completions[c]
    BY <1>3, <2>3 DEF Decides, Complete, TypeOK
  <2> QED BY <2>1, <2>2, <2>3 DEF DecidedOnce
<1> QED BY <1>1, <1>2, <1>3, StepDecidesOrNot

LEMMA DecidedInitially == Init => DecidedInv
  BY TypeInitially DEF Init, DecidedInv, DecidedOnce, NoBattle

\* A battle is decided once, by the rounds as they stand, and announced once.
THEOREM DecidedExactlyOnce == Spec => []DecidedOnce
<1>1. DecidedInv => DecidedOnce
  BY DEF DecidedInv
<1> QED BY <1>1, DecidedInitially, DecidedInvariance, PTL DEF Spec

-----------------------------------------------------------------------------
(* The arena implements StakeLedger.                                       *)

LEMMA LedgerInitially == Init => Ledger!Init
  BY DEF Init, Ledger!Init, Outcome, NoBattle

LEMMA LedgerStep == DecidedInv /\ [Next]_vars => [Ledger!Next]_Ledger!vars
<1> SUFFICES ASSUME TypeOK, DecidedOnce, [Next]_vars PROVE [Ledger!Next]_Ledger!vars
  BY DEF DecidedInv
<1> DEFINE outcome == [b \in Battles |-> Outcome(b)]
<1>1. CASE Undecided
  <2>1. \A b \in Battles : Outcome(b)' = Outcome(b)
    BY <1>1 DEF Undecided, Outcome
  <2> QED BY <1>1, <2>1 DEF Undecided, Ledger!vars
<1>2. ASSUME NEW b \in Battles, Decides(b) PROVE Ledger!Next
  <2> DEFINE verdict == Verdict(round'[b])
  <2>1. verdict \in Result
    BY ResultsAreResults
  <2>2. Outcome(b) = "open" /\ ~battle[b].settled
    BY <1>2 DEF Decides, Outcome, DecidedOnce
  <2>3. \A c \in Battles : c # b => Outcome(c)' = Outcome(c)
    BY <1>2 DEF Decides, Complete, Outcome, TypeOK
  <2>4. Outcome(b)' = IF verdict = None THEN "draw" ELSE verdict
    BY <1>2 DEF Decides, Complete, Outcome, TypeOK, BattleRows
  <2>5. outcome' = [outcome EXCEPT ![b] = IF verdict = None THEN "draw" ELSE verdict]
    BY <2>3, <2>4
  <2>6. balance' = Paid(b, verdict)
    BY <1>2, <2>2 DEF Decides, Complete
  <2> HIDE DEF verdict
  <2>7. CASE verdict = None
    <3>1. balance' = balance
      BY <2>6, <2>7 DEF Paid
    <3>2. outcome' = [outcome EXCEPT ![b] = "draw"]
      BY <2>5, <2>7
    <3>3. Ledger!Draw(b)
      BY <2>2, <3>1, <3>2 DEF Ledger!Draw
    <3> QED BY <3>3 DEF Ledger!Next
  <2>8. ASSUME verdict \in Sides PROVE Ledger!Win(b, verdict, Rival(verdict))
    <3> DEFINE t == Transfer(b, verdict)
               loser == Contender[b][Rival(verdict)]
    <3>1. verdict # None
      BY <2>8, NoneAssumption
    <3>2. /\ t \in {Stake[b], balance[loser]}
          /\ t <= Stake[b]
          /\ t <= balance[loser]
      BY <2>8, TransferBounded
    <3>3. balance' = [balance EXCEPT ![Contender[b][verdict]] = @ + t, ![loser] = @ - t]
      BY <2>6, <3>1 DEF Paid
    <3>4. outcome' = [outcome EXCEPT ![b] = verdict]
      BY <2>5, <3>1
    <3> HIDE DEF t
    <3> QED BY <2>2, <3>2, <3>3, <3>4 DEF Ledger!Win
  <2> QED BY <2>1, <2>7, <2>8 DEF Ledger!Next, Result, Sides, Rival
<1> QED BY <1>1, <1>2, StepDecidesOrNot

\* Every behaviour of the arena is one of StakeLedger's: a stake is settled
\* exactly once, in the step that decides the battle, from what the loser then
\* has to what the winner gets.
THEOREM LedgerImplemented == Spec => LedgerKept
  BY LedgerInitially, LedgerStep, DecidedInitially, DecidedInvariance, PTL
     DEF Spec, LedgerKept, Ledger!Spec

-----------------------------------------------------------------------------
(* Sums of amounts over sets of battles.                                   *)

\* Induction, as the existence of a least counterexample.
LEMMA Least == ASSUME NEW T \in SUBSET Nat, T # {} PROVE \E x \in T : \A y \in T : x <= y
<1> DEFINE R == {ss \in Nat \X Nat : ss[1] < ss[2]}
<1>1. IsWellFoundedOn(R, Nat)
  BY NatLessThanWellFounded DEF OpToRel
<1>2. \A x, y \in Nat : <<y, x>> \in R <=> y < x
  OBVIOUS
<1> HIDE DEF R
<1>3. PICK x \in T : \A y \in T : ~ (<<y, x>> \in R)
  BY <1>1, WFMin
<1>4. \A y \in T : ~(y < x)
  BY <1>2, <1>3
<1>5. \A y \in T : x <= y
  BY <1>4
<1> QED BY <1>5

\* A property that fails for a subset of a finite set fails for a smallest one.
LEMMA Smallest ==
    ASSUME NEW S, IsFiniteSet(S), NEW Q \in SUBSET SUBSET S, Q # {}
    PROVE  \E T \in Q : \A U \in Q : U \subseteq T => U = T
<1> DEFINE Sizes == {Cardinality(T) : T \in Q}
<1>1. \A T \in Q : IsFiniteSet(T) /\ Cardinality(T) \in Nat
  BY FS_Subset, FS_CardinalityType
<1>2. Sizes \in SUBSET Nat /\ Sizes # {}
  BY <1>1
<1>3. PICK n \in Sizes : \A m \in Sizes : n <= m
  BY <1>2, Least
<1>4. PICK T \in Q : n = Cardinality(T)
  OBVIOUS
<1>5. ASSUME NEW U \in Q, U \subseteq T, U # T PROVE FALSE
  <2>1. Cardinality(U) < Cardinality(T)
    BY <1>1, <1>5, FS_Subset
  <2>2. Cardinality(T) <= Cardinality(U)
    BY <1>3, <1>4
  <2> QED BY <1>1, <2>1, <2>2
<1> QED BY <1>5

\* The amounts of a set of rows, and the definition of the fold that adds them.
Total(f, S) == MapThenSumSet(LAMBDA x : f[x].amount, S)

Drawn(s) == CHOOSE x \in s : TRUE
DrawnFirst(f, iter, s) == IF s = {} THEN 0 ELSE f[Drawn(s)].amount + iter[s \ {Drawn(s)}]
Iteration(f, S) == CHOOSE iter : iter = [s \in SUBSET S |-> DrawnFirst(f, iter, s)]

LEMMA TotalIterates == ASSUME NEW f, NEW S PROVE Total(f, S) = Iteration(f, S)[S]
  BY DEF Total, MapThenSumSet, MapThenFoldSet, Iteration, DrawnFirst, Drawn

LEMMA DrawnIsMember == ASSUME NEW s, s # {} PROVE Drawn(s) \in s
  BY DEF Drawn

\* The iteration is a function: the subsets are handled from the smallest up.
LEMMA IterationUnfolds ==
    ASSUME NEW f, NEW S, IsFiniteSet(S)
    PROVE  \A s \in SUBSET S : Iteration(f, S)[s] = DrawnFirst(f, Iteration(f, S), s)
<1> DEFINE Up(n) == {s \in SUBSET S : Cardinality(s) <= n}
           Solves(g, n) == g = [s \in Up(n) |-> DrawnFirst(f, g, s)]
           Bad == {n \in Nat : ~ \E g : Solves(g, n)}
<1>1. \A s \in SUBSET S : IsFiniteSet(s) /\ Cardinality(s) \in Nat /\ Cardinality(s) <= Cardinality(S)
  BY FS_Subset, FS_CardinalityType
<1>2. \A s \in SUBSET S : s # {} =>
         /\ s \ {Drawn(s)} \in SUBSET S
         /\ Cardinality(s \ {Drawn(s)}) = Cardinality(s) - 1
  BY <1>1, DrawnIsMember, FS_RemoveElement
<1>3. Bad = {}
  <2> SUFFICES ASSUME Bad # {} PROVE FALSE
    OBVIOUS
  <2>1. PICK n \in Bad : \A m \in Bad : n <= m
    <3> HIDE DEF Solves
    <3>1. Bad \in SUBSET Nat
      OBVIOUS
    <3> QED BY <3>1, Least
  <2>2. n # 0
    <3> SUFFICES ASSUME n = 0 PROVE FALSE
      OBVIOUS
    <3>1. \A s \in Up(0) : s = {}
      BY <1>1, FS_EmptySet
    <3> DEFINE g == [s \in Up(0) |-> 0]
    <3>2. \A s \in Up(0) : DrawnFirst(f, g, s) = 0
      BY <3>1 DEF DrawnFirst
    <3>3. Solves(g, 0)
      BY <3>2
    <3> QED BY <3>3
  <2>3. n - 1 \in Nat /\ n - 1 \notin Bad
    <3>1. n \in Nat
      OBVIOUS
    <3> HIDE DEF Bad
    <3> QED BY <2>1, <2>2, <3>1
  <2>4. PICK g : Solves(g, n - 1)
    BY <2>3
  <2> DEFINE h == [s \in Up(n) |-> DrawnFirst(f, g, s)]
  <2>5. \A s \in Up(n) : DrawnFirst(f, g, s) = DrawnFirst(f, h, s)
    <3> SUFFICES ASSUME NEW s \in Up(n), s # {} PROVE DrawnFirst(f, g, s) = DrawnFirst(f, h, s)
      BY DEF DrawnFirst
    <3>1. s \ {Drawn(s)} \in Up(n - 1)
      BY <1>1, <1>2
    <3>2. s \ {Drawn(s)} \in Up(n)
      BY <1>1, <1>2
    <3>3. h[s \ {Drawn(s)}] = DrawnFirst(f, g, s \ {Drawn(s)})
      BY <3>2
    <3>4. g[s \ {Drawn(s)}] = DrawnFirst(f, g, s \ {Drawn(s)})
      BY <2>4, <3>1
    <3> QED BY <3>3, <3>4 DEF DrawnFirst
  <2>6. Solves(h, n)
    BY <2>5
  <2> QED BY <2>6
<1>4. Cardinality(S) \in Nat
  BY FS_CardinalityType
<1>5. PICK g : Solves(g, Cardinality(S))
  BY <1>3, <1>4
<1>6. Up(Cardinality(S)) = SUBSET S
  BY <1>1
<1>7. g = [s \in SUBSET S |-> DrawnFirst(f, g, s)]
  BY <1>5, <1>6
<1>8. Iteration(f, S) = [s \in SUBSET S |-> DrawnFirst(f, Iteration(f, S), s)]
  BY <1>7 DEF Iteration
<1> QED BY <1>8

\* A sum does not depend on the set it is a part of.
LEMMA IterationsAgree ==
    ASSUME NEW f, NEW S, IsFiniteSet(S), NEW T \in SUBSET S
    PROVE  Iteration(f, S)[T] = Iteration(f, T)[T]
<1> DEFINE Bad == {s \in SUBSET T : Iteration(f, S)[s] # Iteration(f, T)[s]}
<1>0. IsFiniteSet(T)
  BY FS_Subset
<1> SUFFICES ASSUME Bad # {} PROVE FALSE
  OBVIOUS
<1>1. PICK s \in Bad : \A u \in Bad : u \subseteq s => u = s
  <2> HIDE DEF Bad
  <2>1. Bad \in SUBSET SUBSET T
    BY DEF Bad
  <2> QED BY <1>0, <2>1, Smallest
<1>2. s \in SUBSET S /\ s \in SUBSET T
  OBVIOUS
<1>3. /\ Iteration(f, S)[s] = DrawnFirst(f, Iteration(f, S), s)
      /\ Iteration(f, T)[s] = DrawnFirst(f, Iteration(f, T), s)
  BY <1>0, <1>2, IterationUnfolds
<1>4. CASE s = {}
  BY <1>3, <1>4 DEF DrawnFirst
<1>5. CASE s # {}
  <2>1. s \ {Drawn(s)} \in SUBSET T /\ s \ {Drawn(s)} # s
    BY <1>5, DrawnIsMember
  <2>2. Iteration(f, S)[s \ {Drawn(s)}] = Iteration(f, T)[s \ {Drawn(s)}]
    BY <1>1, <2>1
  <2> QED BY <1>3, <1>5, <2>2 DEF DrawnFirst
<1> QED BY <1>4, <1>5

LEMMA TotalUnfolds ==
    ASSUME NEW f, NEW S, IsFiniteSet(S)
    PROVE  /\ S = {} => Total(f, S) = 0
           /\ S # {} => Total(f, S) = f[Drawn(S)].amount + Total(f, S \ {Drawn(S)})
<1>1. Total(f, S) = DrawnFirst(f, Iteration(f, S), S)
  BY TotalIterates, IterationUnfolds
<1>2. S # {} => Iteration(f, S)[S \ {Drawn(S)}] = Total(f, S \ {Drawn(S)})
  BY TotalIterates, IterationsAgree
<1> QED BY <1>1, <1>2 DEF DrawnFirst

\* A sum is a natural number, and the amounts of its members determine it.
LEMMA TotalDetermined ==
    ASSUME NEW f, NEW g, NEW S, IsFiniteSet(S),
           \A x \in S : f[x].amount \in Nat /\ f[x].amount = g[x].amount
    PROVE  Total(f, S) \in Nat /\ Total(f, S) = Total(g, S)
<1> DEFINE Bad == {s \in SUBSET S : ~ (Total(f, s) \in Nat /\ Total(f, s) = Total(g, s))}
<1> SUFFICES ASSUME Bad # {} PROVE FALSE
  OBVIOUS
<1>1. PICK s \in Bad : \A u \in Bad : u \subseteq s => u = s
  <2> HIDE DEF Bad
  <2>1. Bad \in SUBSET SUBSET S
    BY DEF Bad
  <2> QED BY <2>1, Smallest
<1>2. IsFiniteSet(s)
  BY FS_Subset
<1>3. CASE s = {}
  <2>1. Total(f, s) = 0 /\ Total(g, s) = 0
    BY <1>2, <1>3, TotalUnfolds
  <2> QED BY <2>1
<1>4. CASE s # {}
  <2>1. s \ {Drawn(s)} \in SUBSET S /\ s \ {Drawn(s)} # s /\ Drawn(s) \in S
    BY <1>4, DrawnIsMember
  <2>2. Total(f, s \ {Drawn(s)}) \in Nat /\ Total(f, s \ {Drawn(s)}) = Total(g, s \ {Drawn(s)})
    BY <1>1, <2>1
  <2>3. /\ Total(f, s) = f[Drawn(s)].amount + Total(f, s \ {Drawn(s)})
        /\ Total(g, s) = g[Drawn(s)].amount + Total(g, s \ {Drawn(s)})
    BY <1>2, <1>4, TotalUnfolds
  <2>4. f[Drawn(s)].amount \in Nat /\ f[Drawn(s)].amount = g[Drawn(s)].amount
    BY <2>1
  <2>5. Total(f, s) \in Nat /\ Total(f, s) = Total(g, s)
    BY <2>2, <2>3, <2>4
  <2> QED BY <2>5
<1> QED BY <1>3, <1>4

\* Any member can be taken out of a sum first.
LEMMA TotalRemoves ==
    ASSUME NEW f, NEW S, IsFiniteSet(S), \A x \in S : f[x].amount \in Nat, NEW m \in S
    PROVE  Total(f, S) = f[m].amount + Total(f, S \ {m})
<1> DEFINE Bad == {s \in SUBSET S : ~ \A x \in s : Total(f, s) = f[x].amount + Total(f, s \ {x})}
<1> SUFFICES ASSUME Bad # {} PROVE FALSE
  OBVIOUS
<1>1. PICK s \in Bad : \A u \in Bad : u \subseteq s => u = s
  <2> HIDE DEF Bad
  <2>1. Bad \in SUBSET SUBSET S
    BY DEF Bad
  <2> QED BY <2>1, Smallest
<1>2. PICK x \in s : Total(f, s) # f[x].amount + Total(f, s \ {x})
  OBVIOUS
<1>3. IsFiniteSet(s) /\ IsFiniteSet(s \ {x}) /\ s # {}
  BY FS_Subset
<1> DEFINE d == Drawn(s)
<1>4. d \in s /\ Total(f, s) = f[d].amount + Total(f, s \ {d})
  BY <1>3, DrawnIsMember, TotalUnfolds
<1>5. x # d
  BY <1>2, <1>4
<1> HIDE DEF d
<1>6. /\ s \ {d} \in SUBSET S /\ s \ {d} # s /\ x \in s \ {d}
      /\ s \ {x} \in SUBSET S /\ s \ {x} # s /\ d \in s \ {x}
      /\ (s \ {d}) \ {x} = (s \ {x}) \ {d}
  BY <1>4, <1>5
<1>7. Total(f, s \ {d}) = f[x].amount + Total(f, (s \ {d}) \ {x})
  BY <1>1, <1>6
<1>8. Total(f, s \ {x}) = f[d].amount + Total(f, (s \ {x}) \ {d})
  BY <1>1, <1>6
<1> DEFINE rest == (s \ {d}) \ {x}
<1>9. Total(f, rest) \in Nat
  <2>1. IsFiniteSet(rest) /\ \A y \in rest : f[y].amount \in Nat
    BY <1>3, FS_Subset
  <2> QED BY <2>1, TotalDetermined
<1>10. f[x].amount \in Nat /\ f[d].amount \in Nat
  BY <1>4
<1>11. Total(f, s \ {x}) = f[d].amount + Total(f, rest)
  BY <1>6, <1>8
<1> HIDE DEF rest, Bad
<1>12. Total(f, s \ {d}) = f[x].amount + Total(f, rest)
  BY <1>7 DEF rest
<1> QED BY <1>2, <1>4, <1>9, <1>10, <1>11, <1>12

-----------------------------------------------------------------------------
(* Balances.                                                               *)

\* The battles that agent a won, and those that a lost, by the rows of f.
Won(f, a) == {b \in Battles : f[b].winner # None /\ Contender[b][f[b].winner] = a}
Lost(f, a) == {b \in Battles : f[b].winner # None /\ Contender[b][Rival(f[b].winner)] = a}

Explains(f, points) ==
    \A a \in Agents : points[a] = Opening[a] + Total(f, Won(f, a)) - Total(f, Lost(f, a))

LEMMA ExplainsIsExplained ==
    /\ BalancesExplained <=> Explains(battle, balance)
    /\ BalancesExplained' <=> Explains(battle', balance')
<1>1. \A S : MapThenSumSet(Amount, S) = Total(battle, S)
  BY DEF Amount, Total, MapThenSumSet, MapThenFoldSet
<1>2. \A S : MapThenSumSet(Amount, S)' = Total(battle', S)
  BY DEF Amount, Total, MapThenSumSet, MapThenFoldSet
<1> QED BY <1>1, <1>2 DEF BalancesExplained, Explains, WonBy, LostBy, Won, Lost

\* A battle that is decided for the first time joins a sum with its amount;
\* the sum of the others, whose rows stay, is what it was.
LEMMA TotalGrows ==
    ASSUME NEW S \in SUBSET Battles, NEW b \in Battles, b \notin S,
           \A c \in S : battle[c].amount \in Nat /\ battle'[c] = battle[c],
           battle'[b].amount \in Nat
    PROVE  /\ Total(battle, S) \in Nat
           /\ Total(battle', S) = Total(battle, S)
           /\ Total(battle', S \cup {b}) = battle'[b].amount + Total(battle, S)
<1>1. IsFiniteSet(S) /\ IsFiniteSet(S \cup {b})
  BY BattlesAssumption, FS_Subset
<1>2. Total(battle, S) \in Nat /\ Total(battle, S) = Total(battle', S)
  BY <1>1, TotalDetermined
<1>3. \A c \in S \cup {b} : battle'[c].amount \in Nat
  OBVIOUS
<1>4. (S \cup {b}) \ {b} = S
  OBVIOUS
<1>5. Total(battle', S \cup {b}) = battle'[b].amount + Total(battle', (S \cup {b}) \ {b})
  BY <1>1, <1>3, TotalRemoves
<1> QED BY <1>2, <1>4, <1>5

\* The rows of decided battles stay, and no battle is decided by the step.
LEMMA UndecidedExplains ==
    ASSUME TypeOK, DecidedOnce, BalancesExplained, [Next]_vars, Undecided
    PROVE  BalancesExplained'
<1>1. \A c \in Battles : /\ battle[c].amount \in Nat
                         /\ battle'[c].winner = battle[c].winner
                         /\ battle[c].winner # None => battle'[c] = battle[c]
  BY OneBattleWritten DEF TypeOK, BattleRows, Undecided, DecidedOnce, Untouched
<1>2. ASSUME NEW a \in Agents
      PROVE  /\ Won(battle', a) = Won(battle, a)
             /\ Lost(battle', a) = Lost(battle, a)
             /\ \A c \in Won(battle, a) \cup Lost(battle, a) :
                  battle[c].amount \in Nat /\ battle[c].amount = battle'[c].amount
  BY <1>1 DEF Won, Lost
<1>3. ASSUME NEW a \in Agents
      PROVE  /\ Total(battle', Won(battle', a)) = Total(battle, Won(battle, a))
             /\ Total(battle', Lost(battle', a)) = Total(battle, Lost(battle, a))
  <2>1. IsFiniteSet(Won(battle, a)) /\ IsFiniteSet(Lost(battle, a))
    BY BattlesAssumption, FS_Subset DEF Won, Lost
  <2>2. Total(battle, Won(battle, a)) = Total(battle', Won(battle, a))
    BY <1>2, <2>1, TotalDetermined
  <2>3. Total(battle, Lost(battle, a)) = Total(battle', Lost(battle, a))
    BY <1>2, <2>1, TotalDetermined
  <2> QED BY <1>2, <2>2, <2>3
<1>4. Explains(battle, balance)
  BY ExplainsIsExplained
<1>5. balance' = balance
  BY DEF Undecided
<1>6. Explains(battle', balance')
  BY <1>3, <1>4, <1>5 DEF Explains
<1> QED BY <1>6, ExplainsIsExplained

\* The deciding step moves one amount from the loser to the winner and adds it
\* to what the one has won and the other has lost.
LEMMA DecisionExplains ==
    ASSUME TypeOK, DecidedOnce, BalancesExplained, NEW b \in Battles, Decides(b)
    PROVE  BalancesExplained'
<1> DEFINE verdict == Verdict(round'[b])
           t == Transfer(b, verdict)
<1>1. verdict \in Result
  BY ResultsAreResults
<1>2. battle[b].winner = None /\ ~battle[b].settled
  BY DEF Decides, DecidedOnce
<1>3. \A c \in Battles : c # b => battle'[c] = battle[c]
  BY DEF Decides, Complete, TypeOK
<1>4. battle'[b].winner = verdict /\ battle'[b].amount = t
  BY <1>2 DEF Decides, Complete, TypeOK, BattleRows
<1>5. balance' = Paid(b, verdict)
  BY <1>2 DEF Decides, Complete
<1>6. t \in Nat
  BY <1>1, TransferBounded DEF Result, Transfer
<1>7. \A c \in Battles : battle[c].amount \in Nat
  BY DEF TypeOK, BattleRows
<1>8. Explains(battle, balance)
  BY ExplainsIsExplained
<1> HIDE DEF verdict, t
<1>9. ASSUME NEW a \in Agents
      PROVE  /\ Won(battle, a) \in SUBSET Battles /\ b \notin Won(battle, a)
             /\ Lost(battle, a) \in SUBSET Battles /\ b \notin Lost(battle, a)
             /\ \A c \in Won(battle, a) \cup Lost(battle, a) :
                  battle[c].amount \in Nat /\ battle'[c] = battle[c]
             /\ battle'[b].amount \in Nat
  BY <1>2, <1>3, <1>4, <1>6, <1>7 DEF Won, Lost
<1>10. ASSUME NEW a \in Agents
       PROVE  /\ Total(battle, Won(battle, a)) \in Nat
              /\ Total(battle', Won(battle, a)) = Total(battle, Won(battle, a))
              /\ Total(battle', Won(battle, a) \cup {b}) = t + Total(battle, Won(battle, a))
              /\ Total(battle, Lost(battle, a)) \in Nat
              /\ Total(battle', Lost(battle, a)) = Total(battle, Lost(battle, a))
              /\ Total(battle', Lost(battle, a) \cup {b}) = t + Total(battle, Lost(battle, a))
  <2>1. ASSUME NEW S \in {Won(battle, a), Lost(battle, a)}
        PROVE  /\ Total(battle, S) \in Nat
               /\ Total(battle', S) = Total(battle, S)
               /\ Total(battle', S \cup {b}) = battle'[b].amount + Total(battle, S)
    <3>1. /\ S \in SUBSET Battles /\ b \notin S
          /\ \A c \in S : battle[c].amount \in Nat /\ battle'[c] = battle[c]
          /\ battle'[b].amount \in Nat
      BY <1>9
    <3> QED BY <3>1, TotalGrows
  <2> QED BY <1>4, <2>1
<1>11. CASE verdict = None
  <2>1. \A a \in Agents : Won(battle', a) = Won(battle, a) /\ Lost(battle', a) = Lost(battle, a)
    BY <1>2, <1>3, <1>4, <1>11 DEF Won, Lost
  <2>2. balance' = balance
    BY <1>5, <1>11 DEF Paid
  <2>3. Explains(battle', balance')
    BY <1>8, <1>10, <2>1, <2>2 DEF Explains
  <2> QED BY <2>3, ExplainsIsExplained
<1>12. CASE verdict \in Sides
  <2> DEFINE winner == Contender[b][verdict]
             loser == Contender[b][Rival(verdict)]
  <2>0. verdict # None
    BY <1>12, NoneAssumption
  <2>1. winner \in Agents /\ loser \in Agents /\ winner # loser
    BY <1>12, ContendersAreAgents
  <2>2. balance' = [balance EXCEPT ![winner] = @ + t, ![loser] = @ - t]
    BY <1>5, <2>0 DEF Paid, t
  <2>3. \A a \in Agents :
          /\ Won(battle', a) = IF a = winner THEN Won(battle, a) \cup {b} ELSE Won(battle, a)
          /\ Lost(battle', a) = IF a = loser THEN Lost(battle, a) \cup {b} ELSE Lost(battle, a)
    <3> SUFFICES ASSUME NEW a \in Agents
                 PROVE  /\ \A c : c \in Won(battle', a) <=>
                               c \in IF a = winner THEN Won(battle, a) \cup {b} ELSE Won(battle, a)
                        /\ \A c : c \in Lost(battle', a) <=>
                               c \in IF a = loser THEN Lost(battle, a) \cup {b} ELSE Lost(battle, a)
      OBVIOUS
    <3> QED BY <1>2, <1>3, <1>4, <2>0 DEF Won, Lost
  <2> HIDE DEF winner, loser
  <2>4. \A a \in Agents : balance[a] \in Nat /\ Opening[a] \in Nat
    BY StakeAssumption DEF TypeOK
  <2>5. ASSUME NEW a \in Agents
        PROVE  balance'[a] = Opening[a] + Total(battle', Won(battle', a))
                                        - Total(battle', Lost(battle', a))
    <3>1. balance[a] = Opening[a] + Total(battle, Won(battle, a)) - Total(battle, Lost(battle, a))
      BY <1>8 DEF Explains
    <3>2. balance'[a] = IF a = winner THEN balance[a] + t
                        ELSE IF a = loser THEN balance[a] - t ELSE balance[a]
      BY <2>1, <2>2 DEF TypeOK
    <3>3. Total(battle', Won(battle', a)) =
            IF a = winner THEN t + Total(battle, Won(battle, a)) ELSE Total(battle, Won(battle, a))
      BY <1>10, <2>3
    <3>4. Total(battle', Lost(battle', a)) =
            IF a = loser THEN t + Total(battle, Lost(battle, a)) ELSE Total(battle, Lost(battle, a))
      BY <1>10, <2>3
    <3>5. Total(battle, Won(battle, a)) \in Nat /\ Total(battle, Lost(battle, a)) \in Nat
      BY <1>10
    <3> HIDE DEF Explains
    <3> QED BY <1>6, <2>1, <2>4, <3>1, <3>2, <3>3, <3>4, <3>5
  <2>6. Explains(battle', balance')
    BY <2>5 DEF Explains
  <2> QED BY <2>6, ExplainsIsExplained
<1> QED BY <1>1, <1>11, <1>12 DEF Result

LEMMA NothingMovedInitially == Init => BalancesExplained
<1> SUFFICES ASSUME Init PROVE BalancesExplained
  OBVIOUS
<1>1. \A a \in Agents : Won(battle, a) = {} /\ Lost(battle, a) = {}
  BY DEF Init, NoBattle, Won, Lost
<1>2. Total(battle, {}) = 0
  BY FS_EmptySet, TotalUnfolds
<1>3. \A a \in Agents : balance[a] = Opening[a] /\ Opening[a] \in Nat
  BY StakeAssumption DEF Init
<1>4. ASSUME NEW a \in Agents
      PROVE  balance[a] = Opening[a] + Total(battle, Won(battle, a)) - Total(battle, Lost(battle, a))
  <2>1. Total(battle, Won(battle, a)) = 0 /\ Total(battle, Lost(battle, a)) = 0
    BY <1>1, <1>2
  <2> QED BY <1>3, <2>1
<1>5. Explains(battle, balance)
  BY <1>4 DEF Explains
<1> QED BY <1>5, ExplainsIsExplained

\* For any battles and agents a balance is what the agent started with, plus
\* what the battles it won moved to it, less what the battles it lost took:
\* nothing is paid twice, and no other battle touches it.
THEOREM BalancesAreExplained == Spec => []BalancesExplained
<1> DEFINE Inv == DecidedInv /\ BalancesExplained
<1>1. Init => Inv
  BY DecidedInitially, NothingMovedInitially
<1>2. Inv /\ [Next]_vars => Inv'
  BY DecidedInvariance, StepDecidesOrNot, UndecidedExplains, DecisionExplains DEF DecidedInv
<1>3. Inv => BalancesExplained
  OBVIOUS
<1> QED BY <1>1, <1>2, <1>3, PTL DEF Spec

-----------------------------------------------------------------------------
(* Announcements.                                                          *)

AnnouncedInv ==
    /\ TypeOK
    /\ CurrentWasAnnounced
    /\ \A b \in Battles : battle[b].status = "absent" => battle[b].current = 0

\* Battle c keeps its announcements and its current round, or moves on to a
\* round that the same step announces; a first argument makes round 1 current.
MovesOn(c) ==
    /\ battle'[c].status # "absent"
    /\ \A n \in Rounds : opened'[c][n] >= opened[c][n]
    /\ \/ battle'[c].current = battle[c].current
       \/ battle'[c].current = 1
       \/ battle'[c].current \in Rounds /\ opened'[c][battle'[c].current] >= 1

\* Only its creation makes a battle present, and that announces round 1.
Appears(c) ==
    /\ battle[c].status = "absent"
    /\ battle'[c].current = battle[c].current
    /\ battle'[c].status = "absent" \/ opened'[c][1] >= 1

LEMMA StepAnnounces ==
    ASSUME TypeOK, [Next]_vars, NEW c \in Battles
    PROVE  \/ battle[c].status # "absent" /\ MovesOn(c)
           \/ Appears(c)
<1> DEFINE Goal == \/ battle[c].status # "absent" /\ MovesOn(c)
                   \/ Appears(c)
<1>0. /\ opened[c] \in [Rounds -> Nat]
      /\ battle[c] \in BattleRows
      /\ 1 \in Rounds
  BY RoundsAssumption DEF TypeOK, Rounds
<1>1. ASSUME battle'[c] = battle[c], opened'[c] = opened[c] PROVE Goal
  BY <1>0, <1>1 DEF MovesOn, Appears
<1>2. ASSUME NEW b \in Battles, CreateBattle(b) PROVE Goal
  <2>1. CASE b = c
    <3>1. opened'[c] = [opened[c] EXCEPT ![1] = 1]
      BY <1>2, <2>1 DEF CreateBattle, TypeOK
    <3>2. battle[c].status = "absent" /\ battle'[c].current = battle[c].current
      BY <1>2, <2>1 DEF CreateBattle, TypeOK, BattleRows
    <3> QED BY <1>0, <3>1, <3>2 DEF Appears
  <2>2. CASE b # c
    BY <1>1, <1>2, <2>2 DEF CreateBattle, TypeOK
  <2> QED BY <2>1, <2>2
<1>3. ASSUME NEW r \in Requests, SubmitArgument(r) PROVE Goal
  <2> DEFINE b == request[r].battle
             n == request[r].round
  <2>1. b \in Battles /\ n \in Rounds /\ battle[b].status # "absent"
    BY <1>3 DEF SubmitArgument, Submissions, Accepting
  <2>2. CASE b # c
    BY <1>1, <1>3, <2>1, <2>2 DEF SubmitArgument, TypeOK
  <2>3. CASE b = c
    <3> DEFINE opens == n < TotalRounds /\ Rival(request[r].side) \in round[b][n].submitted
    <3>0. battle'[c].status # "absent"
      BY <1>3, <2>1, <2>3 DEF SubmitArgument, TypeOK, BattleRows
    <3>1. /\ battle'[c].current = IF opens THEN n + 1
                                  ELSE IF battle[c].status = "pending" THEN 1
                                  ELSE battle[c].current
          /\ opened' = IF opens THEN [opened EXCEPT ![c][n + 1] = @ + 1] ELSE opened
      BY <1>3, <2>1, <2>3 DEF SubmitArgument, TypeOK, BattleRows
    <3> HIDE DEF b, opens
    <3>2. CASE opens
      <4>1. n + 1 \in Rounds
        BY <2>1, <3>2, RoundsAssumption DEF Rounds, opens
      <4>2. opened'[c] = [opened[c] EXCEPT ![n + 1] = @ + 1]
        BY <3>1, <3>2, <4>1 DEF TypeOK
      <4> HIDE DEF n
      <4> QED BY <1>0, <2>1, <2>3, <3>0, <3>1, <3>2, <4>1, <4>2 DEF MovesOn
    <3>3. CASE ~opens
      BY <1>0, <2>1, <2>3, <3>0, <3>1, <3>3 DEF MovesOn
    <3> QED BY <3>2, <3>3
  <2> QED BY <2>2, <2>3
<1>4. ASSUME NEW r \in Requests, CastVote(r) PROVE Goal
  <2> DEFINE v == request[r]
             b == v.battle
             n == v.round
             votes == [round[b][n].votes EXCEPT ![v.voter] = v.side]
             winner == IF Leader(votes) = None THEN round[b][n].winner ELSE Leader(votes)
             verdict == Verdict([round[b] EXCEPT ![n].votes = votes, ![n].winner = winner])
  <2>1. b \in Battles /\ battle[b].status = "active"
    BY <1>4 DEF CastVote, Ballots, Countable
  <2>2. opened' = opened /\ (Complete(b, verdict) \/ battle' = battle)
    BY <1>4 DEF CastVote
  <2> HIDE DEF b, verdict
  <2>3. CASE Complete(b, verdict)
    <3>1. /\ battle'[c].current = battle[c].current
          /\ battle'[b].status = "completed"
          /\ b # c => battle'[c] = battle[c]
      BY <2>1, <2>3 DEF Complete, TypeOK, BattleRows
    <3> QED BY <1>0, <1>1, <2>1, <2>2, <3>1 DEF MovesOn
  <2> QED BY <1>1, <2>2, <2>3
<1>5. ASSUME NEW b \in Battles, NEW n \in Rounds, CloseRound(b, n) PROVE Goal
  <2>1. battle[b].status # "absent"
    BY <1>5 DEF CloseRound, Sweepable
  <2>2. CASE b # c
    BY <1>1, <1>5, <2>2 DEF CloseRound, Complete, Announce, TypeOK
  <2>3. CASE b = c
    <3>1. \/ opened'[c] = opened[c] /\ battle'[c].current = battle[c].current
          \/ /\ n < TotalRounds
             /\ battle'[c].current = n + 1
             /\ opened' = [opened EXCEPT ![c][n + 1] = @ + 1]
      BY <1>5, <2>3 DEF CloseRound, Complete, Announce, TypeOK, BattleRows
    <3>2. ASSUME n < TotalRounds, opened' = [opened EXCEPT ![c][n + 1] = @ + 1]
          PROVE  n + 1 \in Rounds /\ opened'[c] = [opened[c] EXCEPT ![n + 1] = @ + 1]
      BY <3>2, RoundsAssumption DEF TypeOK, Rounds
    <3>3. battle'[c].status # "absent"
      BY <1>5, <2>1, <2>3 DEF CloseRound, Complete, TypeOK, BattleRows
    <3> QED BY <1>0, <2>1, <2>3, <3>1, <3>2, <3>3 DEF MovesOn
  <2> QED BY <2>2, <2>3
<1>6. CASE UNCHANGED <<battle, opened>>
  BY <1>1, <1>6
<1> QED
  BY <1>2, <1>3, <1>4, <1>5, <1>6
     DEF Next, DeadlinePasses, AdmitSubmission, SubmissionRefused, AdmitVote, VoteRefused, vars

LEMMA AnnouncedInvariance == AnnouncedInv /\ [Next]_vars => AnnouncedInv'
<1> SUFFICES ASSUME AnnouncedInv, [Next]_vars PROVE AnnouncedInv'
  OBVIOUS
<1>1. TypeOK /\ TypeOK'
  BY TypeInvariance DEF AnnouncedInv
<1>2. ASSUME NEW c \in Battles
      PROVE  /\ battle'[c].status = "absent" => battle'[c].current = 0
             /\ battle'[c].status # "absent" =>
                  /\ opened'[c][1] >= 1
                  /\ battle'[c].current > 0 => opened'[c][battle'[c].current] >= 1
  <2>1. /\ opened[c] \in [Rounds -> Nat] /\ opened'[c] \in [Rounds -> Nat]
        /\ battle[c].current \in 0 .. TotalRounds
        /\ 1 \in Rounds
    BY <1>1, RoundsAssumption DEF TypeOK, BattleRows, Rounds
  <2>2. CASE Appears(c)
    BY <2>1, <2>2 DEF AnnouncedInv, Appears
  <2>3. CASE battle[c].status # "absent" /\ MovesOn(c)
    <3>1. /\ opened[c][1] >= 1
          /\ battle[c].current > 0 => opened[c][battle[c].current] >= 1
      BY <2>3 DEF AnnouncedInv, CurrentWasAnnounced
    <3>2. battle'[c].status # "absent"
      BY <2>3 DEF MovesOn
    <3>3. battle[c].current > 0 => battle[c].current \in Rounds
      BY <2>1, RoundsAssumption DEF Rounds
    <3> QED BY <2>1, <2>3, <3>1, <3>2, <3>3 DEF MovesOn
  <2> QED BY <1>1, <2>2, <2>3, StepAnnounces
<1> QED BY <1>1, <1>2 DEF AnnouncedInv, CurrentWasAnnounced

\* No agent waits for the announcement of a round that is already current.
THEOREM Announced == Spec => []CurrentWasAnnounced
<1>1. Init => AnnouncedInv
  BY TypeInitially DEF Init, AnnouncedInv, CurrentWasAnnounced, NoBattle
<1>2. AnnouncedInv => CurrentWasAnnounced
  BY DEF AnnouncedInv
<1> QED BY <1>1, <1>2, AnnouncedInvariance, PTL DEF Spec
=============================================================================
